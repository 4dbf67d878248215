--------------------------- MODULE PlatformProofs ---------------------------
(***************************************************************************)
(* Proofs about accounts, for any number of users, tokens, identities and  *)
(* overlapping requests: an address names one account, the guards admit    *)
(* only roles that were granted, and the quota of a key is kept;           *)
(* rotation, logout and provider logins keep what they promise.            *)
(***************************************************************************)
EXTENDS MCPlatform, Collections, FiniteSetTheorems, TLAPS

-----------------------------------------------------------------------------
(* Users, roles and guards.  What a request or a token says of an account   *)
(* was true of it once, and the roles an account has had only grow.         *)

Unnamed == {"none"}
PersonRow == [email : Emails \cup Unnamed, name : Usernames \cup Unnamed, role : Roles, factor : BOOLEAN]
AccessRow == [op : {"none", "plain", "traditional", "login", "assign"}, who : Persons \cup {NoPerson},
              email : Emails \cup Unnamed, name : Usernames \cup {"none", "plain", "traditional"},
              role : Roles]
SignedToken == [of : Persons, type : {"plain", "traditional"}, role : Roles \cup Unnamed,
                verified : BOOLEAN]
Routes == {"OPERATOR", "ADMIN", "KYC_OPERATOR"}

AccountTypeOK ==
    /\ people \in [Persons -> PersonRow]
    /\ access \in [AccessCalls -> AccessRow]
    /\ signed \subseteq SignedToken
    /\ held \in [Persons -> SUBSET Roles]
    /\ quotaAdmitted \subseteq [token : SignedToken, route : Routes, factor : BOOLEAN]

RolesAreHeld == \A p \in Registered : "USER" \in held[p] /\ people[p].role \in held[p]

GoodAccess(a) ==
    /\ a.op \in {"plain", "traditional"} => a.email \in Emails /\ a.name \in Usernames
    /\ a.op = "login" => a.who \in Registered /\ a.role \in held[a.who] /\ a.name \in {"plain", "traditional"}
    /\ a.op = "assign" => a.who \in Registered
CallsAreGood == \A c \in AccessCalls : GoodAccess(access[c])

GoodToken(t) == t.of \in Registered /\ NormalizeRole(t.role) \in held[t.of]
TokensAreGranted == \A t \in signed : GoodToken(t)

AccountInv ==
    /\ AccountTypeOK /\ RolesAreHeld /\ CallsAreGood /\ TokensAreGranted
    /\ RegisteredOnce /\ AdmittedWasGranted

LEMMA AccountInitially == AccessInit => AccountInv
<1> SUFFICES ASSUME AccessInit
             PROVE  AccountInv
  OBVIOUS
<1> USE DEF AccessInit
<1>1. AccountTypeOK
  BY DEF AccountTypeOK, NoPersonRow, NoAccess, PersonRow, AccessRow, Unnamed, Roles
<1>2. Registered = {}
  BY DEF Registered, NoPersonRow
<1>3. RolesAreHeld /\ TokensAreGranted /\ RegisteredOnce /\ AdmittedWasGranted
  BY <1>2 DEF RolesAreHeld, TokensAreGranted, RegisteredOnce, AdmittedWasGranted
<1>4. CallsAreGood
  BY DEF CallsAreGood, GoodAccess, NoAccess
<1> QED
  BY <1>1, <1>3, <1>4 DEF AccountInv

\* What was said of an account stays true while accounts stay registered and
\* the roles they have had grow.
LEMMA GoodAccessStays ==
    ASSUME Registered \subseteq Registered', \A p \in Registered : held[p] \subseteq held'[p],
           NEW a, GoodAccess(a)
    PROVE  GoodAccess(a)'
BY DEF GoodAccess

LEMMA GoodTokenStays ==
    ASSUME Registered \subseteq Registered', \A p \in Registered : held[p] \subseteq held'[p],
           NEW t, GoodToken(t)
    PROVE  GoodToken(t)'
BY DEF GoodToken

LEMMA AdmittedStays ==
    ASSUME AccountTypeOK, AdmittedWasGranted, UNCHANGED quotaAdmitted,
           \A p \in Persons : held[p] \subseteq held'[p]
    PROVE  AdmittedWasGranted'
BY DEF AdmittedWasGranted, AccountTypeOK, SignedToken

\* A step that leaves users, tokens and what was admitted alone.
LEMMA AccessOnly ==
    ASSUME AccountInv, UNCHANGED <<people, signed, quotaAdmitted, held>>,
           NEW c \in AccessCalls, NEW a \in AccessRow, GoodAccess(a),
           access' = [access EXCEPT ![c] = a]
    PROVE  AccountInv'
<1> USE DEF AccountInv
<1>1. AccountTypeOK'
  BY DEF AccountTypeOK
<1>2. Registered' = Registered
  BY DEF Registered
<1>3. GoodAccess(a)'
  BY <1>2, GoodAccessStays
<1>4. CallsAreGood'
  <2> SUFFICES ASSUME NEW d \in AccessCalls
               PROVE  GoodAccess(access[d])'
    BY DEF CallsAreGood
  <2>1. CASE d = c
    BY <2>1, <1>3 DEF AccountTypeOK
  <2>2. CASE d # c
    <3>1. access'[d] = access[d]
      BY <2>2 DEF AccountTypeOK
    <3>2. GoodAccess(access[d])
      BY DEF CallsAreGood
    <3> QED
      BY <3>1, <3>2, <1>2 DEF GoodAccess
  <2> QED
    BY <2>1, <2>2
<1>5. RolesAreHeld' /\ TokensAreGranted' /\ RegisteredOnce' /\ AdmittedWasGranted'
  BY <1>2 DEF RolesAreHeld, TokensAreGranted, RegisteredOnce, AdmittedWasGranted, GoodToken
<1> QED
  BY <1>1, <1>4, <1>5

\* A row stored for an account that has none yet, with a token for it.
LEMMA RegisteringIsSafe ==
    ASSUME AccountInv, NEW c \in AccessCalls, NEW p \in Persons, SaveAccount(c, p)
    PROVE  AccountInv'
<1> USE DEF AccountInv
<1> DEFINE a == access[c]
           taken == \E q \in Registered : people[q].email = a.email \/ people[q].name = a.name
           row == [NoPersonRow EXCEPT !.email = a.email, !.name = a.name]
           t == Token(p, a.op, IF a.op = "plain" THEN "none" ELSE "USER", FALSE)
<1>1. a \in AccessRow /\ a.op \in {"plain", "traditional"} /\ p \notin Registered
  BY DEF SaveAccount, AccountTypeOK
<1>2. a.email \in Emails /\ a.name \in Usernames /\ a.email # "none"
  BY <1>1, AccessAssumption DEF CallsAreGood, GoodAccess
<1>3. NoAccess \in AccessRow /\ GoodAccess(NoAccess)
  BY DEF NoAccess, AccessRow, Unnamed, Roles, GoodAccess
<1>4. CASE taken
  <2>1. UNCHANGED <<people, signed, quotaAdmitted, held>> /\ access' = [access EXCEPT ![c] = NoAccess]
    BY <1>4 DEF SaveAccount
  <2> QED
    BY <2>1, <1>3, AccessOnly
<1>5. CASE ~taken
  <2>1. /\ people' = [people EXCEPT ![p] = row]
        /\ held' = [held EXCEPT ![p] = @ \cup {"USER"}]
        /\ signed' = signed \cup {t}
        /\ access' = [access EXCEPT ![c] = NoAccess]
        /\ UNCHANGED quotaAdmitted
    BY <1>5 DEF SaveAccount
  <2>2. /\ row \in PersonRow /\ row.email = a.email /\ row.name = a.name /\ row.role = "USER"
        /\ t \in SignedToken /\ t.of = p /\ t.role \in {"none", "USER"}
    BY <1>1, <1>2 DEF NoPersonRow, PersonRow, Unnamed, Roles, Token, SignedToken
  <2> HIDE DEF row, t, taken
  <2>3. AccountTypeOK'
    BY <2>1, <2>2, <1>3 DEF AccountTypeOK, Roles
  <2>4. /\ people'[p] = row /\ \A q \in Persons : q # p => people'[q] = people[q]
        /\ held'[p] = held[p] \cup {"USER"} /\ \A q \in Persons : q # p => held'[q] = held[q]
    BY <2>1 DEF AccountTypeOK
  <2>5. Registered' = Registered \cup {p} /\ Registered \subseteq Persons
    BY <2>4, <2>2, <1>2 DEF Registered
  <2>6. \A q \in Persons : held[q] \subseteq held'[q]
    BY <2>4
  <2>7. RolesAreHeld'
    <3> SUFFICES ASSUME NEW q \in Registered'
                 PROVE  "USER" \in held'[q] /\ people'[q].role \in held'[q]
      BY DEF RolesAreHeld
    <3>1. CASE q = p
      BY <3>1, <2>4, <2>2
    <3>2. CASE q # p
      BY <3>2, <2>4, <2>5 DEF RolesAreHeld
    <3> QED
      BY <3>1, <3>2
  <2>8. CallsAreGood'
    <3> SUFFICES ASSUME NEW d \in AccessCalls
                 PROVE  GoodAccess(access[d])'
      BY DEF CallsAreGood
    <3>1. CASE d = c
      <4>1. access'[d] = NoAccess
        BY <3>1, <2>1 DEF AccountTypeOK
      <4> QED
        BY <4>1 DEF GoodAccess, NoAccess
    <3>2. CASE d # c
      <4>1. access'[d] = access[d] /\ GoodAccess(access[d])
        BY <3>2, <2>1 DEF AccountTypeOK, CallsAreGood
      <4> QED
        BY <4>1, <2>5, <2>6 DEF GoodAccess
    <3> QED
      BY <3>1, <3>2
  <2>9. TokensAreGranted'
    <3> SUFFICES ASSUME NEW u \in signed'
                 PROVE  u.of \in Registered' /\ NormalizeRole(u.role) \in held'[u.of]
      BY DEF TokensAreGranted, GoodToken
    <3>1. CASE u = t
      BY <3>1, <2>2, <2>4, <2>5 DEF NormalizeRole, Roles
    <3>2. CASE u \in signed
      BY <3>2, <2>5, <2>6 DEF TokensAreGranted, GoodToken
    <3> QED
      BY <3>1, <3>2, <2>1
  <2>10. RegisteredOnce'
    <3>1. \A q \in Registered : people'[q] = people[q] /\ q # p
                                /\ people[q].email # a.email /\ people[q].name # a.name
      BY <2>4, <2>5, <1>1, <1>5 DEF taken
    <3>2. ASSUME NEW q \in Registered', NEW r \in Registered',
                 people'[q].email = people'[r].email \/ people'[q].name = people'[r].name
          PROVE  q = r
      BY <3>1, <3>2, <2>5, <2>4, <2>2 DEF RegisteredOnce
    <3> QED
      BY <3>2, <2>9 DEF RegisteredOnce, TokensAreGranted, GoodToken
  <2>11. AdmittedWasGranted'
    BY <2>1, <2>6, AdmittedStays
  <2> QED
    BY <2>3, <2>7, <2>8, <2>9, <2>10, <2>11
<1> QED
  BY <1>4, <1>5

\* The role of the row that was read is one the account had, whatever has
\* become of it since.
LEMMA SigningIsSafe ==
    ASSUME AccountInv, NEW c \in AccessCalls, NEW verified \in BOOLEAN, SignToken(c, verified)
    PROVE  AccountInv'
<1> USE DEF AccountInv
<1> DEFINE a == access[c]
           named == a.name = "traditional" \/ verified
           t == Token(a.who, a.name, IF named THEN a.role ELSE "none", verified)
<1>1. a \in AccessRow /\ a.op = "login" /\ a.who \in Registered /\ a.role \in held[a.who]
      /\ a.name \in {"plain", "traditional"}
  BY DEF SignToken, AccountTypeOK, CallsAreGood, GoodAccess
<1>2. a.who \in Persons /\ a.role \in Roles /\ "USER" \in held[a.who]
  BY <1>1 DEF Registered, AccessRow, RolesAreHeld
<1>3. signed' = signed \cup {t} /\ access' = [access EXCEPT ![c] = NoAccess]
      /\ UNCHANGED <<people, quotaAdmitted, held>>
  BY DEF SignToken
<1>4. t \in SignedToken /\ t.of = a.who /\ t.role \in {a.role, "none"}
  BY <1>1, <1>2 DEF Token, SignedToken, Unnamed
<1> HIDE DEF t
<1>5. NoAccess \in AccessRow
  BY DEF NoAccess, AccessRow, Unnamed, Roles
<1>6. AccountTypeOK'
  BY <1>3, <1>4, <1>5 DEF AccountTypeOK
<1>7. Registered' = Registered
  BY <1>3 DEF Registered
<1>8. CallsAreGood'
  <2> SUFFICES ASSUME NEW d \in AccessCalls
               PROVE  GoodAccess(access[d])'
    BY DEF CallsAreGood
  <2>1. CASE d = c
    <3>1. access'[d] = NoAccess
      BY <2>1, <1>3 DEF AccountTypeOK
    <3> QED
      BY <3>1 DEF GoodAccess, NoAccess
  <2>2. CASE d # c
    <3>1. access'[d] = access[d] /\ GoodAccess(access[d])
      BY <2>2, <1>3 DEF AccountTypeOK, CallsAreGood
    <3> QED
      BY <3>1, <1>3, <1>7 DEF GoodAccess
  <2> QED
    BY <2>1, <2>2
<1>9. TokensAreGranted'
  <2> SUFFICES ASSUME NEW u \in signed'
               PROVE  u.of \in Registered /\ NormalizeRole(u.role) \in held[u.of]
    BY <1>3, <1>7 DEF TokensAreGranted, GoodToken
  <2>1. CASE u = t
    BY <2>1, <1>1, <1>2, <1>4 DEF NormalizeRole, Roles
  <2>2. CASE u \in signed
    BY <2>2 DEF TokensAreGranted, GoodToken
  <2> QED
    BY <2>1, <2>2, <1>3
<1>10. RolesAreHeld' /\ RegisteredOnce' /\ AdmittedWasGranted'
  BY <1>3, <1>7, <1>9 DEF RolesAreHeld, RegisteredOnce, AdmittedWasGranted, TokensAreGranted, GoodToken
<1> QED
  BY <1>6, <1>8, <1>9, <1>10

\* A role is stored with the account; requests go on or are gone.
LEMMA SettingRoleIsSafe ==
    ASSUME AccountInv, NEW p \in Registered, NEW role \in Roles, SetRole(p, role),
           UNCHANGED <<signed, quotaAdmitted>>,
           access' \in [AccessCalls -> AccessRow],
           \A d \in AccessCalls : access'[d] \in {access[d], NoAccess}
    PROVE  AccountInv'
<1> USE DEF AccountInv
<1>1. p \in Persons
  BY DEF Registered
<1>2. /\ people'[p] = [people[p] EXCEPT !.role = role]
      /\ \A q \in Persons : q # p => people'[q] = people[q]
      /\ held'[p] = held[p] \cup {role} /\ \A q \in Persons : q # p => held'[q] = held[q]
  BY <1>1 DEF SetRole, AccountTypeOK
<1>3. people'[p] \in PersonRow /\ people'[p].email = people[p].email /\ people'[p].name = people[p].name
      /\ people'[p].role = role
  BY <1>1, <1>2 DEF AccountTypeOK, PersonRow
<1>4. AccountTypeOK'
  BY <1>1, <1>2, <1>3 DEF SetRole, AccountTypeOK
<1>5. Registered' = Registered
  BY <1>2, <1>3 DEF Registered
<1>6. \A q \in Persons : held[q] \subseteq held'[q]
  BY <1>2
<1>7. RolesAreHeld'
  BY <1>2, <1>3, <1>5 DEF RolesAreHeld, Registered
<1>8. CallsAreGood'
  <2> SUFFICES ASSUME NEW d \in AccessCalls
               PROVE  GoodAccess(access[d])'
    BY DEF CallsAreGood
  <2>1. CASE access'[d] = NoAccess
    BY <2>1 DEF GoodAccess, NoAccess
  <2>2. CASE access'[d] = access[d]
    <3>1. GoodAccess(access[d])
      BY DEF CallsAreGood
    <3> QED
      BY <3>1, <2>2, <1>5, <1>6 DEF GoodAccess, Registered
  <2> QED
    BY <2>1, <2>2
<1>9. TokensAreGranted'
  BY <1>5, <1>6 DEF TokensAreGranted, GoodToken, Registered
<1>10. RegisteredOnce'
  <2>1. \A q \in Registered : people'[q].email = people[q].email /\ people'[q].name = people[q].name
    BY <1>2, <1>3 DEF Registered
  <2> QED
    BY <2>1, <1>5, <1>9 DEF RegisteredOnce, TokensAreGranted, GoodToken
<1>11. AdmittedWasGranted'
  BY <1>6, AdmittedStays
<1> QED
  BY <1>4, <1>7, <1>8, <1>9, <1>10, <1>11

LEMMA TogglingIsSafe ==
    ASSUME AccountInv, NEW p \in Persons, EnableUserFactor(p)
    PROVE  AccountInv'
<1> USE DEF AccountInv
<1>1. UNCHANGED <<access, signed, quotaAdmitted, held>>
      /\ people' = [people EXCEPT ![p].factor = ~@]
  BY DEF EnableUserFactor
<1>2. \A q \in Persons : /\ people'[q].email = people[q].email /\ people'[q].name = people[q].name
                         /\ people'[q].role = people[q].role
  BY <1>1 DEF AccountTypeOK, PersonRow
<1>3. people' \in [Persons -> PersonRow]
  BY <1>1 DEF AccountTypeOK, PersonRow
<1>4. AccountTypeOK'
  BY <1>1, <1>3 DEF AccountTypeOK
<1>5. Registered' = Registered
  BY <1>2 DEF Registered
<1>6. RolesAreHeld' /\ RegisteredOnce'
  BY <1>1, <1>2, <1>5 DEF RolesAreHeld, RegisteredOnce, Registered
<1>7. CallsAreGood' /\ TokensAreGranted' /\ AdmittedWasGranted'
  BY <1>1, <1>5 DEF CallsAreGood, GoodAccess, TokensAreGranted, GoodToken, AdmittedWasGranted
<1> QED
  BY <1>4, <1>6, <1>7

\* The hierarchy has three roles; the others are at no place of it.
LEMMA Hierarchy ==
    ASSUME NEW r \in Roles
    PROVE  /\ r = "USER" => IndexOfRole(r) = 1
           /\ r = "OPERATOR" => IndexOfRole(r) = 2
           /\ r = "ADMIN" => IndexOfRole(r) = 3
           /\ r \notin {"USER", "OPERATOR", "ADMIN"} => IndexOfRole(r) = -1
<1>1. RoleHierarchy[1] = "USER" /\ RoleHierarchy[2] = "OPERATOR" /\ RoleHierarchy[3] = "ADMIN"
  BY DEF RoleHierarchy
<1>2. 1..3 = {1, 2, 3}
  OBVIOUS
<1>3. CASE r \notin {"USER", "OPERATOR", "ADMIN"}
  <2>1. ~\E i \in 1..3 : RoleHierarchy[i] = r
    BY <1>1, <1>2, <1>3
  <2> QED
    BY <2>1, <1>3 DEF IndexOfRole
<1>4. CASE r \in {"USER", "OPERATOR", "ADMIN"}
  <2>1. PICK k \in 1..3 : RoleHierarchy[k] = r /\ \A i \in 1..3 : RoleHierarchy[i] = r => i = k
    BY <1>1, <1>2, <1>4
  <2>2. IndexOfRole(r) = k
    BY <2>1 DEF IndexOfRole
  <2> QED
    BY <2>1, <2>2, <1>1, <1>2, <1>4
<1> QED
  BY <1>3, <1>4

\* A role passes a route's guard only when the route is open to it.
LEMMA GuardIsExact ==
    ASSUME NEW r \in Roles, NEW route \in Routes, HasRole(r, route)
    PROVE  r \in Permitted(route)
<1>1. CASE r = route \/ r = "ADMIN"
  BY <1>1 DEF Permitted, Routes
<1>2. CASE IndexOfRole(r) # -1 /\ IndexOfRole(route) # -1 /\ IndexOfRole(r) >= IndexOfRole(route)
  <2>1. route \in Roles
    BY DEF Routes, Roles
  <2>2. r \in {"USER", "OPERATOR", "ADMIN"} /\ route \in {"OPERATOR", "ADMIN"}
    BY <1>2, <2>1, Hierarchy DEF Routes
  <2>3. IndexOfRole(r) \in {1, 2, 3} /\ (route = "OPERATOR" => IndexOfRole(r) >= 2)
        /\ (route = "ADMIN" => IndexOfRole(r) >= 3)
    BY <1>2, <2>1, <2>2, Hierarchy
  <2>4. (route = "OPERATOR" => r \in {"OPERATOR", "ADMIN"}) /\ (route = "ADMIN" => r = "ADMIN")
    BY <2>2, <2>3, Hierarchy
  <2> QED
    BY <2>2, <2>4 DEF Permitted
<1> QED
  BY <1>1, <1>2 DEF HasRole

LEMMA AdmittingIsSafe ==
    ASSUME AccountInv, NEW t \in signed, NEW route \in Routes, RolesCanActivate(t, route)
    PROVE  AccountInv'
<1> USE DEF AccountInv
<1> DEFINE a == [token |-> t, route |-> route, factor |-> people[t.of].factor]
<1>1. /\ UNCHANGED <<people, access, signed, held>>
      /\ quotaAdmitted' = quotaAdmitted \cup {a}
      /\ HasRole(NormalizeRole(t.role), route)
      /\ route = "ADMIN" => AdminTwoFactor(t)
  BY DEF RolesCanActivate, RolesGuard
<1>2. t \in SignedToken /\ t.of \in Registered /\ NormalizeRole(t.role) \in held[t.of]
  BY DEF TokensAreGranted, GoodToken, AccountTypeOK
<1>3. t.of \in Persons /\ NormalizeRole(t.role) \in Roles
  BY DEF SignedToken, NormalizeRole, Roles, AccountTypeOK
<1>4. people[t.of].factor \in BOOLEAN
  BY <1>3 DEF AccountTypeOK, PersonRow
<1>5. AccountTypeOK'
  BY <1>1, <1>2, <1>4 DEF AccountTypeOK
<1>6. NormalizeRole(t.role) \in Permitted(route)
  BY <1>1, <1>3, GuardIsExact
<1>7. route = "ADMIN" => people[t.of].factor /\ t.verified
  <2>1. ASSUME route = "ADMIN"
        PROVE  NormalizeRole(t.role) = "ADMIN"
    BY <2>1, <1>6 DEF Permitted
  <2> QED
    BY <2>1, <1>1 DEF AdminTwoFactor
<1>8. AdmittedWasGranted'
  BY <1>1, <1>2, <1>6, <1>7 DEF AdmittedWasGranted
<1>9. RolesAreHeld' /\ CallsAreGood' /\ TokensAreGranted' /\ RegisteredOnce'
  BY <1>1 DEF RolesAreHeld, CallsAreGood, GoodAccess, TokensAreGranted, GoodToken, RegisteredOnce,
              Registered
<1> QED
  BY <1>5, <1>8, <1>9

LEMMA AccountStep == AccountInv /\ AccountNext => AccountInv'
<1> SUFFICES ASSUME AccountInv, AccountNext
             PROVE  AccountInv'
  OBVIOUS
<1> USE DEF AccountInv
<1>1. NoAccess \in AccessRow /\ GoodAccess(NoAccess) /\ NoPersonRow.role = "USER"
  BY DEF NoAccess, AccessRow, Unnamed, Roles, GoodAccess, NoPersonRow
<1>2. ASSUME NEW c \in AccessCalls, NEW type \in {"plain", "traditional"}, NEW e \in Emails,
             NEW n \in Usernames, RegisterAccount(c, type, e, n)
      PROVE  AccountInv'
  <2> DEFINE a == [NoAccess EXCEPT !.op = type, !.email = e, !.name = n]
  <2>1. a \in AccessRow /\ GoodAccess(a)
    BY DEF NoAccess, AccessRow, Unnamed, Roles, GoodAccess
  <2>2. access' = [access EXCEPT ![c] = a] /\ UNCHANGED <<people, signed, quotaAdmitted, held>>
    BY <1>2 DEF RegisterAccount, AccessCallStarts
  <2> QED
    BY <2>1, <2>2, AccessOnly
<1>3. ASSUME NEW c \in AccessCalls, NEW type \in {"plain", "traditional"}, NEW p \in Persons,
             LoginAccount(c, type, p)
      PROVE  AccountInv'
  <2> DEFINE a == [NoAccess EXCEPT !.op = "login", !.who = p, !.name = type, !.role = people[p].role]
  <2>1. p \in Registered /\ people[p].role \in Roles /\ people[p].role \in held[p]
    BY <1>3 DEF LoginAccount, AccountTypeOK, PersonRow, RolesAreHeld
  <2>2. a \in AccessRow /\ GoodAccess(a)
    BY <2>1 DEF NoAccess, AccessRow, Unnamed, GoodAccess
  <2>3. access' = [access EXCEPT ![c] = a] /\ UNCHANGED <<people, signed, quotaAdmitted, held>>
    BY <1>3 DEF LoginAccount, AccessCallStarts
  <2> QED
    BY <2>2, <2>3, AccessOnly
<1>4. ASSUME NEW c \in AccessCalls, NEW p \in Persons, NEW r \in {"USER", "ADMIN", "KYC_OPERATOR"},
             AssignRole(c, p, r)
      PROVE  AccountInv'
  <2> DEFINE a == [NoAccess EXCEPT !.op = "assign", !.who = p, !.role = r]
  <2>1. a \in AccessRow /\ GoodAccess(a)
    BY <1>4 DEF NoAccess, AccessRow, Unnamed, Roles, GoodAccess, AssignRole
  <2>2. access' = [access EXCEPT ![c] = a] /\ UNCHANGED <<people, signed, quotaAdmitted, held>>
    BY <1>4 DEF AssignRole, AccessCallStarts
  <2> QED
    BY <2>1, <2>2, AccessOnly
<1>5. ASSUME NEW c \in AccessCalls, SaveRole(c)
      PROVE  AccountInv'
  <2>1. access[c] \in AccessRow /\ access[c].who \in Registered /\ access[c].role \in Roles
    BY <1>5 DEF SaveRole, CallsAreGood, GoodAccess, AccountTypeOK, AccessRow
  <2>2. SetRole(access[c].who, access[c].role) /\ access' = [access EXCEPT ![c] = NoAccess]
        /\ UNCHANGED <<signed, quotaAdmitted>>
    BY <1>5 DEF SaveRole
  <2>3. access' \in [AccessCalls -> AccessRow] /\ \A d \in AccessCalls : access'[d] \in {access[d], NoAccess}
    BY <2>2, <1>1 DEF AccountTypeOK
  <2> QED
    BY <2>1, <2>2, <2>3, SettingRoleIsSafe
<1>6. ASSUME SeedBootstrapAdmin
      PROVE  AccountInv'
  <2>1. PICK p \in Registered : SetRole(p, "ADMIN")
    BY <1>6 DEF SeedBootstrapAdmin
  <2>2. access' \in [AccessCalls -> AccessRow] /\ UNCHANGED <<signed, quotaAdmitted>>
        /\ \A d \in AccessCalls : access'[d] \in {access[d], NoAccess}
    BY <1>6, <1>1 DEF SeedBootstrapAdmin
  <2>3. "ADMIN" \in Roles
    BY DEF Roles
  <2> QED
    BY <2>1, <2>2, <2>3, SettingRoleIsSafe
<1>7. ASSUME NEW s \in {"wallet", "traditional"}, RegisterStrategy(s) \/ Unregister(s)
      PROVE  AccountInv'
  <2>1. UNCHANGED <<people, access, signed, quotaAdmitted, held>>
    BY <1>7 DEF RegisterStrategy, Unregister
  <2> QED
    BY <2>1 DEF AccountTypeOK, RolesAreHeld, CallsAreGood, GoodAccess, TokensAreGranted, GoodToken,
                RegisteredOnce, AdmittedWasGranted, Registered
<1>8. ASSUME NEW t \in signed, NEW r \in {"OPERATOR", "ADMIN", "KYC_OPERATOR"}, RolesCanActivate(t, r)
      PROVE  AccountInv'
  BY <1>8, AdmittingIsSafe DEF Routes
<1> QED
  BY <1>2, <1>3, <1>4, <1>5, <1>6, <1>7, <1>8, RegisteringIsSafe, SigningIsSafe, TogglingIsSafe
  DEF AccountNext

LEMMA AccountStands == AccountInv /\ UNCHANGED accountVars => AccountInv'
BY DEF accountVars, AccountInv, AccountTypeOK, RolesAreHeld, CallsAreGood, GoodAccess,
       TokensAreGranted, GoodToken, RegisteredOnce, AdmittedWasGranted, Registered

-----------------------------------------------------------------------------
(* The quota of one key.  Its last requests belong to the window there is,  *)
(* those before to windows that ended before it began, and of a window no   *)
(* more than the limit passed.                                              *)

InThisWindow == IF userQuota.count <= QuotaLimit THEN userQuota.count ELSE QuotaLimit

QuotaTypeOK ==
    /\ userQuota \in [count : Nat, resetAt : Nat]
    /\ quotaClock \in Nat
    /\ passed \in Seq(Nat)

Windows ==
    /\ userQuota = NoWindow => passed = <<>>
    /\ userQuota # NoWindow => userQuota.resetAt - UserQuotaWindow <= quotaClock
    /\ \A i \in 1..Len(passed) : passed[i] < userQuota.resetAt
    /\ \A i \in 1..(Len(passed) - InThisWindow) : passed[i] < userQuota.resetAt - UserQuotaWindow
    /\ \A i \in 1..(Len(passed) - InThisWindow - QuotaLimit) :
           passed[i] < userQuota.resetAt - 2 * UserQuotaWindow

QuotaInv == QuotaTypeOK /\ Windows /\ QuotaHolds

LEMMA QuotaInitially == AccessInit => QuotaInv
<1> SUFFICES ASSUME AccessInit
             PROVE  QuotaInv
  OBVIOUS
<1>1. userQuota = NoWindow /\ passed = <<>> /\ quotaClock = 0
  BY DEF AccessInit
<1>2. QuotaTypeOK
  BY <1>1 DEF QuotaTypeOK, NoWindow
<1>3. Len(passed) = 0 /\ InThisWindow = 0
  BY <1>1, AccessAssumption DEF InThisWindow, NoWindow
<1>4. Windows
  BY <1>1, <1>3, AccessAssumption DEF Windows
<1> QED
  BY <1>1, <1>2, <1>4 DEF QuotaInv, QuotaHolds

\* A request that passes is counted in the window of its time.
LEMMA PassingIsSafe ==
    ASSUME QuotaInv, ConsumeQuota
    PROVE  QuotaInv'
<1> USE DEF QuotaInv
<1> DEFINE L == QuotaLimit
           W == UserQuotaWindow
           n == Len(passed)
           k == InThisWindow
           v == WindowNow
           w == [v EXCEPT !.count = @ + 1]
<1>1. L \in Nat \ {0} /\ W \in Nat \ {0} /\ CleanupAge \in Nat
  BY AccessAssumption
<1>2. /\ userQuota.count \in Nat /\ userQuota.resetAt \in Nat /\ quotaClock \in Nat
      /\ n \in Nat /\ k \in Nat /\ k <= L /\ passed \in Seq(Nat)
  BY <1>1 DEF QuotaTypeOK, InThisWindow
<1>3. v \in [count : Nat, resetAt : Nat] /\ v.resetAt > quotaClock
  <2>1. CASE userQuota = NoWindow \/ userQuota.resetAt =< quotaClock
    BY <2>1, <1>1, <1>2 DEF WindowNow
  <2>2. CASE ~(userQuota = NoWindow \/ userQuota.resetAt =< quotaClock)
    BY <2>2, <1>2 DEF WindowNow, QuotaTypeOK
  <2> QED
    BY <2>1, <2>2
<1>4. w \in [count : Nat, resetAt : Nat] /\ w.count = v.count + 1 /\ w.resetAt = v.resetAt
  BY <1>3
<1>5. userQuota' = w /\ quotaClock' = quotaClock
      /\ passed' = IF w.count =< L THEN Append(passed, quotaClock) ELSE passed
  BY <1>2, <1>3, <1>4 DEF ConsumeQuota
<1>6. userQuota'.count = v.count + 1 /\ userQuota'.resetAt = v.resetAt
  BY <1>4, <1>5
<1> DEFINE j == IF v.count <= L THEN v.count ELSE L
\* what the window of this time, before the request, says of the past
<1>7. /\ v.resetAt - W <= quotaClock
      /\ \A i \in 1..n : passed[i] < v.resetAt
      /\ \A i \in 1..(n - j) : passed[i] < v.resetAt - W
      /\ \A i \in 1..(n - j - L) : passed[i] < v.resetAt - 2 * W
  <2>1. CASE userQuota = NoWindow
    BY <2>1, <1>1, <1>2 DEF WindowNow, Windows
  <2>2. CASE userQuota # NoWindow /\ userQuota.resetAt =< quotaClock
    <3>1. v.count = 0 /\ v.resetAt = quotaClock + W /\ j = 0
      BY <2>2, <1>1 DEF WindowNow
    <3>2. \A i \in 1..n : passed[i] \in Nat /\ passed[i] < quotaClock
      BY <2>2, <1>2 DEF Windows
    <3>3. \A i \in 1..(n - L) : passed[i] < quotaClock - W
      <4> SUFFICES ASSUME NEW i \in 1..(n - L)
                   PROVE  passed[i] < quotaClock - W
        OBVIOUS
      <4>1. i \in 1..(n - k) /\ i \in 1..n
        BY <1>1, <1>2
      <4>2. passed[i] < userQuota.resetAt - W /\ passed[i] \in Nat
        BY <4>1, <1>2 DEF Windows
      <4> QED
        BY <4>2, <2>2, <1>1, <1>2
    <3> HIDE DEF j, v, n, L, W
    <3> QED
      BY <3>1, <3>2, <3>3, <1>1, <1>2
  <2>3. CASE userQuota # NoWindow /\ ~(userQuota.resetAt =< quotaClock)
    <3>1. v = userQuota /\ j = k
      BY <2>3 DEF WindowNow, InThisWindow
    <3> QED
      BY <3>1, <2>3 DEF Windows
  <2> QED
    BY <2>1, <2>2, <2>3
<1>8. userQuota' # NoWindow /\ userQuota' \in [count : Nat, resetAt : Nat] /\ v.count \in Nat /\ v.resetAt \in Nat
  BY <1>3, <1>4, <1>5, <1>6 DEF NoWindow
<1> HIDE DEF v, w, n, L, W, k
<1>9. CASE v.count + 1 <= L
  <2>1. passed' = Append(passed, quotaClock) /\ j = v.count
    BY <1>9, <1>5, <1>4, <1>8, <1>1
  <2>2. /\ passed' \in Seq(Nat) /\ Len(passed') = n + 1
        /\ \A i \in 1..n : passed'[i] = passed[i]
        /\ passed'[n + 1] = quotaClock
    BY <2>1, <1>2 DEF n
  <2>3. InThisWindow' = j + 1
    BY <2>1, <1>6, <1>9 DEF InThisWindow, L
  <2> HIDE DEF j
  <2>4. j \in Nat
    BY <2>1, <1>8
  <2>5. \A i \in 1..n : passed[i] \in Nat
    BY <1>2 DEF n
  <2>6. \A i \in 1..Len(passed') : passed'[i] < v.resetAt
    <3>1. quotaClock < v.resetAt
      BY <1>3 DEF v
    <3>2. \A i \in 1..(n + 1) : i \in 1..n \/ i = n + 1
      BY <1>2
    <3> QED
      BY <2>2, <3>1, <3>2, <1>7
  <2>7. \A i \in 1..(Len(passed') - InThisWindow') : passed'[i] < v.resetAt - W
    BY <2>2, <2>3, <2>4, <1>7, <1>2
  <2>8. \A i \in 1..(Len(passed') - InThisWindow' - L) : passed'[i] < v.resetAt - 2 * W
    BY <2>2, <2>3, <2>4, <1>1, <1>7, <1>2
  <2>9. Windows'
    BY <2>6, <2>7, <2>8, <1>5, <1>6, <1>7, <1>8 DEF Windows, L, W
  <2>10. ASSUME NEW i \in 1..(n + 1), i + 2 * L \in 1..(n + 1)
         PROVE  passed'[i + 2 * L] - passed'[i] > W
    <3>1. CASE i + 2 * L \in 1..n
      <4>1. i \in 1..n /\ DOMAIN passed = 1..n
        BY <3>1, <2>10, <1>1, <1>2 DEF n
      <4>2. passed[i + 2 * L] - passed[i] > W
        BY <3>1, <4>1 DEF QuotaHolds, L, W
      <4> QED
        BY <4>1, <4>2, <3>1, <2>2
    <3>2. CASE i + 2 * L = n + 1
      <4>1. i \in 1..(n - j - L) /\ i \in 1..n
        BY <3>2, <2>10, <2>1, <2>4, <1>9, <1>1, <1>2, <1>8
      <4>2. passed[i] < v.resetAt - 2 * W /\ passed'[i] = passed[i] /\ passed'[n + 1] = quotaClock
            /\ passed[i] \in Nat
        BY <4>1, <1>7, <2>2, <2>5
      <4>3. passed'[i + 2 * L] = quotaClock
        BY <4>2, <3>2
      <4>4. ASSUME NEW x \in Nat, x < v.resetAt - 2 * W
            PROVE  quotaClock - x > W
        BY <4>4, <1>1, <1>2, <1>7, <1>8
      <4> QED
        BY <4>2, <4>3, <4>4
    <3> QED
      BY <3>1, <3>2, <2>10, <1>1, <1>2
  <2>11. QuotaHolds'
    <3>1. DOMAIN passed' = 1..(n + 1)
      BY <2>2
    <3> QED
      BY <2>10, <3>1 DEF QuotaHolds, L, W
  <2> QED
    BY <2>2, <2>9, <2>11, <1>2, <1>5, <1>8 DEF QuotaTypeOK
<1>10. CASE ~(v.count + 1 <= L)
  <2>1. passed' = passed /\ j = L
    BY <1>10, <1>5, <1>4, <1>8, <1>1
  <2>2. InThisWindow' = L
    BY <1>6, <1>10 DEF InThisWindow, L
  <2> HIDE DEF j
  <2>3. Windows'
    BY <2>1, <2>2, <1>5, <1>6, <1>7, <1>8 DEF Windows, L, W, n
  <2> QED
    BY <2>1, <2>3, <1>2, <1>5, <1>8 DEF QuotaTypeOK, QuotaHolds
<1> QED
  BY <1>9, <1>10

LEMMA QuotaStep == QuotaInv /\ QuotaNext => QuotaInv'
<1> SUFFICES ASSUME QuotaInv, QuotaNext
             PROVE  QuotaInv'
  OBVIOUS
<1>1. ASSUME QuotaTick
      PROVE  QuotaInv'
  <2>1. UNCHANGED <<userQuota, passed>> /\ quotaClock' = quotaClock + 1 /\ quotaClock \in Nat
    BY <1>1 DEF QuotaTick, QuotaInv, QuotaTypeOK
  <2>2. QuotaTypeOK'
    BY <2>1 DEF QuotaInv, QuotaTypeOK
  <2>3. userQuota.resetAt \in Nat /\ UserQuotaWindow \in Nat
    BY AccessAssumption DEF QuotaInv, QuotaTypeOK
  <2>4. Windows'
    BY <2>1, <2>3 DEF QuotaInv, Windows, InThisWindow
  <2> QED
    BY <2>1, <2>2, <2>4 DEF QuotaInv, QuotaHolds
<1> QED
  BY <1>1, PassingIsSafe DEF QuotaNext

LEMMA QuotaStands == QuotaInv /\ UNCHANGED quotaVars => QuotaInv'
BY DEF quotaVars, QuotaInv, QuotaTypeOK, Windows, InThisWindow, QuotaHolds

-----------------------------------------------------------------------------
(* Tokens.  A refresh token is revoked in favour of one that was stored     *)
(* before; a token that was logged out is on the blacklist until the clock  *)
(* has passed its expiry.                                                   *)

FactorRow == [state : {"none", "pending", "enabled", "disabled"}, failed : Nat, locked : BOOLEAN, codes : Nat]
RefreshRow == [state : {"none", "live", "expired", "revoked"}, by : Refreshes \cup {Null}]
AuthPc == {"idle", "register", "factor", "mint", "revoke", "setupDelete", "setupSave", "enable",
           "saveRow", "saveCode"}
AuthRow == [pc : AuthPc, old : Refreshes \cup {Null}, new : Refreshes \cup {Null}, verified : BOOLEAN,
            f : Factors \cup {Null}, row : FactorRow]

AuthTypeOK ==
    /\ refresh \in [Refreshes -> RefreshRow]
    /\ factor \in [Factors -> FactorRow]
    /\ jwt \in [Jwts -> [exp : Nat, verified : BOOLEAN]]
    /\ blacklist \in [Jwts -> Nat]
    /\ authCall \in [AuthCalls -> AuthRow]
    /\ authNow \in Nat

GoodAuth(call) == call.pc = "revoke" => call.new \in Refreshes /\ refresh[call.new].state # "none"
RotationsAreGood == \A r \in AuthCalls : GoodAuth(authCall[r])

StaysRefused(j) ==
    /\ jwt[j].exp > 0
    /\ \/ blacklist[j] = jwt[j].exp * Ms
       \/ blacklist[j] = 0 /\ authNow > jwt[j].exp * Ms
LogoutsAreKept == loggedOut \subseteq Jwts /\ \A j \in loggedOut : StaysRefused(j)

TokenInv == AuthTypeOK /\ RotationsAreGood /\ LogoutsAreKept /\ TokensAreSound

LEMMA TokenInitially == AuthInit => TokenInv
<1> SUFFICES ASSUME AuthInit
             PROVE  TokenInv
  OBVIOUS
<1> USE DEF AuthInit
<1>1. NoFactor \in FactorRow /\ NoRefresh \in RefreshRow
  BY DEF NoFactor, FactorRow, NoRefresh, RefreshRow
<1>2. NoAuth \in AuthRow
  BY <1>1 DEF NoAuth, AuthRow, AuthPc
<1>3. AuthTypeOK
  BY <1>1, <1>2 DEF AuthTypeOK, NoToken
<1>4. RotationsAreGood /\ LogoutsAreKept /\ TokensAreSound
  BY DEF RotationsAreGood, GoodAuth, NoAuth, LogoutsAreKept, TokensAreSound, RotatedHasSuccessor,
         NoRefresh, LoggedOutIsRefused
<1> QED
  BY <1>3, <1>4 DEF TokenInv

\* A step that at most changes two-factor rows, and goes on with one request.
LEMMA AuthOnly ==
    ASSUME TokenInv, NEW r \in AuthCalls, NEW call \in AuthRow, authCall' = [authCall EXCEPT ![r] = call],
           GoodAuth(call), factor' \in [Factors -> FactorRow],
           UNCHANGED <<refresh, jwt, blacklist, loggedOut, served, authNow>>
    PROVE  TokenInv'
<1> USE DEF TokenInv
<1>1. AuthTypeOK'
  BY DEF AuthTypeOK
<1>2. RotationsAreGood'
  <2> SUFFICES ASSUME NEW q \in AuthCalls
               PROVE  GoodAuth(authCall[q])'
    BY DEF RotationsAreGood
  <2>1. authCall'[q] = IF q = r THEN call ELSE authCall[q]
    BY DEF AuthTypeOK
  <2>2. GoodAuth(authCall[q])
    BY DEF RotationsAreGood
  <2> QED
    BY <2>1, <2>2 DEF GoodAuth
<1>3. LogoutsAreKept' /\ TokensAreSound'
  BY DEF LogoutsAreKept, StaysRefused, TokensAreSound, RotatedHasSuccessor, LoggedOutIsRefused
<1> QED
  BY <1>1, <1>2, <1>3

\* Rows of refresh tokens change, and none is taken away.
LEMMA RefreshOnly ==
    ASSUME TokenInv, refresh' \in [Refreshes -> RefreshRow],
           \A t \in Refreshes : refresh[t].state # "none" => refresh'[t].state # "none",
           RotatedHasSuccessor', authCall' \in [AuthCalls -> AuthRow],
           \A q \in AuthCalls : authCall'[q] = authCall[q] \/ GoodAuth(authCall[q])',
           UNCHANGED <<factor, jwt, blacklist, loggedOut, served, authNow>>
    PROVE  TokenInv'
<1> USE DEF TokenInv
<1>1. AuthTypeOK'
  BY DEF AuthTypeOK
<1>2. RotationsAreGood'
  BY DEF RotationsAreGood, GoodAuth
<1>3. LogoutsAreKept' /\ LoggedOutIsRefused'
  BY DEF LogoutsAreKept, StaysRefused, TokensAreSound, LoggedOutIsRefused
<1> QED
  BY <1>1, <1>2, <1>3 DEF TokensAreSound

LEMMA Below ==
    ASSUME NEW a \in Nat, NEW m \in Nat \ {0}, NEW e \in Nat, a \div m < e
    PROVE  a < e * m
<1>1. a \div m \in Int /\ a = (a \div m) * m + (a % m) /\ a % m < m /\ a % m \in Int
  OBVIOUS
<1>2. a \div m + 1 <= e
  BY <1>1
<1>3. (a \div m + 1) * m <= e * m
  BY <1>1, <1>2
<1>4. (a \div m + 1) * m = (a \div m) * m + m
  BY <1>1
<1> QED
  BY <1>1, <1>3, <1>4

LEMMA NoAuthIsRow == NoAuth \in AuthRow /\ NoAuth.pc = "idle"
BY DEF NoAuth, NoFactor, AuthRow, AuthPc, FactorRow

LEMMA AuthGoes ==
    ASSUME TokenInv, NEW r \in AuthCalls, NEW call \in AuthRow, AuthGo(r, call), call.pc # "revoke",
           factor' \in [Factors -> FactorRow],
           UNCHANGED <<refresh, jwt, blacklist, loggedOut, served, authNow>>
    PROVE  TokenInv'
BY AuthOnly DEF AuthGo, GoodAuth

\* Requests that go on, or end, between two writes of tokens.
LEMMA AuthCallsAreSafe ==
    ASSUME TokenInv, NEW r \in AuthCalls,
           \/ Register(r) \/ RegisterSave(r) \/ PasswordLogin(r) \/ ReadFactor(r) \/ GenerateFails(r)
           \/ SetupTwoFactor(r) \/ \E t \in Refreshes : RefreshToken(r, t)
           \/ \E f \in Factors : VerifyTwoFactorSetup(r, f)
    PROVE  TokenInv'
<1> USE DEF TokenInv
<1>1. factor \in [Factors -> FactorRow] /\ authCall[r] \in AuthRow /\ authCall[r].row \in FactorRow
  BY DEF AuthTypeOK, AuthRow
<1>2. UNCHANGED <<factor, refresh, jwt, blacklist, loggedOut, served, authNow>>
  BY DEF Register, RegisterSave, PasswordLogin, ReadFactor, GenerateFails, SetupTwoFactor, RefreshToken,
         VerifyTwoFactorSetup
<1>3. {"idle", "register", "mint", "factor", "setupDelete", "enable"} \subseteq AuthPc
  BY DEF AuthPc
<1>4. ASSUME NEW call \in AuthRow, AuthGo(r, call), call.pc # "revoke"
      PROVE  TokenInv'
  BY <1>1, <1>2, <1>4, AuthGoes
<1> HIDE DEF TokenInv
<1>5. CASE Register(r)
  <2> DEFINE c == [NoAuth EXCEPT !.pc = "register"]
  <2>8. c \in AuthRow /\ c.pc # "revoke"
    BY <1>3, NoAuthIsRow DEF AuthRow
  <2>9. AuthGo(r, c)
    BY <1>5 DEF Register
  <2> HIDE DEF c
  <2> QED
    BY <2>8, <2>9, <1>4
<1>6. CASE RegisterSave(r)
  <2>1. CASE registered
    BY <1>4, <1>6, <2>1, NoAuthIsRow DEF RegisterSave, AuthReturn
  <2>2. CASE ~registered
    <3> DEFINE c == [NoAuth EXCEPT !.pc = "mint", !.verified = TRUE]
    <3>8. c \in AuthRow /\ c.pc # "revoke"
      BY <1>3, NoAuthIsRow DEF AuthRow
    <3>9. AuthGo(r, c)
      BY <1>6, <2>2 DEF RegisterSave
    <3> HIDE DEF c
    <3> QED
      BY <3>8, <3>9, <1>4
  <2> QED
    BY <2>1, <2>2
<1>7. CASE PasswordLogin(r)
  <2> DEFINE c == [NoAuth EXCEPT !.pc = "factor"]
  <2>8. c \in AuthRow /\ c.pc # "revoke"
    BY <1>3, NoAuthIsRow DEF AuthRow
  <2>9. AuthGo(r, c)
    BY <1>7 DEF PasswordLogin
  <2> HIDE DEF c
  <2> QED
    BY <2>8, <2>9, <1>4
<1>8. CASE ReadFactor(r)
  <2>1. (~TwoFactorEnabled) \in BOOLEAN
    BY DEF TwoFactorEnabled
  <2> DEFINE c == [authCall[r] EXCEPT !.pc = "mint", !.verified = ~TwoFactorEnabled]
  <2>8. c \in AuthRow /\ c.pc # "revoke"
    BY <1>1, <1>3, <2>1 DEF AuthRow
  <2>9. AuthGo(r, c)
    BY <1>8 DEF ReadFactor
  <2> HIDE DEF c
  <2> QED
    BY <2>8, <2>9, <1>4
<1>9. CASE GenerateFails(r)
  BY <1>4, <1>9, NoAuthIsRow DEF GenerateFails, AuthReturn
<1>10. CASE SetupTwoFactor(r)
  <2> DEFINE c == [NoAuth EXCEPT !.pc = "setupDelete"]
  <2>8. c \in AuthRow /\ c.pc # "revoke"
    BY <1>3, NoAuthIsRow DEF AuthRow
  <2>9. AuthGo(r, c)
    BY <1>10 DEF SetupTwoFactor
  <2> HIDE DEF c
  <2> QED
    BY <2>8, <2>9, <1>4
<1>11. ASSUME NEW t \in Refreshes, RefreshToken(r, t)
       PROVE  TokenInv'
  <2> DEFINE c == [NoAuth EXCEPT !.pc = "factor", !.old = t]
  <2>8. c \in AuthRow /\ c.pc # "revoke"
    BY <1>3, NoAuthIsRow DEF AuthRow
  <2>9. AuthGo(r, c)
    BY <1>11 DEF RefreshToken
  <2> HIDE DEF c
  <2> QED
    BY <2>8, <2>9, <1>4
<1>12. ASSUME NEW f \in Factors, VerifyTwoFactorSetup(r, f)
       PROVE  TokenInv'
  <2> DEFINE c == [NoAuth EXCEPT !.pc = "enable", !.f = f]
  <2>8. c \in AuthRow /\ c.pc # "revoke"
    BY <1>3, NoAuthIsRow DEF AuthRow
  <2>9. AuthGo(r, c)
    BY <1>12 DEF VerifyTwoFactorSetup
  <2> HIDE DEF c
  <2> QED
    BY <2>8, <2>9, <1>4
<1> QED
  BY <1>5, <1>6, <1>7, <1>8, <1>9, <1>10, <1>11, <1>12

\* What a code makes of the record that was read is a record again.
LEMMA CodeResultIsRow ==
    ASSUME NEW row \in FactorRow, NEW how \in {"wrong", "code", "backup"},
           how = "backup" => row.codes > 0
    PROVE  CodeResult(row, how) \in FactorRow
<1>1. CASE how = "wrong"
  <2>1. CASE row.failed + 1 >= MaxFactorAttempts
    BY <1>1, <2>1 DEF CodeResult, FactorRow
  <2>2. CASE ~(row.failed + 1 >= MaxFactorAttempts)
    <3>1. CodeResult(row, how) = [row EXCEPT !.failed = row.failed + 1]
      BY <1>1, <2>2 DEF CodeResult, FactorRow
    <3> QED
      BY <3>1 DEF FactorRow
  <2> QED
    BY <2>1, <2>2
<1>2. CASE how = "code"
  BY <1>2 DEF CodeResult, FactorRow
<1>3. CASE how = "backup"
  <2>1. PICK k \in Nat : k = row.codes - 1
    BY <1>3 DEF FactorRow
  <2>2. CodeResult(row, how) = [row EXCEPT !.failed = 0, !.locked = FALSE, !.codes = k]
    BY <1>3, <2>1 DEF CodeResult, FactorRow
  <2>3. [row EXCEPT !.failed = 0, !.locked = FALSE, !.codes = k] \in FactorRow
    BY <2>1 DEF FactorRow
  <2> QED
    BY <2>2, <2>3
<1> QED
  BY <1>1, <1>2, <1>3

\* Requests about two-factor rows.
LEMMA FactorsAreSafe ==
    ASSUME TokenInv, NEW r \in AuthCalls,
           \/ SetupDelete(r) \/ EnableFactor(r) \/ SaveFactor(r)
           \/ \E f \in Factors : SetupSave(r, f) \/ RegenerateBackupCodes(r, f)
           \/ \E f \in Factors, how \in {"wrong", "code", "backup"} : VerifyTwoFactorCode(r, f, how)
    PROVE  TokenInv'
<1> USE DEF TokenInv
<1>1. factor \in [Factors -> FactorRow] /\ authCall[r] \in AuthRow /\ authCall[r].row \in FactorRow
  BY DEF AuthTypeOK, AuthRow
<1>2. UNCHANGED <<refresh, jwt, blacklist, loggedOut, served, authNow>>
  BY DEF SetupDelete, EnableFactor, SaveFactor, SetupSave, RegenerateBackupCodes, VerifyTwoFactorCode
<1>3. {"idle", "mint", "setupSave", "saveRow", "saveCode"} \subseteq AuthPc
  BY DEF AuthPc
<1>4. NoFactor \in FactorRow /\ FactorCodes \in Nat
  BY AuthAssumption DEF NoFactor, FactorRow
<1>5. ASSUME NEW call \in AuthRow, AuthGo(r, call), call.pc # "revoke", factor' \in [Factors -> FactorRow]
      PROVE  TokenInv'
  BY <1>1, <1>2, <1>5, AuthGoes
<1> HIDE DEF TokenInv
<1>6. CASE SetupDelete(r)
  <2>1. factor' \in [Factors -> FactorRow]
    BY <1>6, <1>1, <1>4 DEF SetupDelete
  <2> DEFINE c == [NoAuth EXCEPT !.pc = "setupSave"]
  <2>8. c \in AuthRow /\ c.pc # "revoke"
    BY <1>3, NoAuthIsRow DEF AuthRow
  <2>9. AuthGo(r, c)
    BY <1>6 DEF SetupDelete
  <2> HIDE DEF c
  <2> QED
    BY <2>8, <2>9, <2>1, <1>5
<1>7. CASE EnableFactor(r)
  <2> DEFINE f == authCall[r].f
             row == [factor[f] EXCEPT !.state = "enabled", !.failed = 0, !.locked = FALSE]
  <2>1. f \in Factors => row \in FactorRow
    BY <1>1 DEF FactorRow
  <2>2. factor' = factor \/ factor' = [factor EXCEPT ![f] = row]
    BY <1>7 DEF EnableFactor
  <2> HIDE DEF row, f
  <2>3. factor' \in [Factors -> FactorRow]
    BY <2>1, <2>2, <1>1
  <2> QED
    BY <2>3, <1>5, <1>7, NoAuthIsRow DEF EnableFactor, AuthReturn
<1>8. CASE SaveFactor(r)
  <2>1. factor' \in [Factors -> FactorRow]
    BY <1>8, <1>1 DEF SaveFactor
  <2>2. CASE authCall[r].pc = "saveCode"
    <3> DEFINE c == [NoAuth EXCEPT !.pc = "mint", !.verified = TRUE]
    <3>8. c \in AuthRow /\ c.pc # "revoke"
      BY <1>3, NoAuthIsRow DEF AuthRow
    <3>9. AuthGo(r, c)
      BY <1>8, <2>2 DEF SaveFactor
    <3> HIDE DEF c
    <3> QED
      BY <3>8, <3>9, <2>1, <1>5
  <2>3. CASE authCall[r].pc # "saveCode"
    BY <2>1, <2>3, <1>5, <1>8, NoAuthIsRow DEF SaveFactor, AuthReturn
  <2> QED
    BY <2>2, <2>3
<1>9. ASSUME NEW f \in Factors, SetupSave(r, f)
      PROVE  TokenInv'
  <2>1. [NoFactor EXCEPT !.state = "pending", !.codes = FactorCodes] \in FactorRow
    BY <1>4 DEF FactorRow
  <2>2. factor' \in [Factors -> FactorRow]
    BY <1>9, <1>1, <2>1 DEF SetupSave
  <2> QED
    BY <2>2, <1>5, <1>9, NoAuthIsRow DEF SetupSave, AuthReturn
<1>10. ASSUME NEW f \in Factors, RegenerateBackupCodes(r, f)
       PROVE  TokenInv'
  <2> DEFINE row == [factor[f] EXCEPT !.codes = FactorCodes]
  <2>1. row \in FactorRow
    BY <1>1, <1>4 DEF FactorRow
  <2> DEFINE c == [NoAuth EXCEPT !.pc = "saveRow", !.f = f, !.row = row]
  <2>2. UNCHANGED factor /\ AuthGo(r, c)
    BY <1>10 DEF RegenerateBackupCodes
  <2> HIDE DEF row
  <2>3. c \in AuthRow /\ c.pc # "revoke"
    BY <2>1, <1>3, NoAuthIsRow DEF AuthRow
  <2> HIDE DEF c
  <2> QED
    BY <2>2, <2>3, <1>1, <1>5
<1>11. ASSUME NEW f \in Factors, NEW how \in {"wrong", "code", "backup"}, VerifyTwoFactorCode(r, f, how)
       PROVE  TokenInv'
  <2> DEFINE row == CodeResult(factor[f], how)
             pc == IF how = "wrong" THEN "saveRow" ELSE "saveCode"
  <2>1. row \in FactorRow
    BY <1>1, <1>11, CodeResultIsRow DEF VerifyTwoFactorCode
  <2> DEFINE c == [NoAuth EXCEPT !.pc = pc, !.f = f, !.row = row]
  <2>2. UNCHANGED factor /\ AuthGo(r, c)
    BY <1>11 DEF VerifyTwoFactorCode
  <2>3. pc \in AuthPc /\ pc # "revoke"
    BY DEF AuthPc
  <2> HIDE DEF row, pc
  <2>4. c \in AuthRow /\ c.pc # "revoke"
    BY <2>1, <2>3, NoAuthIsRow DEF AuthRow
  <2> HIDE DEF c
  <2> QED
    BY <2>2, <2>4, <1>1, <1>5
<1> QED
  BY <1>6, <1>7, <1>8, <1>9, <1>10, <1>11

\* A pair of tokens is issued: the access token is new, so it was never
\* logged out.
LEMMA IssuingIsSafe ==
    ASSUME TokenInv, NEW r \in AuthCalls, NEW j \in Jwts, NEW t \in Refreshes, GenerateTokens(r, j, t)
    PROVE  TokenInv'
<1> USE DEF TokenInv
<1> DEFINE call == authCall[r]
           next == IF call.old = Null THEN NoAuth ELSE [call EXCEPT !.pc = "revoke", !.new = t]
<1>1. call \in AuthRow /\ refresh[t] = NoRefresh /\ jwt[j] = NoToken
  BY DEF AuthTypeOK, GenerateTokens
<1>2. /\ refresh' = [refresh EXCEPT ![t].state = "live"]
      /\ jwt' = [jwt EXCEPT ![j] = Signed(call.verified)]
      /\ authCall' = [authCall EXCEPT ![r] = next]
      /\ UNCHANGED <<factor, blacklist, loggedOut, served, authNow>>
  BY DEF GenerateTokens, AuthReturn, AuthGo
<1>3. NoAuth \in AuthRow
  BY DEF NoAuth, NoFactor, AuthRow, AuthPc, FactorRow
<1>4. next \in AuthRow /\ (next.pc = "revoke" => next.new = t)
  BY <1>1, <1>3 DEF AuthRow, AuthPc, NoAuth
<1>5. Signed(call.verified) \in [exp : Nat, verified : BOOLEAN]
  <2>1. authNow \in Nat /\ Ms \in Nat \ {0}
    BY AuthAssumption DEF AuthTypeOK
  <2>2. authNow \div Ms \in Nat
    BY <2>1
  <2> QED
    BY <2>2, <1>1, AuthAssumption DEF Signed, AuthRow
<1> HIDE DEF next, call
<1>6. /\ \A u \in Refreshes : u # t => refresh'[u] = refresh[u]
      /\ refresh'[t].state = "live" /\ refresh'[t].by = Null
      /\ refresh' \in [Refreshes -> RefreshRow]
  BY <1>1, <1>2 DEF AuthTypeOK, RefreshRow, NoRefresh
<1>7. AuthTypeOK'
  BY <1>2, <1>4, <1>5, <1>6 DEF AuthTypeOK
<1>8. RotationsAreGood'
  <2> SUFFICES ASSUME NEW q \in AuthCalls
               PROVE  GoodAuth(authCall[q])'
    BY DEF RotationsAreGood
  <2>1. authCall'[q] = IF q = r THEN next ELSE authCall[q]
    BY <1>2 DEF AuthTypeOK
  <2>2. GoodAuth(authCall[q])
    BY DEF RotationsAreGood
  <2> QED
    BY <2>1, <2>2, <1>4, <1>6 DEF GoodAuth
<1>9. LogoutsAreKept'
  <2>1. j \notin loggedOut
    BY <1>1 DEF LogoutsAreKept, StaysRefused, NoToken
  <2>2. \A k \in loggedOut : jwt'[k] = jwt[k]
    BY <2>1, <1>2 DEF LogoutsAreKept, AuthTypeOK
  <2> QED
    BY <2>2, <1>2 DEF LogoutsAreKept, StaysRefused
<1>10. TokensAreSound'
  <2>1. \A u \in Refreshes : refresh[u].by # Null => refresh[u].by \in Refreshes
    BY DEF AuthTypeOK, RefreshRow
  <2>2. RotatedHasSuccessor'
    BY <2>1, <1>6 DEF TokensAreSound, RotatedHasSuccessor
  <2> QED
    BY <2>2, <1>2 DEF TokensAreSound, LoggedOutIsRefused
<1> QED
  BY <1>7, <1>8, <1>9, <1>10

\* The old token is revoked in favour of the one that was stored.
LEMMA RevokingIsSafe ==
    ASSUME TokenInv, NEW r \in AuthCalls, RevokeOld(r)
    PROVE  TokenInv'
<1> USE DEF TokenInv
<1> DEFINE call == authCall[r]
           row == [state |-> "revoked", by |-> call.new]
<1>1. call \in AuthRow /\ call.pc = "revoke"
  BY DEF AuthTypeOK, RevokeOld
<1>2. call.new \in Refreshes /\ refresh[call.new].state # "none"
  BY <1>1 DEF RotationsAreGood, GoodAuth
<1>3. /\ refresh' = [refresh EXCEPT ![call.old] = row]
      /\ authCall' = [authCall EXCEPT ![r] = NoAuth]
      /\ UNCHANGED <<factor, jwt, blacklist, loggedOut, served, authNow>>
  BY DEF RevokeOld, AuthReturn, AuthGo
<1>4. row \in RefreshRow /\ row.state = "revoked" /\ row.by = call.new
  BY <1>2 DEF RefreshRow
<1> HIDE DEF row
<1>5. /\ refresh' \in [Refreshes -> RefreshRow]
      /\ \A t \in Refreshes : refresh'[t] = refresh[t] \/ refresh'[t] = row
  BY <1>3, <1>4 DEF AuthTypeOK
<1>6. \A t \in Refreshes : refresh[t].state # "none" => refresh'[t].state # "none"
  BY <1>4, <1>5
<1>7. RotatedHasSuccessor'
  <2> SUFFICES ASSUME NEW t \in Refreshes, refresh'[t].by # Null
               PROVE  refresh'[refresh'[t].by].state # "none"
    BY DEF RotatedHasSuccessor
  <2>1. CASE refresh'[t] = row
    BY <2>1, <1>2, <1>4, <1>6
  <2>2. CASE refresh'[t] = refresh[t]
    <3>1. refresh[t].by \in Refreshes /\ refresh[refresh[t].by].state # "none"
      BY <2>2 DEF AuthTypeOK, RefreshRow, TokensAreSound, RotatedHasSuccessor
    <3> QED
      BY <3>1, <2>2, <1>6
  <2> QED
    BY <2>1, <2>2, <1>5
<1>8. /\ authCall' \in [AuthCalls -> AuthRow]
      /\ \A q \in AuthCalls : authCall'[q] = authCall[q] \/ GoodAuth(authCall[q])'
  BY <1>3, NoAuthIsRow DEF AuthTypeOK, GoodAuth
<1> QED
  BY <1>3, <1>5, <1>6, <1>7, <1>8, RefreshOnly

\* All tokens are revoked, or one expires: none is taken away.
LEMMA EndingIsSafe ==
    ASSUME TokenInv, RevokeAllRefreshTokens \/ \E t \in Refreshes : RefreshExpires(t)
    PROVE  TokenInv'
<1> USE DEF TokenInv
<1>1. UNCHANGED <<factor, jwt, blacklist, loggedOut, served, authNow, authCall>>
  BY DEF RevokeAllRefreshTokens, RefreshExpires
<1>2. /\ refresh' \in [Refreshes -> RefreshRow]
      /\ \A t \in Refreshes : /\ refresh[t].state # "none" => refresh'[t].state # "none"
                              /\ refresh'[t].by = refresh[t].by
  <2>1. CASE RevokeAllRefreshTokens
    BY <2>1 DEF RevokeAllRefreshTokens, AuthTypeOK, RefreshRow
  <2>2. ASSUME NEW u \in Refreshes, RefreshExpires(u)
        PROVE  <1>2!1 /\ <1>2!2
    BY <2>2 DEF RefreshExpires, AuthTypeOK, RefreshRow
  <2> QED
    BY <2>1, <2>2
<1>3. RotatedHasSuccessor'
  BY <1>2 DEF TokensAreSound, RotatedHasSuccessor, AuthTypeOK, RefreshRow
<1>4. authCall' \in [AuthCalls -> AuthRow] /\ \A q \in AuthCalls : authCall'[q] = authCall[q]
  BY <1>1 DEF AuthTypeOK
<1> QED
  BY <1>1, <1>2, <1>3, <1>4, RefreshOnly

\* Steps of the blacklist and of the clock leave requests and rows alone.
LEMMA BlacklistOnly ==
    ASSUME TokenInv, blacklist' \in [Jwts -> Nat], authNow' \in Nat, LogoutsAreKept', served' = {},
           UNCHANGED <<refresh, factor, jwt, authCall>>
    PROVE  TokenInv'
<1> USE DEF TokenInv
<1>1. AuthTypeOK'
  BY DEF AuthTypeOK
<1>2. RotationsAreGood' /\ TokensAreSound'
  BY DEF RotationsAreGood, GoodAuth, TokensAreSound, RotatedHasSuccessor, LoggedOutIsRefused
<1> QED
  BY <1>1, <1>2

LEMMA TokenTypes ==
    ASSUME TokenInv
    PROVE  /\ authNow \in Nat /\ Ms \in Nat \ {0} /\ served = {}
           /\ \A j \in Jwts : jwt[j].exp \in Nat /\ jwt[j].exp * Ms \in Nat /\ blacklist[j] \in Nat
<1>1. authNow \in Nat /\ Ms \in Nat \ {0} /\ served = {}
  BY AuthAssumption DEF TokenInv, AuthTypeOK, TokensAreSound, LoggedOutIsRefused
<1>2. ASSUME NEW j \in Jwts
      PROVE  jwt[j].exp \in Nat /\ jwt[j].exp * Ms \in Nat /\ blacklist[j] \in Nat
  <2>1. jwt[j].exp \in Nat /\ blacklist[j] \in Nat
    BY DEF TokenInv, AuthTypeOK
  <2> QED
    BY <2>1, <1>1
<1> QED
  BY <1>1, <1>2

\* The expiry, in milliseconds, is kept until it has passed.
LEMMA LogoutIsSafe ==
    ASSUME TokenInv, NEW j \in Jwts, Logout(j)
    PROVE  TokenInv'
<1>1. /\ blacklist' = [blacklist EXCEPT ![j] = jwt[j].exp * Ms]
      /\ loggedOut' = loggedOut \cup {j}
      /\ UNCHANGED <<refresh, factor, jwt, served, authCall, authNow>>
      /\ authNow \div Ms < jwt[j].exp
  BY DEF Logout, Unexpired
<1>2. /\ authNow \in Nat /\ Ms \in Nat \ {0} /\ served = {}
      /\ jwt[j].exp \in Nat /\ jwt[j].exp * Ms \in Nat
  BY TokenTypes
<1>3. authNow \div Ms \in Nat
  BY <1>2
<1>4. jwt[j].exp > 0
  BY <1>1, <1>2, <1>3
<1>5. blacklist' \in [Jwts -> Nat] /\ blacklist'[j] = jwt[j].exp * Ms
      /\ \A k \in Jwts : k # j => blacklist'[k] = blacklist[k]
  BY <1>1, <1>2 DEF TokenInv, AuthTypeOK
<1>6. LogoutsAreKept'
  <2> SUFFICES ASSUME NEW k \in loggedOut'
               PROVE  k \in Jwts /\ StaysRefused(k)'
    BY DEF LogoutsAreKept
  <2>1. CASE k = j
    BY <2>1, <1>1, <1>4, <1>5 DEF StaysRefused
  <2>2. CASE k # j
    <3>1. k \in loggedOut /\ k \in Jwts /\ StaysRefused(k)
      BY <2>2, <1>1 DEF TokenInv, LogoutsAreKept
    <3> QED
      BY <3>1, <2>2, <1>1, <1>5 DEF StaysRefused
  <2> QED
    BY <2>1, <2>2
<1> QED
  BY <1>1, <1>2, <1>5, <1>6, BlacklistOnly

\* A token that was logged out is expired, or found on the blacklist.
LEMMA ValidatingIsSafe ==
    ASSUME TokenInv, NEW j \in Jwts, ValidateToken(j)
    PROVE  TokenInv'
<1>1. /\ UNCHANGED <<refresh, factor, jwt, blacklist, loggedOut, authCall, authNow>>
      /\ served' = served \cup ({j} \cap loggedOut)
      /\ authNow \div Ms < jwt[j].exp
      /\ ~(blacklist[j] # 0 /\ authNow <= blacklist[j])
  BY DEF ValidateToken, Unexpired, IsRevoked
<1>2. /\ authNow \in Nat /\ Ms \in Nat \ {0} /\ served = {}
      /\ jwt[j].exp \in Nat /\ jwt[j].exp * Ms \in Nat /\ blacklist[j] \in Nat
  BY TokenTypes
<1>3. authNow < jwt[j].exp * Ms
  BY <1>1, <1>2, Below
<1>4. j \notin loggedOut
  <2>1. ~StaysRefused(j)
    BY <1>1, <1>2, <1>3 DEF StaysRefused
  <2> QED
    BY <2>1 DEF TokenInv, LogoutsAreKept
<1>5. LogoutsAreKept'
  BY <1>1 DEF TokenInv, LogoutsAreKept, StaysRefused
<1>6. blacklist' \in [Jwts -> Nat]
  BY <1>1 DEF TokenInv, AuthTypeOK
<1> QED
  BY <1>1, <1>2, <1>4, <1>5, <1>6, BlacklistOnly

LEMMA CleaningIsSafe ==
    ASSUME TokenInv, CleanupBlacklist \/ AuthTick
    PROVE  TokenInv'
<1>1. UNCHANGED <<refresh, factor, jwt, loggedOut, served, authCall>>
  BY DEF CleanupBlacklist, AuthTick
<1>2. /\ authNow \in Nat /\ served = {}
      /\ \A j \in Jwts : jwt[j].exp * Ms \in Nat /\ blacklist[j] \in Nat
  BY TokenTypes
<1>3. loggedOut \subseteq Jwts /\ \A j \in loggedOut : StaysRefused(j)
  BY DEF TokenInv, LogoutsAreKept
<1>4. CASE CleanupBlacklist
  <2>1. /\ authNow' = authNow
        /\ blacklist' = [j \in Jwts |-> IF authNow > blacklist[j] THEN 0 ELSE blacklist[j]]
    BY <1>4 DEF CleanupBlacklist
  <2>2. blacklist' \in [Jwts -> Nat]
    BY <2>1, <1>2
  <2>3. \A j \in loggedOut : StaysRefused(j)'
    BY <2>1, <1>1, <1>2, <1>3 DEF StaysRefused
  <2> QED
    BY <2>1, <2>2, <2>3, <1>1, <1>2, <1>3, BlacklistOnly DEF LogoutsAreKept
<1>5. CASE AuthTick
  <2>1. authNow' = authNow + 1 /\ UNCHANGED blacklist
    BY <1>5 DEF AuthTick
  <2>2. \A j \in loggedOut : StaysRefused(j)'
    BY <2>1, <1>1, <1>2, <1>3 DEF StaysRefused
  <2>3. blacklist' \in [Jwts -> Nat] /\ authNow' \in Nat
    BY <2>1, <1>2 DEF TokenInv, AuthTypeOK
  <2> QED
    BY <2>1, <2>2, <2>3, <1>1, <1>2, <1>3, BlacklistOnly DEF LogoutsAreKept
<1> QED
  BY <1>4, <1>5

\* Rows of the second factor change without a request.
LEMMA FactorRowsOnly ==
    ASSUME TokenInv, DisableTwoFactor \/ \E f \in Factors : LockEnds(f)
    PROVE  TokenInv'
<1> USE DEF TokenInv
<1>1. UNCHANGED <<refresh, jwt, blacklist, loggedOut, served, authCall, authNow>>
  BY DEF DisableTwoFactor, LockEnds
<1>2. factor' \in [Factors -> FactorRow]
  <2>1. CASE DisableTwoFactor
    <3>1. \A f \in Factors :
              [factor[f] EXCEPT !.state = "disabled", !.failed = 0, !.locked = FALSE] \in FactorRow
      BY DEF AuthTypeOK, FactorRow
    <3> QED
      BY <2>1, <3>1 DEF DisableTwoFactor, AuthTypeOK
  <2>2. ASSUME NEW f \in Factors, LockEnds(f)
        PROVE  factor' \in [Factors -> FactorRow]
    <3>1. [factor[f] EXCEPT !.locked = FALSE] \in FactorRow
      BY DEF AuthTypeOK, FactorRow
    <3> QED
      BY <2>2, <3>1 DEF LockEnds, AuthTypeOK
  <2> QED
    BY <2>1, <2>2
<1>3. AuthTypeOK'
  BY <1>1, <1>2 DEF AuthTypeOK
<1> QED
  BY <1>1, <1>3 DEF RotationsAreGood, GoodAuth, LogoutsAreKept, StaysRefused, TokensAreSound,
                    RotatedHasSuccessor, LoggedOutIsRefused

LEMMA TokenStep == TokenInv /\ AuthNext => TokenInv'
BY AuthCallsAreSafe, FactorsAreSafe, IssuingIsSafe, RevokingIsSafe, EndingIsSafe, LogoutIsSafe,
   ValidatingIsSafe, CleaningIsSafe, FactorRowsOnly DEF AuthNext

LEMMA TokenStands == TokenInv /\ UNCHANGED authVars => TokenInv'
BY DEF authVars, TokenInv, AuthTypeOK, RotationsAreGood, GoodAuth, LogoutsAreKept, StaysRefused,
       TokensAreSound, RotatedHasSuccessor, LoggedOutIsRefused

-----------------------------------------------------------------------------
(* Logins through a provider.  Every link there is was recorded as one, and *)
(* a login that is about to be answered found or made the link of its user. *)

OAuthPc == {"idle", "find", "email", "create", "link", "token", "social", "issue", "owner", "revoke",
            "refresh", "key"}
OAuthRow == [pc : OAuthPc, kind : {"none", "login", "grantfox", "link", "key"},
             id : Identities \cup {NoOne}, user : Accounts \cup {NoOne},
             rows : SUBSET (States \cup GrantfoxToken)]

GoodOAuth(o) ==
    /\ o.pc \in {"find", "email", "create", "link", "token", "social", "issue", "owner"} =>
           o.id \in Identities
    /\ o.pc \in {"link", "token", "social", "issue"} => o.user \in Accounts
    /\ o.pc = "owner" => o.user \in Accounts
    /\ o.pc \in {"revoke", "refresh"} => o.rows \subseteq GrantfoxToken
    /\ o.pc = "issue" => <<o.id, o.user>> \in linkedEver

LinksAreKept == \A i \in Identities : social[i] # NoOne => <<i, social[i]>> \in linkedEver

OAuthInv ==
    /\ OAuthTypeOK /\ oauth \in [OAuthCalls -> OAuthRow]
    /\ \A c \in OAuthCalls : GoodOAuth(oauth[c])
    /\ LinksAreKept /\ IssuedToLinked

LEMMA QuietIsRow == Quiet \in OAuthRow /\ Quiet.pc = "idle"
BY DEF Quiet, OAuthRow, OAuthPc

LEMMA OAuthInitially == OAuthInit => OAuthInv
<1> SUFFICES ASSUME OAuthInit
             PROVE  OAuthInv
  OBVIOUS
<1> USE DEF OAuthInit
<1>1. account \in [Accounts -> UserRow]
  BY OAuthAssumption DEF UserRow, NoUser
<1>2. OAuthTypeOK
  BY <1>1 DEF OAuthTypeOK, SocialAccount
<1>3. oauth \in [OAuthCalls -> OAuthRow] /\ \A c \in OAuthCalls : GoodOAuth(oauth[c])
  BY QuietIsRow DEF GoodOAuth
<1> QED
  BY <1>2, <1>3 DEF OAuthInv, LinksAreKept, IssuedToLinked

\* A step of one request, after which links are still recorded.
LEMMA OAuthGoes ==
    ASSUME OAuthInv, NEW c \in OAuthCalls, NEW o \in OAuthRow, oauth' = [oauth EXCEPT ![c] = o],
           linkedEver \subseteq linkedEver', GoodOAuth(o)', OAuthTypeOK', LinksAreKept',
           issued' \subseteq linkedEver'
    PROVE  OAuthInv'
<1> USE DEF OAuthInv
<1>1. oauth' \in [OAuthCalls -> OAuthRow]
  OBVIOUS
<1>2. \A d \in OAuthCalls : GoodOAuth(oauth[d])'
  <2> SUFFICES ASSUME NEW d \in OAuthCalls
               PROVE  GoodOAuth(oauth[d])'
    OBVIOUS
  <2>1. oauth'[d] = IF d = c THEN o ELSE oauth[d]
    OBVIOUS
  <2>2. CASE d = c
    BY <2>1, <2>2 DEF GoodOAuth
  <2>3. CASE d # c
    <3>1. GoodOAuth(oauth[d])
      OBVIOUS
    <3> QED
      BY <2>1, <2>3, <3>1 DEF GoodOAuth
  <2> QED
    BY <2>2, <2>3
<1> QED
  BY <1>1, <1>2 DEF IssuedToLinked

\* The same when nothing but the request and new users change.
LEMMA OAuthOnly ==
    ASSUME OAuthInv, NEW c \in OAuthCalls, NEW o \in OAuthRow, oauth' = [oauth EXCEPT ![c] = o],
           GoodOAuth(o), account' \in [Accounts -> UserRow], gfToken' \subseteq GrantfoxToken,
           UNCHANGED <<social, linkedEver, issued>>
    PROVE  OAuthInv'
<1>1. OAuthTypeOK' /\ LinksAreKept' /\ issued' \subseteq linkedEver'
  BY DEF OAuthInv, OAuthTypeOK, LinksAreKept, IssuedToLinked
<1>2. GoodOAuth(o)'
  BY DEF GoodOAuth
<1> QED
  BY <1>1, <1>2, OAuthGoes

LEMMA OAuthTypes ==
    ASSUME OAuthInv, NEW c \in OAuthCalls
    PROVE  /\ oauth[c] \in OAuthRow /\ GoodOAuth(oauth[c])
           /\ account \in [Accounts -> UserRow] /\ social \in [Identities -> SocialAccount]
           /\ gfToken \subseteq GrantfoxToken
BY DEF OAuthInv, OAuthTypeOK

\* Requests begin with what they were given.
LEMMA StartingIsSafe ==
    ASSUME OAuthInv, NEW c \in OAuthCalls,
           \/ \E i \in Identities : Authenticate(c, i) \/ \E s \in States : HandleCallback(c, i, s)
           \/ \E i \in Identities, a \in Accounts : LinkProvider(c, a, i)
           \/ \E a \in Accounts : RevokeToken(c, a)
           \/ \E t \in gfToken : RefreshGrantfoxToken(c, t)
           \/ \E k \in ApiKeys : ValidateApiKey(c, k)
    PROVE  OAuthInv'
<1>1. account \in [Accounts -> UserRow] /\ gfToken \subseteq GrantfoxToken
  BY OAuthTypes
<1>2. UNCHANGED <<account, gfToken, social, linkedEver, issued>>
  BY DEF Authenticate, HandleCallback, LinkProvider, RevokeToken, RefreshGrantfoxToken, ValidateApiKey
<1>3. ASSUME NEW o \in OAuthRow, OAuthStart(c, o), GoodOAuth(o)
      PROVE  OAuthInv'
  BY <1>1, <1>2, <1>3, OAuthOnly DEF OAuthStart
<1>4. ASSUME NEW i \in Identities, Authenticate(c, i)
      PROVE  OAuthInv'
  <2> DEFINE o == [Quiet EXCEPT !.pc = "find", !.kind = "login", !.id = i]
  <2>1. o \in OAuthRow /\ GoodOAuth(o)
    BY DEF Quiet, OAuthRow, OAuthPc, GoodOAuth
  <2>2. OAuthStart(c, o)
    BY <1>4 DEF Authenticate, ExchangeCodeForToken
  <2> QED
    BY <2>1, <2>2, <1>3
<1>5. ASSUME NEW i \in Identities, NEW s \in States, HandleCallback(c, i, s)
      PROVE  OAuthInv'
  <2> DEFINE o == [Quiet EXCEPT !.pc = "find", !.kind = "grantfox", !.id = i, !.rows = {s}]
  <2>1. o \in OAuthRow /\ GoodOAuth(o)
    BY DEF Quiet, OAuthRow, OAuthPc, GoodOAuth
  <2>2. OAuthStart(c, o)
    BY <1>5 DEF HandleCallback, FetchUserInfo
  <2> QED
    BY <2>1, <2>2, <1>3
<1>6. ASSUME NEW i \in Identities, NEW a \in Accounts, LinkProvider(c, a, i)
      PROVE  OAuthInv'
  <2> DEFINE o == [Quiet EXCEPT !.pc = "owner", !.kind = "link", !.id = i, !.user = a]
  <2>1. o \in OAuthRow /\ GoodOAuth(o)
    BY DEF Quiet, OAuthRow, OAuthPc, GoodOAuth
  <2>2. OAuthStart(c, o)
    BY <1>6 DEF LinkProvider
  <2> QED
    BY <2>1, <2>2, <1>3
<1>7. ASSUME NEW a \in Accounts, RevokeToken(c, a)
      PROVE  OAuthInv'
  <2> DEFINE rows == {t \in gfToken : t.user = a /\ ~t.revoked}
             o == [Quiet EXCEPT !.pc = "revoke", !.user = a, !.rows = rows]
  <2>1. rows \subseteq GrantfoxToken
    BY <1>1
  <2>2. OAuthStart(c, o)
    BY <1>7 DEF RevokeToken
  <2> HIDE DEF rows
  <2>3. o \in OAuthRow /\ GoodOAuth(o)
    BY <2>1 DEF Quiet, OAuthRow, OAuthPc, GoodOAuth
  <2> QED
    BY <2>2, <2>3, <1>3
<1>8. ASSUME NEW t \in gfToken, RefreshGrantfoxToken(c, t)
      PROVE  OAuthInv'
  <2> DEFINE o == [Quiet EXCEPT !.pc = "refresh", !.user = t.user, !.rows = {t}]
  <2>1. t \in GrantfoxToken /\ t.user \in Accounts
    BY <1>1 DEF GrantfoxToken
  <2>2. o \in OAuthRow /\ GoodOAuth(o)
    BY <2>1 DEF Quiet, OAuthRow, OAuthPc, GoodOAuth
  <2>3. OAuthStart(c, o)
    BY <1>8 DEF RefreshGrantfoxToken
  <2> QED
    BY <2>2, <2>3, <1>3
<1>9. ASSUME NEW k \in ApiKeys, ValidateApiKey(c, k)
      PROVE  OAuthInv'
  <2> DEFINE o == [Quiet EXCEPT !.pc = "key", !.kind = "key"]
  <2>1. o \in OAuthRow /\ GoodOAuth(o)
    BY DEF Quiet, OAuthRow, OAuthPc, GoodOAuth
  <2>2. OAuthStart(c, o)
    BY <1>9 DEF ValidateApiKey
  <2> QED
    BY <2>1, <2>2, <1>3
<1> QED
  BY <1>4, <1>5, <1>6, <1>7, <1>8, <1>9

\* Requests end without a link or an answer.
LEMMA OAuthEnds ==
    ASSUME OAuthInv, NEW c \in OAuthCalls,
           \/ CreateUserThrows(c) \/ LinkThrows(c) \/ AuthenticateKey(c) \/ RefreshFails(c)
           \/ RevokeOnGrantfox(c) \/ RotateToken(c)
    PROVE  OAuthInv'
<1>1. /\ oauth' = [oauth EXCEPT ![c] = Quiet]
      /\ UNCHANGED <<account, social, linkedEver, issued>>
  BY DEF CreateUserThrows, LinkThrows, AuthenticateKey, RefreshFails, RevokeOnGrantfox, RotateToken,
         LoginEnds
<1>2. account \in [Accounts -> UserRow] /\ gfToken \subseteq GrantfoxToken
  BY OAuthTypes
<1>3. gfToken' \subseteq GrantfoxToken
  <2>1. CASE CreateUserThrows(c) \/ LinkThrows(c) \/ AuthenticateKey(c) \/ RefreshFails(c)
    BY <2>1, <1>2 DEF CreateUserThrows, LinkThrows, AuthenticateKey, RefreshFails
  <2>2. CASE RevokeOnGrantfox(c) \/ RotateToken(c)
    <3>1. /\ gfToken' = (gfToken \ oauth[c].rows) \cup {[t EXCEPT !.revoked = TRUE] : t \in oauth[c].rows}
          /\ oauth[c].pc \in {"revoke", "refresh"}
      BY <2>2 DEF RevokeOnGrantfox, RotateToken, AtStep
    <3>2. oauth[c].rows \subseteq GrantfoxToken
      BY <3>1, OAuthTypes DEF GoodOAuth
    <3>3. \A t \in oauth[c].rows : [t EXCEPT !.revoked = TRUE] \in GrantfoxToken
      BY <3>2 DEF GrantfoxToken
    <3> QED
      BY <3>1, <3>3, <1>2
  <2> QED
    BY <2>1, <2>2
<1> QED
  BY <1>1, <1>2, <1>3, QuietIsRow, OAuthOnly DEF GoodOAuth

\* Looking for the user of an identity
LEMMA FindingIsSafe ==
    ASSUME OAuthInv, NEW c \in OAuthCalls, FindSocial(c) \/ FindByEmail(c) \/ FindOwner(c)
    PROVE  OAuthInv'
<1>1. /\ oauth[c] \in OAuthRow /\ GoodOAuth(oauth[c]) /\ account \in [Accounts -> UserRow]
      /\ social \in [Identities -> SocialAccount] /\ gfToken \subseteq GrantfoxToken
  BY OAuthTypes
<1>2. UNCHANGED <<account, gfToken, social, linkedEver, issued>>
  BY DEF FindSocial, FindByEmail, FindOwner
<1>3. ASSUME NEW o \in OAuthRow, oauth' = [oauth EXCEPT ![c] = o], GoodOAuth(o)
      PROVE  OAuthInv'
  BY <1>1, <1>2, <1>3, OAuthOnly
<1>4. ASSUME NEW step \in {"email", "create"}, GoTo(c, step), oauth[c].id \in Identities
      PROVE  OAuthInv'
  <2> DEFINE o == [oauth[c] EXCEPT !.pc = step]
  <2>1. oauth' = [oauth EXCEPT ![c] = o]
    BY <1>4 DEF GoTo
  <2>2. o \in OAuthRow /\ GoodOAuth(o)
    BY <1>1, <1>4 DEF OAuthRow, OAuthPc, GoodOAuth
  <2> QED
    BY <2>1, <2>2, <1>3
<1>5. CASE FindSocial(c)
  <2> DEFINE i == oauth[c].id
             u == social[i]
             step == IF oauth[c].kind = "login" THEN "issue" ELSE "token"
             o == [oauth[c] EXCEPT !.user = u, !.pc = step]
  <2>1. i \in Identities
    BY <1>1, <1>5 DEF FindSocial, AtStep, GoodOAuth
  <2>2. CASE u = NoOne
    BY <2>1, <2>2, <1>4, <1>5 DEF FindSocial
  <2>3. CASE u # NoOne
    <3>1. u \in Accounts /\ <<i, u>> \in linkedEver
      BY <2>1, <2>3, <1>1 DEF SocialAccount, OAuthInv, LinksAreKept
    <3>2. oauth' = [oauth EXCEPT ![c] = o]
      BY <2>3, <1>5 DEF FindSocial
    <3>3. step \in {"issue", "token"}
      OBVIOUS
    <3> HIDE DEF step, u
    <3>4. o \in OAuthRow /\ o.id = i /\ o.user = u /\ o.pc = step
      BY <3>1, <3>3, <1>1 DEF OAuthRow, OAuthPc
    <3> HIDE DEF o
    <3>5. GoodOAuth(o)
      BY <3>1, <3>3, <3>4, <2>1 DEF GoodOAuth
    <3> QED
      BY <3>2, <3>4, <3>5, <1>3
  <2> QED
    BY <2>2, <2>3
<1>6. CASE FindByEmail(c)
  <2> DEFINE i == oauth[c].id
             found == IF i \in WithEmail THEN Having(i) ELSE {}
             u == CHOOSE a \in found : TRUE
             step == Afterwards(c)
             o == [oauth[c] EXCEPT !.pc = step, !.user = u]
  <2>1. i \in Identities
    BY <1>1, <1>6 DEF FindByEmail, AtStep, GoodOAuth
  <2>2. CASE found = {}
    BY <2>1, <2>2, <1>4, <1>6 DEF FindByEmail
  <2>3. CASE found # {}
    <3>1. u \in Accounts
      <4>1. u \in found
        BY <2>3
      <4> QED
        BY <4>1 DEF Having
    <3>2. oauth' = [oauth EXCEPT ![c] = o]
      BY <2>3, <1>6 DEF FindByEmail
    <3>3. step \in {"link", "token"}
      BY DEF Afterwards
    <3> HIDE DEF step, u
    <3>4. o \in OAuthRow /\ o.id = i /\ o.user = u /\ o.pc = step
      BY <3>1, <3>3, <1>1 DEF OAuthRow, OAuthPc
    <3> HIDE DEF o
    <3>5. GoodOAuth(o)
      BY <3>1, <3>3, <3>4, <2>1 DEF GoodOAuth
    <3> QED
      BY <3>2, <3>4, <3>5, <1>3
  <2> QED
    BY <2>2, <2>3
<1>7. CASE FindOwner(c)
  <2>1. oauth[c].pc = "owner"
    BY <1>7 DEF FindOwner, AtStep
  <2>2. CASE social[oauth[c].id] = NoOne
    <3> DEFINE o == [oauth[c] EXCEPT !.pc = "link"]
    <3>1. oauth' = [oauth EXCEPT ![c] = o]
      BY <2>2, <1>7 DEF FindOwner, GoTo
    <3>2. o \in OAuthRow /\ GoodOAuth(o)
      BY <1>1, <2>1 DEF OAuthRow, OAuthPc, GoodOAuth
    <3> QED
      BY <3>1, <3>2, <1>3
  <2>3. CASE social[oauth[c].id] # NoOne
    <3>1. oauth' = [oauth EXCEPT ![c] = Quiet]
      BY <2>3, <1>7 DEF FindOwner, LoginEnds
    <3> QED
      BY <3>1, <1>3, QuietIsRow DEF GoodOAuth
  <2> QED
    BY <2>2, <2>3
<1> QED
  BY <1>5, <1>6, <1>7

LEMMA CreatingIsSafe ==
    ASSUME OAuthInv, NEW c \in OAuthCalls, NEW a \in Accounts, CreateUser(c, a)
    PROVE  OAuthInv'
<1> DEFINE i == oauth[c].id
           row == [exists |-> TRUE, wallet |-> i, email |-> IF i \in WithEmail THEN i ELSE NoOne]
           step == Afterwards(c)
           o == [oauth[c] EXCEPT !.pc = step, !.user = a]
<1>1. /\ oauth[c] \in OAuthRow /\ GoodOAuth(oauth[c]) /\ account \in [Accounts -> UserRow]
      /\ gfToken \subseteq GrantfoxToken
  BY OAuthTypes
<1>2. /\ account' = [account EXCEPT ![a] = row]
      /\ oauth' = [oauth EXCEPT ![c] = o]
      /\ UNCHANGED <<gfToken, social, linkedEver, issued>>
      /\ oauth[c].pc = "create"
  BY DEF CreateUser, AtStep
<1>3. i \in Identities
  BY <1>1, <1>2 DEF GoodOAuth
<1>4. row \in UserRow /\ step \in {"link", "token"}
  BY <1>3 DEF UserRow, Afterwards
<1> HIDE DEF row, step
<1>5. o \in OAuthRow /\ o.id = i /\ o.user = a /\ o.pc = step
  BY <1>1, <1>4 DEF OAuthRow, OAuthPc
<1> HIDE DEF o
<1>6. GoodOAuth(o)
  BY <1>3, <1>4, <1>5 DEF GoodOAuth
<1>7. account' \in [Accounts -> UserRow]
  BY <1>1, <1>2, <1>4
<1> QED
  BY <1>1, <1>2, <1>5, <1>6, <1>7, OAuthOnly

\* A link that is saved is recorded.
LEMMA LinkingIsSafe ==
    ASSUME OAuthInv, NEW i \in Identities, NEW u \in Accounts, Linked(i, u)
    PROVE  /\ social' \in [Identities -> SocialAccount]
           /\ LinksAreKept' /\ linkedEver \subseteq linkedEver' /\ <<i, u>> \in linkedEver'
<1>1. /\ social' = [social EXCEPT ![i] = u]
      /\ linkedEver' = linkedEver \cup {<<i, u>>}
      /\ social \in [Identities -> SocialAccount]
  BY DEF Linked, OAuthInv, OAuthTypeOK
<1>2. LinksAreKept'
  <2> SUFFICES ASSUME NEW k \in Identities, social'[k] # NoOne
               PROVE  <<k, social'[k]>> \in linkedEver'
    BY DEF LinksAreKept
  <2>1. CASE k = i
    BY <2>1, <1>1
  <2>2. CASE k # i
    BY <2>2, <1>1 DEF OAuthInv, LinksAreKept
  <2> QED
    BY <2>1, <2>2
<1> QED
  BY <1>1, <1>2 DEF SocialAccount

LEMMA SavingLinkIsSafe ==
    ASSUME OAuthInv, NEW c \in OAuthCalls, SaveSocial(c) \/ LinkSocialAccount(c)
    PROVE  OAuthInv'
<1>1. /\ oauth[c] \in OAuthRow /\ GoodOAuth(oauth[c]) /\ account \in [Accounts -> UserRow]
      /\ gfToken \subseteq GrantfoxToken
  BY OAuthTypes
<1>2. UNCHANGED <<account, gfToken, issued>> /\ oauth[c].pc \in {"link", "social"}
  BY DEF SaveSocial, LinkSocialAccount, AtStep
<1>3. PICK i \in Identities, u \in Accounts : i = oauth[c].id /\ u = oauth[c].user
  BY <1>1, <1>2 DEF GoodOAuth
<1>4. PICK o \in OAuthRow : /\ o = [oauth[c] EXCEPT !.pc = "issue"]
                            /\ o.pc = "issue" /\ o.id = i /\ o.user = u
  <2> DEFINE w == [oauth[c] EXCEPT !.pc = "issue"]
  <2>1. w \in OAuthRow /\ w.pc = "issue" /\ w.id = i /\ w.user = u
    BY <1>1, <1>3 DEF OAuthRow, OAuthPc
  <2> HIDE DEF w
  <2>2. \E o \in OAuthRow : o = w /\ o.pc = "issue" /\ o.id = i /\ o.user = u
    BY <2>1
  <2> QED
    BY <2>2 DEF w
<1>5. CASE Linked(i, u) /\ GoTo(c, "issue")
  <2>1. OAuthTypeOK' /\ LinksAreKept' /\ linkedEver \subseteq linkedEver' /\ <<i, u>> \in linkedEver'
    BY <1>1, <1>2, <1>3, <1>5, LinkingIsSafe DEF OAuthTypeOK
  <2>2. oauth' = [oauth EXCEPT ![c] = o]
    BY <1>4, <1>5 DEF GoTo
  <2>3. GoodOAuth(o)'
    BY <1>3, <1>4, <2>1 DEF GoodOAuth
  <2>4. issued' \subseteq linkedEver'
    BY <1>2, <2>1 DEF OAuthInv, IssuedToLinked
  <2> QED
    BY <1>4, <2>1, <2>2, <2>3, <2>4, OAuthGoes
<1>6. CASE Linked(i, u) /\ LoginEnds(c)
  <2>1. OAuthTypeOK' /\ LinksAreKept' /\ linkedEver \subseteq linkedEver'
    BY <1>1, <1>2, <1>3, <1>6, LinkingIsSafe DEF OAuthTypeOK
  <2>2. oauth' = [oauth EXCEPT ![c] = Quiet]
    BY <1>6 DEF LoginEnds
  <2>3. GoodOAuth(Quiet)'
    BY DEF GoodOAuth, Quiet
  <2>4. issued' \subseteq linkedEver'
    BY <1>2, <2>1 DEF OAuthInv, IssuedToLinked
  <2> QED
    BY QuietIsRow, <2>1, <2>2, <2>3, <2>4, OAuthGoes
<1>7. CASE social[i] = u /\ GoTo(c, "issue") /\ UNCHANGED <<social, linkedEver>>
  <2>1. <<i, u>> \in linkedEver
    BY <1>3, <1>7, OAuthAssumption DEF OAuthInv, LinksAreKept
  <2>2. oauth' = [oauth EXCEPT ![c] = o]
    BY <1>4, <1>7 DEF GoTo
  <2>3. GoodOAuth(o)
    BY <1>3, <1>4, <2>1 DEF GoodOAuth
  <2> QED
    BY <1>1, <1>2, <1>4, <1>7, <2>2, <2>3, OAuthOnly
<1>8. CASE LoginEnds(c) /\ UNCHANGED <<social, linkedEver>>
  <2>1. oauth' = [oauth EXCEPT ![c] = Quiet] /\ GoodOAuth(Quiet)
    BY <1>8 DEF LoginEnds, GoodOAuth, Quiet
  <2> QED
    BY <1>1, <1>2, <1>8, <2>1, QuietIsRow, OAuthOnly
<1>9. CASE SaveSocial(c)
  BY <1>3, <1>5, <1>6, <1>9 DEF SaveSocial
<1>10. CASE LinkSocialAccount(c)
  BY <1>3, <1>5, <1>7, <1>8, <1>10 DEF LinkSocialAccount
<1> QED
  BY <1>9, <1>10

\* A token row of Grantfox is stored, or there is one already.
LEMMA SavingTokenIsSafe ==
    ASSUME OAuthInv, NEW c \in OAuthCalls, SaveGrantfoxToken(c)
    PROVE  OAuthInv'
<1> DEFINE row == [user |-> oauth[c].user, id |-> oauth[c].id, revoked |-> FALSE]
           o == [oauth[c] EXCEPT !.pc = "social"]
<1>1. /\ oauth[c] \in OAuthRow /\ GoodOAuth(oauth[c]) /\ account \in [Accounts -> UserRow]
      /\ gfToken \subseteq GrantfoxToken
  BY OAuthTypes
<1>2. UNCHANGED <<account, social, linkedEver, issued>> /\ oauth[c].pc = "token"
  BY DEF SaveGrantfoxToken, AtStep
<1>3. oauth[c].id \in Identities /\ oauth[c].user \in Accounts
  BY <1>1, <1>2 DEF GoodOAuth
<1>4. row \in GrantfoxToken
  BY <1>3 DEF GrantfoxToken
<1>5. o \in OAuthRow /\ GoodOAuth(o)
  BY <1>1, <1>3 DEF OAuthRow, OAuthPc, GoodOAuth
<1>6. GoodOAuth(Quiet)
  BY DEF GoodOAuth, Quiet
<1>7. CASE oauth' = [oauth EXCEPT ![c] = Quiet] /\ UNCHANGED gfToken
  BY <1>1, <1>2, <1>6, <1>7, QuietIsRow, OAuthOnly
<1>8. CASE oauth' = [oauth EXCEPT ![c] = o] /\ gfToken' = gfToken \cup {row}
  <2> HIDE DEF o, row
  <2>1. gfToken' \subseteq GrantfoxToken
    BY <1>1, <1>4, <1>8
  <2> QED
    BY <1>1, <1>2, <1>5, <1>8, <2>1, OAuthOnly
<1> QED
  BY <1>7, <1>8 DEF SaveGrantfoxToken, LoginEnds, GoTo

\* An answer is given for the user whose link was found or made.
LEMMA AnsweringIsSafe ==
    ASSUME OAuthInv, NEW c \in OAuthCalls, IssueToken(c)
    PROVE  OAuthInv'
<1>1. /\ oauth[c].pc = "issue" /\ oauth' = [oauth EXCEPT ![c] = Quiet]
      /\ issued' = issued \cup {<<oauth[c].id, oauth[c].user>>}
      /\ UNCHANGED <<account, social, gfToken, linkedEver>>
  BY DEF IssueToken, AtStep, LoginEnds
<1>2. <<oauth[c].id, oauth[c].user>> \in linkedEver
  BY <1>1, OAuthTypes DEF GoodOAuth
<1>3. OAuthTypeOK' /\ LinksAreKept' /\ issued' \subseteq linkedEver'
  BY <1>1, <1>2 DEF OAuthInv, OAuthTypeOK, LinksAreKept, IssuedToLinked
<1>4. GoodOAuth(Quiet)'
  BY DEF GoodOAuth, Quiet
<1> QED
  BY <1>1, <1>3, <1>4, QuietIsRow, OAuthGoes

\* Unlinking, authorisations, API keys, and the restart that ends requests
LEMMA ApartIsSafe ==
    ASSUME OAuthInv,
           \/ \E s \in States : StartAuthorization(s)
           \/ \E i \in Identities : UnlinkProvider(i)
           \/ \E k \in ApiKeys : GenerateApiKey(k) \/ RevokeApiKey(k) \/ ApiKeyExpires(k)
           \/ LoadSystemApiKeys
    PROVE  OAuthInv'
<1> USE DEF OAuthInv
<1>1. UNCHANGED <<account, gfToken, linkedEver, issued>>
  BY DEF StartAuthorization, UnlinkProvider, GenerateApiKey, RevokeApiKey, ApiKeyExpires, LoadSystemApiKeys
<1>2. /\ oauth' \in [OAuthCalls -> OAuthRow]
      /\ \A c \in OAuthCalls : oauth'[c] = oauth[c] \/ oauth'[c] = Quiet
  <2>1. CASE LoadSystemApiKeys
    BY <2>1, QuietIsRow DEF LoadSystemApiKeys
  <2>2. CASE UNCHANGED oauth
    BY <2>2
  <2> QED
    BY <2>1, <2>2 DEF StartAuthorization, UnlinkProvider, GenerateApiKey, RevokeApiKey, ApiKeyExpires
<1>3. /\ social' \in [Identities -> SocialAccount]
      /\ \A i \in Identities : social'[i] = social[i] \/ social'[i] = NoOne
  <2>1. ASSUME NEW i \in Identities, UnlinkProvider(i)
        PROVE  <1>3!1 /\ <1>3!2
    BY <2>1 DEF UnlinkProvider, OAuthTypeOK, SocialAccount
  <2>2. CASE UNCHANGED social
    BY <2>2 DEF OAuthTypeOK
  <2> QED
    BY <2>1, <2>2 DEF StartAuthorization, GenerateApiKey, RevokeApiKey, ApiKeyExpires, LoadSystemApiKeys
<1>4. OAuthTypeOK'
  BY <1>1, <1>3 DEF OAuthTypeOK
<1>5. \A c \in OAuthCalls : GoodOAuth(oauth[c])'
  BY <1>1, <1>2, QuietIsRow DEF GoodOAuth
<1>6. LinksAreKept' /\ IssuedToLinked'
  BY <1>1, <1>3 DEF LinksAreKept, IssuedToLinked
<1> QED
  BY <1>2, <1>4, <1>5, <1>6

LEMMA OAuthStep == OAuthInv /\ OAuthNext => OAuthInv'
BY StartingIsSafe, OAuthEnds, FindingIsSafe, CreatingIsSafe, SavingLinkIsSafe, SavingTokenIsSafe,
   AnsweringIsSafe, ApartIsSafe DEF OAuthNext

LEMMA OAuthStands == OAuthInv /\ UNCHANGED oauthVars => OAuthInv'
BY DEF oauthVars, OAuthInv, OAuthTypeOK, GoodOAuth, LinksAreKept, IssuedToLinked

-----------------------------------------------------------------------------
(* Reviews, their pages and the leaderboard.  A review keeps its author and  *)
(* its time however often it is saved from a stale copy, so the order of the *)
(* pages never changes.                                                      *)

ReviewStatuses == {"pending", "flagged", "approved", "rejected"}
ReviewRow == [user : Reviewers, status : ReviewStatuses, created : Nat, answered : BOOLEAN]
ReadingRow == [op : {"none", "create", "answer", "moderate"}, user : Reviewers \cup {NoReviewer},
               id : Nat, copy : ReviewRow \cup {NoReview}]
CursorRow == [ms : Nat, id : Nat]
ReaderRow == [phase : {"off", "more", "done"}, after : CursorRow, got : Seq(ReviewIds),
              steady : SUBSET ReviewIds, cursors : SUBSET CursorRow]

ReviewTypeOK ==
    /\ reviews \in [ReviewIds -> ReviewRow \cup {NoReview}]
    /\ micros \in Nat
    /\ reviewing \in [ReviewCalls -> ReadingRow]

\* What was read of a review and may be saved has its author and its time.
GoodReading(r) ==
    /\ r.op = "create" => r.user \in Reviewers
    /\ r.op \in {"answer", "moderate"} =>
           /\ r.id \in Stored /\ r.copy \in ReviewRow
           /\ r.copy.user = reviews[r.id].user /\ r.copy.created = reviews[r.id].created
ReadingsAreGood == \A c \in ReviewCalls : GoodReading(reviewing[c])

Sorted(got) == \A m, n \in DOMAIN got : m < n => NewerFirst(got[m], got[n])
Got(rd, i) == \E k \in DOMAIN rd.got : rd.got[k] = i
Hidden(rd, i) == \E c \in rd.cursors : c.ms = reviews[i].created \div Millisecond

\* Between two pages, what was approved all along is on a page already, is
\* behind the cursor, or shares a cursor's millisecond.
GoodReader(rd) ==
    /\ rd \in ReaderRow
    /\ rd.steady \subseteq Approved
    /\ \A k \in DOMAIN rd.got : rd.got[k] \in Stored
    /\ Sorted(rd.got)
    /\ rd.phase = "more" =>
           /\ rd.got # <<>> /\ rd.after = Encode(rd.got[Len(rd.got)])
           /\ \A i \in rd.steady : Got(rd, i) \/ Hidden(rd, i) \/ AfterCursor(i, rd.after)
    /\ rd.phase = "done" => \A i \in rd.steady : Got(rd, i) \/ Hidden(rd, i)
ReaderInv == GoodReader(reader)

DiscoveryInv ==
    ReviewTypeOK /\ ReadingsAreGood /\ OneReviewPerUser /\ ReaderInv /\ LeaderboardIsFair

LEMMA DiscoveryInitially == DiscoveryInit => DiscoveryInv
<1> SUFFICES ASSUME DiscoveryInit PROVE DiscoveryInv OBVIOUS
<1>1. Stored = {} /\ Approved = {}  BY DEF DiscoveryInit, Stored, Approved
<1>2. NoReading \in ReadingRow  BY DEF NoReading, ReadingRow
<1>3. ReviewTypeOK  BY <1>2 DEF DiscoveryInit, ReviewTypeOK
<1>4. ReadingsAreGood  BY DEF DiscoveryInit, ReadingsAreGood, GoodReading, NoReading
<1>5. OneReviewPerUser  BY <1>1 DEF OneReviewPerUser
<1>6. ReaderInv
  <2>1. NoReader \in ReaderRow  BY DEF NoReader, ReaderRow, CursorRow, NoCursor
  <2>2. NoReader.steady = {} /\ DOMAIN NoReader.got = {} /\ NoReader.phase = "off"  BY DEF NoReader
  <2> QED BY <2>1, <2>2 DEF DiscoveryInit, ReaderInv, GoodReader, Sorted
<1>7. LeaderboardIsFair  BY DEF DiscoveryInit, LeaderboardIsFair
<1> QED BY <1>3, <1>4, <1>5, <1>6, <1>7 DEF DiscoveryInv

\* A timestamp and its milliseconds
LEMMA Truncates ==
    ASSUME NEW t \in Nat, NEW d \in Nat \ {0}
    PROVE  t \div d \in Nat /\ (t \div d) * d <= t /\ t < (t \div d) * d + d
OBVIOUS

LEMMA SameTruncated ==
    ASSUME NEW s \in Nat, NEW t \in Nat, NEW d \in Nat \ {0}, s <= t, (t \div d) * d <= s
    PROVE  s \div d = t \div d
<1>1. PICK q \in Nat : q = t \div d  BY Truncates
<1>2. q * d <= t /\ t < q * d + d  BY <1>1, Truncates
<1>3. PICK p \in Nat : p = s \div d  BY Truncates
<1>4. p * d <= s /\ s < p * d + d  BY <1>3, Truncates
<1>5. q * d <= s  BY <1>1
<1>6. q < p + 1
  <2> SUFFICES ASSUME q >= p + 1 PROVE FALSE OBVIOUS
  <2>1. q * d >= (p + 1) * d  OBVIOUS
  <2>2. (p + 1) * d = p * d + d  OBVIOUS
  <2>3. p * d \in Nat /\ q * d \in Nat  OBVIOUS
  <2> QED BY <2>1, <2>2, <2>3, <1>4, <1>5
<1>7. p < q + 1
  <2> SUFFICES ASSUME p >= q + 1 PROVE FALSE OBVIOUS
  <2>1. p * d >= (q + 1) * d  OBVIOUS
  <2>2. (q + 1) * d = q * d + d  OBVIOUS
  <2>3. p * d \in Nat /\ q * d \in Nat  OBVIOUS
  <2> QED BY <2>1, <2>2, <2>3, <1>4, <1>2
<1> QED BY <1>1, <1>3, <1>6, <1>7

(* Rows in an order *)


LEMMA StoredIsRow ==
    ASSUME ReviewTypeOK, NEW i \in Stored
    PROVE  i \in ReviewIds /\ i \in Nat \ {0} /\ reviews[i] \in ReviewRow /\ reviews[i].created \in Nat
<1>1. i \in ReviewIds /\ reviews[i] # NoReview  BY DEF Stored
<1>2. reviews[i] \in ReviewRow  BY <1>1 DEF ReviewTypeOK
<1> QED BY <1>1, <1>2, DiscoveryAssumption DEF ReviewRow

LEMMA StoredRow ==
    ASSUME ReviewTypeOK, NEW i \in ReviewIds, reviews[i] \in ReviewRow
    PROVE  i \in Stored
<1>1. reviews[i].user # NoReviewer  BY DiscoveryAssumption DEF ReviewRow
<1> QED BY <1>1 DEF Stored, NoReview

LEMMA NewerFirstIsOrder ==
    ASSUME ReviewTypeOK
    PROVE  /\ \A i, j, k \in Stored : NewerFirst(i, j) /\ NewerFirst(j, k) => NewerFirst(i, k)
           /\ \A i, j \in Stored : i # j => NewerFirst(i, j) \/ NewerFirst(j, i)
           /\ \A i \in Stored : ~NewerFirst(i, i)
<1>1. \A i \in Stored : i \in Nat /\ reviews[i].created \in Nat  BY StoredIsRow
<1> QED BY <1>1 DEF NewerFirst

LEMMA RowsInOrder ==
    ASSUME ReviewTypeOK, NEW S \in SUBSET Stored
    PROVE  /\ IsFiniteSet(S)
           /\ InOrder(S, NewerFirst) \in [1..Cardinality(S) -> S]
           /\ \A i \in S : \E k \in 1..Cardinality(S) : InOrder(S, NewerFirst)[k] = i
           /\ \A m, n \in 1..Cardinality(S) :
                 m < n => NewerFirst(InOrder(S, NewerFirst)[m], InOrder(S, NewerFirst)[n])
<1> DEFINE R == {w \in S \X S : NewerFirst(w[1], w[2])}
<1>1. IsFiniteSet(S)
  <2>1. S \subseteq ReviewIds  BY DEF Stored
  <2> QED BY <2>1, DiscoveryAssumption, FS_Subset
<1>2. \A i, j \in S : <<i, j>> \in R <=> NewerFirst(i, j)  OBVIOUS
<1>3. IsStrictOrder(R, S)
  <2>1. \A i, j, k \in S : NewerFirst(i, j) /\ NewerFirst(j, k) => NewerFirst(i, k)  BY NewerFirstIsOrder
  <2>2. \A i, j \in S : i # j => NewerFirst(i, j) \/ NewerFirst(j, i)  BY NewerFirstIsOrder
  <2> HIDE DEF R
  <2> QED BY <2>1, <2>2, <1>2 DEF IsStrictOrder
<1> HIDE DEF R
<1>4. PICK q : Lists(q, R, S)  BY <1>1, <1>3, ListExists
<1>5. q \in [1..Cardinality(S) -> S]  BY <1>4 DEF Lists
<1>6. \A m, n \in 1..Cardinality(S) : m < n => NewerFirst(q[m], q[n])
  <2> SUFFICES ASSUME NEW m \in 1..Cardinality(S), NEW n \in 1..Cardinality(S), m < n
               PROVE  NewerFirst(q[m], q[n])
    OBVIOUS
  <2>1. <<q[m], q[n]>> \in R  BY <1>4 DEF Lists
  <2> QED BY <2>1, <1>2, <1>5
<1>7. Range(q) = S  BY <1>4, <1>5 DEF Lists, Range
<1> DEFINE Good(p) == Range(p) = S /\ \A m, n \in 1..Cardinality(S) : m < n => NewerFirst(p[m], p[n])
<1>8. PICK r : r = InOrder(S, NewerFirst)  OBVIOUS
<1>9. r \in [1..Cardinality(S) -> S] /\ Good(r)  BY <1>5, <1>6, <1>7, <1>8 DEF InOrder
<1>10. \A i \in S : \E k \in 1..Cardinality(S) : r[k] = i  BY <1>9 DEF Range
<1> QED BY <1>1, <1>8, <1>9, <1>10

(* Pages *)

\* The row of a cursor and one behind it
LEMMA BehindIsOlder ==
    ASSUME ReviewTypeOK, NEW i \in Stored, NEW j \in Stored, AfterCursor(j, Encode(i))
    PROVE  NewerFirst(i, j)
<1>1. i \in Nat \ {0} /\ j \in Nat /\ reviews[i].created \in Nat /\ reviews[j].created \in Nat
  BY StoredIsRow
<1>2. Encode(i) # NoCursor  BY <1>1 DEF Encode, NoCursor
<1>3. PICK t \in Nat, u \in Nat, b \in Nat :
        t = reviews[i].created /\ u = reviews[j].created /\ b = (t \div Millisecond) * Millisecond /\ b <= t
  <2>1. Millisecond \in Nat \ {0}  BY DiscoveryAssumption
  <2>2. \A t \in Nat : (t \div Millisecond) * Millisecond \in Nat /\ (t \div Millisecond) * Millisecond <= t
    BY <2>1, Truncates
  <2> QED BY <2>2, <1>1
<1>4. u < b \/ (u = b /\ j < i)  BY <1>2, <1>3 DEF AfterCursor, Encode
<1> QED BY <1>1, <1>3, <1>4 DEF NewerFirst

\* A row older than that of a cursor is behind it or shares its millisecond.
LEMMA OlderIsBehind ==
    ASSUME ReviewTypeOK, NEW i \in Stored, NEW j \in Stored, NewerFirst(i, j)
    PROVE  AfterCursor(j, Encode(i)) \/ Encode(i).ms = reviews[j].created \div Millisecond
<1>1. i \in Nat \ {0} /\ j \in Nat /\ reviews[i].created \in Nat /\ reviews[j].created \in Nat
  BY StoredIsRow
<1>2. PICK t \in Nat, u \in Nat : t = reviews[i].created /\ u = reviews[j].created  BY <1>1
<1>3. u <= t  BY <1>1, <1>2 DEF NewerFirst
<1>4. Millisecond \in Nat \ {0}  BY DiscoveryAssumption
<1>5. CASE u < (t \div Millisecond) * Millisecond  BY <1>5, <1>2 DEF AfterCursor, Encode
<1>6. CASE (t \div Millisecond) * Millisecond <= u
  <2>1. u \div Millisecond = t \div Millisecond  BY <1>3, <1>4, <1>6, SameTruncated
  <2> QED BY <2>1, <1>2 DEF Encode
<1>7. (t \div Millisecond) * Millisecond \in Nat  BY <1>4, Truncates
<1> QED BY <1>5, <1>6, <1>7

LEMMA EncodedIsCursor ==
    ASSUME ReviewTypeOK, NEW i \in Stored
    PROVE  Encode(i) \in CursorRow
<1>1. reviews[i].created \div Millisecond \in Nat  BY StoredIsRow, DiscoveryAssumption, Truncates
<1>2. i \in Nat  BY StoredIsRow
<1> QED BY <1>1, <1>2 DEF Encode, CursorRow

\* The page that a good reader is answered makes it a good reader.
LEMMA PageIsGood ==
    ASSUME ReviewTypeOK, NEW old, old \in ReaderRow,
           old.steady \subseteq Approved,
           \A k \in DOMAIN old.got : old.got[k] \in Stored,
           Sorted(old.got),
           old.got # <<>> => old.after = Encode(old.got[Len(old.got)]),
           \A i \in old.steady : Got(old, i) \/ Hidden(old, i) \/ AfterCursor(i, old.after),
           NEW page, NEW more \in BOOLEAN, NEW end, NEW new,
           page = Connection(old.after).page, more = Connection(old.after).hasNextPage,
           end = IF page = <<>> THEN NoCursor ELSE Encode(Last(page)),
           new = [old EXCEPT !.phase = IF more THEN "more" ELSE "done",
                             !.after = end, !.got = @ \o page,
                             !.cursors = IF more THEN @ \union {end} ELSE @]
    PROVE  GoodReader(new)
<1> DEFINE S == {i \in Approved : AfterCursor(i, old.after)}
<1>1. S \subseteq Stored  BY DEF Approved
<1>2. PICK rows, n : rows = InOrder(S, NewerFirst) /\ n = Cardinality(S)  OBVIOUS
<1>3. /\ IsFiniteSet(S) /\ rows \in [1..n -> S]
      /\ \A i \in S : \E k \in 1..n : rows[k] = i
      /\ \A a, b \in 1..n : a < b => NewerFirst(rows[a], rows[b])
  BY <1>1, <1>2, RowsInOrder
<1>4. n \in Nat  BY <1>2, <1>3, FS_CardinalityType
<1>5. rows \in Seq(S) /\ Len(rows) = n /\ DOMAIN rows = 1..n
  <2>1. rows \in Seq(S)  BY <1>3, <1>4
  <2>2. DOMAIN rows = 1..n  BY <1>3
  <2>3. Len(rows) = n  BY <2>1, <2>2, <1>4
  <2> QED BY <2>1, <2>2, <2>3
<1>6. more = (n > PageSize) /\ page = IF more THEN SubSeq(rows, 1, PageSize) ELSE rows
  BY <1>2, <1>5 DEF Connection
<1>7. PageSize \in Nat \ {0}  BY DiscoveryAssumption
<1>8. PICK l \in Nat : l = IF more THEN PageSize ELSE n  BY <1>4, <1>7
<1>9. /\ page \in Seq(S) /\ Len(page) = l /\ DOMAIN page = 1..l /\ l <= n
      /\ \A k \in 1..l : page[k] = rows[k]
  <2>1. CASE more
    <3>1. l = PageSize /\ n > PageSize  BY <2>1, <1>6, <1>8
    <3>4. PageSize \in 1..n /\ l <= n  BY <3>1, <1>4, <1>7
    <3>2. page = SubSeq(rows, 1, PageSize)  BY <2>1, <1>6
    <3>3. page \in Seq(S) /\ Len(page) = PageSize /\ DOMAIN page = 1..PageSize
          /\ \A k \in 1..PageSize : page[k] = rows[k]
      BY <3>4, <3>2, <1>5, Prefix
    <3> QED BY <3>1, <3>3, <3>4
  <2>2. CASE ~more  BY <2>2, <1>4, <1>5, <1>6, <1>8
  <2> QED BY <2>1, <2>2
<1>10. /\ old.got \in Seq(ReviewIds) /\ old.after \in CursorRow /\ old.steady \in SUBSET ReviewIds
       /\ old.cursors \in SUBSET CursorRow
  BY DEF ReaderRow
<1>11. PICK g, h : g = old.got /\ h = Len(g)  OBVIOUS
<1>12. g \in Seq(ReviewIds) /\ h \in Nat /\ DOMAIN g = 1..h  BY <1>10, <1>11
<1>13. PICK both : both = g \o page  OBVIOUS
<1>14. page \in Seq(ReviewIds)
  <2>1. S \subseteq ReviewIds  BY <1>1 DEF Stored
  <2>2. \A k \in 1..l : page[k] \in ReviewIds  BY <1>9, <1>3, <2>1, <1>4, <1>8
  <2> QED BY <2>1, <1>9
<1>15. /\ both \in Seq(ReviewIds) /\ Len(both) = h + l /\ DOMAIN both = 1..(h + l)
       /\ \A k \in 1..h : both[k] = g[k]
       /\ \A k \in 1..l : both[h + k] = rows[k]
  <2>1. /\ both \in Seq(ReviewIds) /\ Len(both) = h + l /\ DOMAIN both = 1..(h + l)
        /\ \A k \in 1..h : both[k] = g[k]
        /\ \A k \in 1..l : both[h + k] = page[k]
    <3>1. h = Len(g) /\ l = Len(page)  BY <1>9, <1>11
    <3> QED BY <3>1, <1>12, <1>13, <1>14, Joined
  <2> QED BY <2>1, <1>9
<1>16. PICK r \in Nat : r = h + l  BY <1>8, <1>12
<1>17. \A k \in 1..r : k \in 1..h \/ \E b \in 1..l : k = h + b
  <2> SUFFICES ASSUME NEW k \in 1..r, k \notin 1..h PROVE k - h \in 1..l /\ k = h + (k - h)
    OBVIOUS
  <2> QED BY <1>8, <1>12, <1>16
<1> DEFINE Mine(k) == both[k]
<1>18. \A k \in 1..l : both[h + k] \in S
  BY <1>15, <1>9, <1>3, <1>4, <1>8
<1>19. \A k \in 1..r : both[k] \in Stored
  <2>1. \A k \in 1..h : both[k] \in Stored  BY <1>11, <1>12, <1>15
  <2> QED BY <2>1, <1>17, <1>18, <1>1
<1>20. \A a \in 1..h, b \in 1..l : NewerFirst(both[a], both[h + b])
  <2> SUFFICES ASSUME NEW a \in 1..h, NEW b \in 1..l PROVE NewerFirst(both[a], both[h + b])
    OBVIOUS
  <2>1. h \in 1..h /\ a <= h  BY <1>12
  <2>2. PICK x, y, z : x = g[a] /\ y = g[h] /\ z = rows[b]  OBVIOUS
  <2>3. x \in Stored /\ y \in Stored  BY <2>1, <2>2, <1>11, <1>12
  <2>4. z \in S  BY <2>2, <1>18, <1>15
  <2>5. g # <<>>
    <3>1. DOMAIN g # {}  BY <2>1, <1>12
    <3> QED BY <3>1
  <2>6. AfterCursor(z, Encode(y))  BY <2>2, <2>4, <2>5, <1>11
  <2>7. NewerFirst(y, z)  BY <2>3, <2>4, <2>6, <1>1, BehindIsOlder
  <2>8. x = y \/ NewerFirst(x, y)
    <3>1. CASE a = h  BY <3>1, <2>2
    <3>2. CASE a < h  BY <3>2, <2>1, <2>2, <1>11, <1>12 DEF Sorted
    <3> QED BY <3>1, <3>2, <2>1, <1>12
  <2>9. NewerFirst(x, z)  BY <2>3, <2>4, <2>7, <2>8, <1>1, NewerFirstIsOrder
  <2> QED BY <2>9, <2>2, <1>15
<1>21. \A a, b \in 1..r : a < b => NewerFirst(both[a], both[b])
  <2> SUFFICES ASSUME NEW a \in 1..r, NEW b \in 1..r, a < b PROVE NewerFirst(both[a], both[b])
    OBVIOUS
  <2>1. CASE b \in 1..h
    <3>1. a \in 1..h  BY <2>1, <1>12
    <3> QED BY <3>1, <2>1, <1>11, <1>12, <1>15 DEF Sorted
  <2>2. CASE b \notin 1..h
    <3>1. PICK j \in 1..l : b = h + j  BY <2>2, <1>17
    <3>2. CASE a \in 1..h  BY <3>1, <3>2, <1>20
    <3>3. CASE a \notin 1..h
      <4>1. PICK i \in 1..l : a = h + i  BY <3>3, <1>17
      <4>2. i < j  BY <3>1, <4>1, <1>12
      <4>3. i \in 1..n /\ j \in 1..n  BY <1>4, <1>8, <1>9
      <4>4. NewerFirst(rows[i], rows[j])  BY <4>2, <4>3, <1>3
      <4> QED BY <4>4, <3>1, <4>1, <1>15
    <3> QED BY <3>2, <3>3
  <2> QED BY <2>1, <2>2
<1>22. end \in CursorRow /\ (more => l # 0 /\ r # 0 /\ both # <<>> /\ end = Encode(both[r]))
  <2>1. NoCursor \in CursorRow  BY DEF NoCursor, CursorRow
  <2>2. CASE l = 0
    <3>1. ~more  BY <2>2, <1>7, <1>8
    <3>2. page = <<>>  BY <2>2, <1>9
    <3> QED BY <3>1, <3>2, <2>1
  <2>3. CASE l # 0
    <3>1. page # <<>> /\ l \in 1..l  BY <2>3, <1>8, <1>9
    <3>2. end = Encode(page[l])  BY <3>1, <1>9 DEF Last
    <3>3. page[l] = both[r]  BY <3>1, <1>9, <1>15, <1>16
    <3>4. r \in 1..r  BY <2>3, <1>8, <1>12, <1>16
    <3>5. both[r] \in Stored  BY <3>4, <1>19
    <3>6. both # <<>>
      <4>1. DOMAIN both # {}  BY <3>4, <1>15, <1>16
      <4> QED BY <4>1
    <3> QED BY <2>3, <3>2, <3>3, <3>4, <3>5, <3>6, EncodedIsCursor
  <2> QED BY <2>2, <2>3
<1>23. /\ new.phase = (IF more THEN "more" ELSE "done") /\ new.after = end /\ new.got = both
       /\ new.steady = old.steady /\ new.cursors = IF more THEN old.cursors \cup {end} ELSE old.cursors
       /\ new = [phase |-> new.phase, after |-> new.after, got |-> new.got,
                 steady |-> new.steady, cursors |-> new.cursors]
  BY <1>11, <1>13 DEF ReaderRow
<1>24. new \in ReaderRow
  <2>1. new.phase \in {"off", "more", "done"}  BY <1>23
  <2>2. new.cursors \in SUBSET CursorRow  BY <1>23, <1>10, <1>22
  <2>3. new.after \in CursorRow /\ new.got \in Seq(ReviewIds) /\ new.steady \in SUBSET ReviewIds
    BY <1>23, <1>10, <1>22, <1>15
  <2> QED BY <2>1, <2>2, <2>3, <1>23 DEF ReaderRow
<1>25. \A i \in old.steady : Got(new, i) \/ Hidden(new, i) \/ (more /\ AfterCursor(i, end))
  <2> SUFFICES ASSUME NEW i \in old.steady, ~Got(new, i), ~Hidden(new, i)
               PROVE  more /\ AfterCursor(i, end)
    OBVIOUS
  <2>1. ~Got(old, i)
    <3> SUFFICES ASSUME NEW k \in DOMAIN old.got, old.got[k] = i PROVE FALSE BY DEF Got
    <3>1. k \in 1..h  BY <1>11, <1>12
    <3>2. k \in 1..r  BY <3>1, <1>8, <1>12, <1>16
    <3>3. g[k] = i  BY <1>11
    <3>4. both[k] = i  BY <3>1, <3>3, <1>15
    <3>5. new.got[k] = i /\ DOMAIN new.got = 1..r  BY <3>4, <1>15, <1>16, <1>23
    <3> QED BY <3>2, <3>5 DEF Got
  <2>2. ~Hidden(old, i)
    <3>1. old.cursors \subseteq new.cursors  BY <1>23
    <3> QED BY <3>1 DEF Hidden
  <2>3. i \in S  BY <2>1, <2>2
  <2>4. PICK k \in 1..n : rows[k] = i  BY <2>3, <1>3
  <2>5. k \notin 1..l
    <3> SUFFICES ASSUME k \in 1..l PROVE FALSE OBVIOUS
    <3>1. h + k \in 1..r  BY <1>8, <1>12, <1>16
    <3>2. new.got[h + k] = i  BY <2>4, <1>15, <1>23
    <3> QED BY <3>1, <3>2, <1>15, <1>16, <1>23 DEF Got
  <2>6. more /\ l \in 1..n /\ l < k  BY <2>5, <1>4, <1>7, <1>8, <1>9
  <2>7. NewerFirst(rows[l], i)  BY <2>4, <2>6, <1>3
  <2>8. l \in 1..l /\ rows[l] = both[r]  BY <2>6, <1>15, <1>16
  <2>9. end = Encode(rows[l]) /\ rows[l] \in Stored  BY <2>6, <2>8, <1>1, <1>3, <1>22
  <2>10. i \in Stored  BY <2>3, <1>1
  <2>11. end.ms # reviews[i].created \div Millisecond  BY <2>6, <1>23 DEF Hidden
  <2> QED BY <2>6, <2>7, <2>9, <2>10, <2>11, OlderIsBehind
<1>26. new.steady \subseteq Approved  BY <1>23
<1>27. \A k \in DOMAIN new.got : new.got[k] \in Stored  BY <1>15, <1>16, <1>19, <1>23
<1>28. Sorted(new.got)  BY <1>15, <1>16, <1>21, <1>23 DEF Sorted
<1>29. ASSUME new.phase = "more"
       PROVE  /\ new.got # <<>> /\ new.after = Encode(new.got[Len(new.got)])
              /\ \A i \in new.steady : Got(new, i) \/ Hidden(new, i) \/ AfterCursor(i, new.after)
  <2>1. more  BY <1>29, <1>23
  <2>2. new.got = both /\ both # <<>> /\ new.after = Encode(both[r])  BY <2>1, <1>22, <1>23
  <2>3. Len(both) = r  BY <1>15, <1>16
  <2>4. \A i \in new.steady : Got(new, i) \/ Hidden(new, i) \/ AfterCursor(i, new.after)
    BY <1>23, <1>25
  <2> QED BY <2>2, <2>3, <2>4
<1>30. ASSUME new.phase = "done" PROVE \A i \in new.steady : Got(new, i) \/ Hidden(new, i)
  <2>1. ~more  BY <1>30, <1>23
  <2> QED BY <2>1, <1>23, <1>25
<1> QED BY <1>24, <1>26, <1>27, <1>28, <1>29, <1>30 DEF GoodReader

LEMMA ReviewTypeStays ==
    ASSUME ReviewTypeOK, UNCHANGED <<reviews, micros, reviewing>>
    PROVE  ReviewTypeOK'
BY DEF ReviewTypeOK

LEMMA FetchingIsSafe ==
    ASSUME DiscoveryInv, FetchPage
    PROVE  ReaderInv'
<1> DEFINE old == IF reader.phase = "off" THEN [NoReader EXCEPT !.steady = Approved] ELSE reader
           answer == Connection(old.after)
           end == IF answer.page = <<>> THEN NoCursor ELSE Encode(Last(answer.page))
           new == [old EXCEPT !.phase = IF answer.hasNextPage THEN "more" ELSE "done",
                              !.after = end, !.got = @ \o answer.page,
                              !.cursors = IF answer.hasNextPage THEN @ \union {end} ELSE @]
<1>1. reader.phase # "done" /\ reader' = new /\ UNCHANGED reviews
  BY DEF FetchPage, reviewVars
<1>2. ReviewTypeOK /\ GoodReader(reader)  BY DEF DiscoveryInv, ReaderInv
<1>3. /\ old \in ReaderRow /\ old.steady \subseteq Approved
      /\ \A k \in DOMAIN old.got : old.got[k] \in Stored
      /\ Sorted(old.got)
      /\ old.got # <<>> => old.after = Encode(old.got[Len(old.got)])
      /\ \A i \in old.steady : Got(old, i) \/ Hidden(old, i) \/ AfterCursor(i, old.after)
  <2>1. CASE reader.phase = "off"
    <3>1. Approved \in SUBSET ReviewIds  BY DEF Approved, Stored
    <3>2. /\ old.phase = "off" /\ old.after = NoCursor /\ old.got = <<>> /\ old.steady = Approved
          /\ old.cursors = {}
          /\ old = [phase |-> "off", after |-> NoCursor, got |-> <<>>, steady |-> Approved, cursors |-> {}]
      BY <2>1 DEF NoReader
    <3>3. NoCursor \in CursorRow  BY DEF NoCursor, CursorRow
    <3> HIDE DEF old
    <3>4. old \in ReaderRow  BY <3>1, <3>2, <3>3 DEF ReaderRow
    <3>5. Sorted(old.got) /\ DOMAIN old.got = {}  BY <3>2 DEF Sorted
    <3>6. \A i \in old.steady : AfterCursor(i, old.after)  BY <3>2 DEF AfterCursor
    <3> QED BY <3>2, <3>4, <3>5, <3>6
  <2>2. CASE reader.phase # "off"
    <3>1. old = reader  BY <2>2
    <3>2. reader.phase = "more"  BY <2>2, <1>1, <1>2 DEF GoodReader, ReaderRow
    <3> HIDE DEF old
    <3> QED BY <3>1, <3>2, <1>2 DEF GoodReader
  <2> QED BY <2>1, <2>2
<1>4. answer.hasNextPage \in BOOLEAN  BY DEF Connection
<1> HIDE DEF old
<1>5. PICK o, p, m, e : o = old /\ p = answer.page /\ m = answer.hasNextPage /\ e = end  OBVIOUS
<1>6. new = [o EXCEPT !.phase = IF m THEN "more" ELSE "done",
                      !.after = e, !.got = @ \o p,
                      !.cursors = IF m THEN @ \union {e} ELSE @]
  BY <1>5
<1>7. p = Connection(o.after).page /\ m = Connection(o.after).hasNextPage /\ m \in BOOLEAN
      /\ e = IF p = <<>> THEN NoCursor ELSE Encode(Last(p))
  BY <1>4, <1>5
<1> HIDE DEF answer, end, new
<1>8. GoodReader(new)  BY <1>2, <1>3, <1>5, <1>6, <1>7, PageIsGood
<1>9. PICK r : r = new  OBVIOUS
<1>10. GoodReader(r) /\ reader' = r  BY <1>1, <1>8, <1>9
<1> QED BY <1>1, <1>10 DEF ReaderInv, GoodReader, Approved, Stored, Sorted, NewerFirst, Got, Hidden,
                           Encode, AfterCursor

(* Reviews are written *)

\* Rows that keep their authors and times keep a reader and the readings good.
LEMMA ReaderKeeps ==
    ASSUME DiscoveryInv, ReviewTypeOK',
           \A i \in Stored : i \in Stored' /\ reviews'[i].created = reviews[i].created,
           NEW T \in SUBSET reader.steady, T \subseteq Approved',
           reader' = [reader EXCEPT !.steady = T]
    PROVE  ReaderInv'
<1>1. GoodReader(reader) /\ ReviewTypeOK  BY DEF DiscoveryInv, ReaderInv
<1>2. PICK rd : rd = reader  OBVIOUS
<1>3. rd \in ReaderRow /\ GoodReader(rd)  BY <1>1, <1>2 DEF GoodReader
<1>4. PICK new : new = [rd EXCEPT !.steady = T]  OBVIOUS
<1>5. /\ new.phase = rd.phase /\ new.after = rd.after /\ new.got = rd.got
      /\ new.steady = T /\ new.cursors = rd.cursors
  BY <1>3, <1>4 DEF ReaderRow
<1>6. reader' = new  BY <1>2, <1>4
<1>7. new \in ReaderRow  BY <1>2, <1>3, <1>4 DEF ReaderRow
<1>8. PICK created : created = [i \in Stored |-> reviews[i].created]  OBVIOUS
<1>9. \A i \in Stored : i \in Stored' /\ reviews[i].created = created[i] /\ reviews'[i].created = created[i]
  BY <1>8
<1>10. \A i, j \in Stored : NewerFirst(i, j)' <=> NewerFirst(i, j)  BY <1>9 DEF NewerFirst
<1>11. \A i \in Stored : Encode(i)' = Encode(i)  BY <1>9 DEF Encode
<1>12. \A i \in Stored : \A c : AfterCursor(i, c)' <=> AfterCursor(i, c)  BY <1>9 DEF AfterCursor
<1>13. \A i \in T : i \in Stored /\ i \in rd.steady  BY <1>2, <1>3 DEF GoodReader, Approved
<1>14. \A k \in DOMAIN rd.got : rd.got[k] \in Stored  BY <1>3 DEF GoodReader
<1>15. \A i \in T : Hidden(rd, i) => Hidden(new, i)'  BY <1>5, <1>9, <1>13 DEF Hidden
<1>16. \A i \in T : Got(rd, i) => Got(new, i)  BY <1>5 DEF Got
<1>17. \A k \in DOMAIN new.got : new.got[k] \in Stored'  BY <1>5, <1>9, <1>14
<1>18. Sorted(new.got)'
  <2>1. \A m, n \in DOMAIN rd.got : m < n => NewerFirst(rd.got[m], rd.got[n])  BY <1>3 DEF GoodReader, Sorted
  <2> QED BY <2>1, <1>5, <1>10, <1>14 DEF Sorted
<1>19. ASSUME new.phase = "more"
       PROVE  /\ new.got # <<>> /\ new.after = Encode(new.got[Len(new.got)])'
              /\ \A i \in new.steady : Got(new, i) \/ Hidden(new, i)' \/ AfterCursor(i, new.after)'
  <2>1. /\ rd.got # <<>> /\ rd.after = Encode(rd.got[Len(rd.got)])
        /\ \A i \in rd.steady : Got(rd, i) \/ Hidden(rd, i) \/ AfterCursor(i, rd.after)
    BY <1>3, <1>5, <1>19 DEF GoodReader
  <2>2. PICK last : last = rd.got[Len(rd.got)]  OBVIOUS
  <2>3. last \in Stored
    <3>1. rd.got \in Seq(ReviewIds)  BY <1>3 DEF ReaderRow
    <3>2. Len(rd.got) \in DOMAIN rd.got  BY <3>1, <2>1
    <3> QED BY <3>2, <2>2, <1>14
  <2>4. new.after = Encode(last)'  BY <2>1, <2>2, <2>3, <1>5, <1>11
  <2>5. new.got # <<>> /\ new.got[Len(new.got)] = last  BY <2>1, <2>2, <1>5
  <2>6. \A i \in new.steady : Got(new, i) \/ Hidden(new, i)' \/ AfterCursor(i, new.after)'
    BY <2>1, <1>5, <1>12, <1>13, <1>15, <1>16
  <2> QED BY <2>4, <2>5, <2>6
<1>20. ASSUME new.phase = "done" PROVE \A i \in new.steady : Got(new, i) \/ Hidden(new, i)'
  <2>1. \A i \in rd.steady : Got(rd, i) \/ Hidden(rd, i)  BY <1>3, <1>5, <1>20 DEF GoodReader
  <2> QED BY <2>1, <1>5, <1>13, <1>15, <1>16
<1>21. new.steady \subseteq Approved'  BY <1>5
<1>22. GoodReader(new)'
  BY <1>7, <1>17, <1>18, <1>19, <1>20, <1>21 DEF GoodReader, Got
<1> QED BY <1>6, <1>22 DEF ReaderInv

LEMMA ReaderStands ==
    ASSUME DiscoveryInv, ReviewTypeOK', UNCHANGED reader,
           \A i \in Stored : i \in Stored' /\ reviews'[i] = reviews[i]
    PROVE  ReaderInv'
<1>1. reader \in ReaderRow /\ reader.steady \subseteq Approved  BY DEF DiscoveryInv, ReaderInv, GoodReader
<1>2. reader' = [reader EXCEPT !.steady = reader.steady]  BY <1>1 DEF ReaderRow
<1>3. reader.steady \subseteq Approved'  BY <1>1 DEF Approved
<1> QED BY <1>2, <1>3, ReaderKeeps

LEMMA ReadingStays ==
    ASSUME NEW r, GoodReading(r),
           \A i \in Stored : /\ i \in Stored' /\ reviews'[i].user = reviews[i].user
                             /\ reviews'[i].created = reviews[i].created
    PROVE  GoodReading(r)'
BY DEF GoodReading

LEMMA BoardStands == ASSUME LeaderboardIsFair, UNCHANGED board PROVE LeaderboardIsFair'
BY DEF LeaderboardIsFair

LEMMA NoReadingIsGood == NoReading \in ReadingRow /\ GoodReading(NoReading)
BY DEF NoReading, ReadingRow, GoodReading

LEMMA CallingIsSafe ==
    ASSUME DiscoveryInv, NEW c \in ReviewCalls, NEW r \in ReadingRow, GoodReading(r),
           ReviewCallStarts(c, r)
    PROVE  DiscoveryInv'
<1>1. /\ UNCHANGED <<reviews, micros, reader, board>>
      /\ reviewing' = [reviewing EXCEPT ![c] = r]
  BY DEF ReviewCallStarts
<1>2. ReviewTypeOK'  BY <1>1 DEF DiscoveryInv, ReviewTypeOK
<1>3. ReadingsAreGood'
  <2>1. \A b \in ReviewCalls : GoodReading(reviewing'[b])
    BY <1>1 DEF DiscoveryInv, ReadingsAreGood, ReviewTypeOK
  <2> QED BY <2>1, <1>1 DEF ReadingsAreGood, GoodReading, Stored
<1>4. OneReviewPerUser'  BY <1>1 DEF DiscoveryInv, OneReviewPerUser, Stored
<1>5. ReaderInv'
  <2>1. Stored' = Stored  BY <1>1 DEF Stored
  <2> QED BY <2>1, <1>1, <1>2, ReaderStands
<1>6. LeaderboardIsFair'  BY <1>1, BoardStands DEF DiscoveryInv
<1> QED BY <1>2, <1>3, <1>4, <1>5, <1>6 DEF DiscoveryInv

LEMMA InsertingIsSafe ==
    ASSUME DiscoveryInv, NEW c \in ReviewCalls, NEW i \in ReviewIds, NEW s \in {"pending", "flagged"},
           InsertReview(c, i, s)
    PROVE  DiscoveryInv'
<1>1. PICK u : u = reviewing[c].user  OBVIOUS
<1> DEFINE row == [user |-> u, status |-> s, created |-> micros, answered |-> FALSE]
           taken == \E j \in Stored : reviews[j].user = u
<1>2. /\ reviewing[c].op = "create" /\ i \notin Stored
      /\ reviews' = IF taken THEN reviews ELSE [reviews EXCEPT ![i] = row]
      /\ reviewing' = [reviewing EXCEPT ![c] = NoReading]
      /\ UNCHANGED <<micros, reader, board>>
  BY <1>1 DEF InsertReview
<1>3. ReviewTypeOK /\ ReadingsAreGood /\ OneReviewPerUser  BY DEF DiscoveryInv
<1>4. u \in Reviewers  BY <1>1, <1>2, <1>3 DEF ReadingsAreGood, GoodReading
<1>5. row \in ReviewRow  BY <1>3, <1>4 DEF ReviewRow, ReviewTypeOK, ReviewStatuses
<1>6. ReviewTypeOK'
  <2>1. reviews' \in [ReviewIds -> ReviewRow \cup {NoReview}]
    <3> HIDE DEF row, taken
    <3> QED BY <1>2, <1>3, <1>5 DEF ReviewTypeOK
  <2> QED BY <2>1, <1>2, <1>3, NoReadingIsGood DEF ReviewTypeOK
<1>7. \A j \in Stored : j \in Stored' /\ reviews'[j] = reviews[j]
  <2> SUFFICES ASSUME NEW j \in Stored PROVE reviews'[j] = reviews[j] /\ j \in ReviewIds /\ reviews[j] # NoReview
    BY DEF Stored
  <2>1. j # i /\ j \in ReviewIds /\ reviews[j] # NoReview  BY <1>2 DEF Stored
  <2> HIDE DEF row, taken
  <2> QED BY <2>1, <1>2, <1>3 DEF ReviewTypeOK
<1>8. ReadingsAreGood'
  <2>1. \A b \in ReviewCalls : GoodReading(reviewing[b])'
    <3> SUFFICES ASSUME NEW b \in ReviewCalls PROVE GoodReading(reviewing[b])' OBVIOUS
    <3>1. PICK r : r = reviewing'[b]  OBVIOUS
    <3>2. r = NoReading \/ r = reviewing[b]  BY <3>1, <1>2, <1>3 DEF ReviewTypeOK
    <3>3. GoodReading(r)  BY <3>2, <1>3, NoReadingIsGood DEF ReadingsAreGood
    <3>4. GoodReading(r)'  BY <3>3, <1>7, ReadingStays
    <3> QED BY <3>1, <3>4 DEF GoodReading
  <2> QED BY <2>1 DEF ReadingsAreGood
<1>9. OneReviewPerUser'
  <2>1. CASE taken  BY <2>1, <1>2, <1>3 DEF OneReviewPerUser, Stored
  <2>2. CASE ~taken
    <3>1. reviews' = [reviews EXCEPT ![i] = row]  BY <2>2, <1>2
    <3>2. \A j \in Stored' : j = i \/ (j \in Stored /\ reviews'[j] = reviews[j])
      <4> HIDE DEF row
      <4> QED BY <3>1, <1>3 DEF Stored, ReviewTypeOK
    <3>3. reviews'[i].user = u  BY <3>1, <1>3 DEF ReviewTypeOK
    <3>4. \A j \in Stored : reviews[j].user # u  BY <2>2
    <3> QED BY <3>2, <3>3, <3>4, <1>3 DEF OneReviewPerUser
  <2> QED BY <2>1, <2>2
<1>10. ReaderInv'  BY <1>2, <1>6, <1>7, ReaderStands
<1>11. LeaderboardIsFair'  BY <1>2, BoardStands DEF DiscoveryInv
<1> QED BY <1>6, <1>8, <1>9, <1>10, <1>11 DEF DiscoveryInv

\* A row saved as it was read, but for what the request changes
LEMMA SavingReviewIsSafe ==
    ASSUME DiscoveryInv, NEW c \in ReviewCalls, reviewing[c].op \in {"answer", "moderate"},
           NEW row \in ReviewRow, SaveReview(c, row),
           row.user = reviewing[c].copy.user, row.created = reviewing[c].copy.created
    PROVE  DiscoveryInv'
<1>1. PICK i : i = reviewing[c].id  OBVIOUS
<1>2. /\ reviews' = [reviews EXCEPT ![i] = row]
      /\ reader' = [reader EXCEPT !.steady = {j \in reader.steady : reviews'[j].status = "approved"}]
      /\ reviewing' = [reviewing EXCEPT ![c] = NoReading]
      /\ UNCHANGED <<micros, board>>
  BY <1>1 DEF SaveReview, ReaderSees
<1>3. ReviewTypeOK /\ ReadingsAreGood /\ OneReviewPerUser /\ ReaderInv  BY DEF DiscoveryInv
<1>4. i \in Stored /\ row.user = reviews[i].user /\ row.created = reviews[i].created
  BY <1>1, <1>3 DEF ReadingsAreGood, GoodReading
<1>5. i \in ReviewIds  BY <1>4 DEF Stored
<1>6. ReviewTypeOK'  BY <1>2, <1>3, NoReadingIsGood DEF ReviewTypeOK
<1>7. \A j \in ReviewIds : reviews'[j] = IF j = i THEN row ELSE reviews[j]
  BY <1>2, <1>3, <1>5 DEF ReviewTypeOK
<1>8. i \in Stored'
  <2>1. reviews'[i] \in ReviewRow  BY <1>5, <1>7
  <2>2. reviews'[i].user # NoReviewer  BY <2>1, DiscoveryAssumption DEF ReviewRow
  <2> QED BY <2>2, <1>5 DEF Stored, NoReview
<1>9. Stored' = Stored  BY <1>4, <1>7, <1>8 DEF Stored
<1>10. \A j \in Stored : reviews'[j].user = reviews[j].user /\ reviews'[j].created = reviews[j].created
  <2> SUFFICES ASSUME NEW j \in Stored
               PROVE  reviews'[j].user = reviews[j].user /\ reviews'[j].created = reviews[j].created
    OBVIOUS
  <2>1. j \in ReviewIds  BY DEF Stored
  <2> QED BY <2>1, <1>4, <1>7
<1>11. ReadingsAreGood'
  <2>1. \A b \in ReviewCalls : GoodReading(reviewing[b])'
    <3> SUFFICES ASSUME NEW b \in ReviewCalls PROVE GoodReading(reviewing[b])' OBVIOUS
    <3>1. PICK r : r = reviewing'[b]  OBVIOUS
    <3>2. r = NoReading \/ r = reviewing[b]  BY <3>1, <1>2, <1>3 DEF ReviewTypeOK
    <3>3. GoodReading(r)  BY <3>2, <1>3, NoReadingIsGood DEF ReadingsAreGood
    <3>4. GoodReading(r)'  BY <3>3, <1>9, <1>10, ReadingStays
    <3> QED BY <3>1, <3>4 DEF GoodReading
  <2> QED BY <2>1 DEF ReadingsAreGood
<1>12. OneReviewPerUser'  BY <1>3, <1>9, <1>10 DEF OneReviewPerUser
<1>13. ReaderInv'
  <2> DEFINE T == {j \in reader.steady : reviews'[j].status = "approved"}
  <2>1. reader.steady \subseteq Stored  BY <1>3 DEF ReaderInv, GoodReader, Approved
  <2>2. T \subseteq Approved'  BY <2>1, <1>9 DEF Approved
  <2>3. T \in SUBSET reader.steady  OBVIOUS
  <2>4. reader' = [reader EXCEPT !.steady = T]  BY <1>2
  <2> HIDE DEF T
  <2> QED BY <2>2, <2>3, <2>4, <1>6, <1>9, <1>10, ReaderKeeps
<1>14. LeaderboardIsFair'  BY <1>2, BoardStands DEF DiscoveryInv
<1> QED BY <1>6, <1>11, <1>12, <1>13, <1>14 DEF DiscoveryInv

LEMMA ReviewStep == DiscoveryInv /\ ReviewNext => DiscoveryInv'
<1> SUFFICES ASSUME DiscoveryInv, ReviewNext PROVE DiscoveryInv' OBVIOUS
<1>1. ReviewTypeOK /\ ReadingsAreGood  BY DEF DiscoveryInv
<1>2. CASE ReviewTick
  <2>1. micros' = micros + 1 /\ UNCHANGED <<reviews, reviewing, reader, board>>  BY <1>2 DEF ReviewTick
  <2>2. ReviewTypeOK'  BY <2>1, <1>1 DEF ReviewTypeOK
  <2>3. Stored' = Stored  BY <2>1 DEF Stored
  <2>4. ReadingsAreGood'  BY <2>1, <2>3, <1>1 DEF ReadingsAreGood, GoodReading
  <2>5. OneReviewPerUser'  BY <2>1, <2>3 DEF DiscoveryInv, OneReviewPerUser
  <2>6. ReaderInv'  BY <2>1, <2>2, <2>3, ReaderStands
  <2>7. LeaderboardIsFair'  BY <2>1, BoardStands DEF DiscoveryInv
  <2> QED BY <2>2, <2>4, <2>5, <2>6, <2>7 DEF DiscoveryInv
<1>3. ASSUME NEW c \in ReviewCalls, NEW u \in Reviewers, CreateReview(c, u) PROVE DiscoveryInv'
  <2>1. PICK r : r = [NoReading EXCEPT !.op = "create", !.user = u]  OBVIOUS
  <2>2. /\ r.op = "create" /\ r.user = u /\ r.id = 0 /\ r.copy = NoReview
        /\ r = [op |-> r.op, user |-> r.user, id |-> r.id, copy |-> r.copy]
    BY <2>1 DEF NoReading
  <2>3. r \in ReadingRow /\ GoodReading(r)  BY <2>2 DEF ReadingRow, GoodReading
  <2>4. ReviewCallStarts(c, r)  BY <1>3, <2>1 DEF CreateReview
  <2> QED BY <2>3, <2>4, CallingIsSafe
<1>4. ASSUME NEW c \in ReviewCalls, NEW i \in ReviewIds, NEW s \in {"pending", "flagged"},
             InsertReview(c, i, s)
      PROVE  DiscoveryInv'
  BY <1>4, InsertingIsSafe
<1>5. ASSUME NEW c \in ReviewCalls, NEW i \in ReviewIds, NEW op \in {"answer", "moderate"},
             FindOrFail(c, op, i)
      PROVE  DiscoveryInv'
  <2>1. PICK row : row = reviews[i]  OBVIOUS
  <2>2. PICK r : r = [NoReading EXCEPT !.op = op, !.id = i, !.copy = row]  OBVIOUS
  <2>3. /\ r.op = op /\ r.user = NoReviewer /\ r.id = i /\ r.copy = row
        /\ r = [op |-> r.op, user |-> r.user, id |-> r.id, copy |-> r.copy]
    BY <2>2 DEF NoReading
  <2>4. i \in Stored /\ ReviewCallStarts(c, r)  BY <1>5, <2>1, <2>2 DEF FindOrFail
  <2>5. i \in Nat /\ row \in ReviewRow  BY <2>1, <2>4, <1>1, StoredIsRow
  <2>6. r \in ReadingRow  BY <2>3, <2>5 DEF ReadingRow
  <2>7. GoodReading(r)  BY <2>1, <2>3, <2>4, <2>5 DEF GoodReading
  <2> QED BY <2>4, <2>6, <2>7, CallingIsSafe
<1>6. ASSUME NEW c \in ReviewCalls, AddDeveloperResponse(c) PROVE DiscoveryInv'
  <2>1. PICK row : row = [reviewing[c].copy EXCEPT !.answered = TRUE]  OBVIOUS
  <2>2. reviewing[c].op = "answer" /\ SaveReview(c, row)  BY <1>6, <2>1 DEF AddDeveloperResponse
  <2>3. PICK copy : copy = reviewing[c].copy  OBVIOUS
  <2>4. copy \in ReviewRow  BY <2>2, <2>3, <1>1 DEF ReadingsAreGood, GoodReading
  <2>5. row \in ReviewRow /\ row.user = copy.user /\ row.created = copy.created
    BY <2>1, <2>3, <2>4 DEF ReviewRow
  <2> QED BY <2>2, <2>3, <2>5, SavingReviewIsSafe
<1>7. ASSUME NEW c \in ReviewCalls, NEW s \in {"approved", "rejected", "flagged"}, ModerateReview(c, s)
      PROVE  DiscoveryInv'
  <2>1. PICK row : row = [reviewing[c].copy EXCEPT !.status = s]  OBVIOUS
  <2>2. reviewing[c].op = "moderate" /\ SaveReview(c, row)  BY <1>7, <2>1 DEF ModerateReview
  <2>3. PICK copy : copy = reviewing[c].copy  OBVIOUS
  <2>4. copy \in ReviewRow  BY <2>2, <2>3, <1>1 DEF ReadingsAreGood, GoodReading
  <2>5. row \in ReviewRow /\ row.user = copy.user /\ row.created = copy.created
    BY <2>1, <2>3, <2>4 DEF ReviewRow, ReviewStatuses
  <2> QED BY <2>2, <2>3, <2>5, SavingReviewIsSafe
<1> QED BY <1>2, <1>3, <1>4, <1>5, <1>6, <1>7 DEF ReviewNext

(* The leaderboard *)

LEMMA DividedGrows ==
    ASSUME NEW a \in Int, NEW b \in Int, NEW d \in Nat \ {0}, a <= b
    PROVE  a \div d \in Int /\ b \div d \in Int /\ a \div d <= b \div d
<1>1. PICK p \in Int, q \in Int : p = a \div d /\ q = b \div d  OBVIOUS
<1>2. p * d <= a /\ a < p * d + d /\ q * d <= b /\ b < q * d + d  BY <1>1
<1>3. p < q + 1
  <2> SUFFICES ASSUME p >= q + 1 PROVE FALSE OBVIOUS
  <2>1. p * d >= (q + 1) * d  OBVIOUS
  <2>2. (q + 1) * d = q * d + d  OBVIOUS
  <2>3. p * d \in Int /\ q * d \in Int  OBVIOUS
  <2> QED BY <2>1, <2>2, <2>3, <1>2
<1> QED BY <1>1, <1>3

LEMMA WeighedGrows ==
    ASSUME NEW a \in Int, NEW b \in Int, NEW w \in Nat, a <= b
    PROVE  a * w \in Int /\ b * w \in Int /\ a * w <= b * w
OBVIOUS

ScoreFactors == [success : Int, roi : Int, risk : Int, rating : Int]
NatWeights == [success : Nat, roi : Nat, risk : Nat, rating : Nat]
BoardRow == [agent : Agents, m : ScoreFactors, executions : Int, score : Int]

LEMMA WeightsHaveSum ==
    ASSUME NEW w \in NatWeights
    PROVE  ResolveWeights(w) \in NatWeights /\ TotalWeight(ResolveWeights(w)) \in Nat \ {0}
<1>1. DefaultWeights \in NatWeights /\ TotalWeight(DefaultWeights) = 10
  BY DEF DefaultWeights, NatWeights, TotalWeight
<1>2. TotalWeight(w) \in Nat  BY DEF TotalWeight, NatWeights
<1>3. CASE TotalWeight(w) = 0  BY <1>1, <1>3 DEF ResolveWeights
<1>4. CASE TotalWeight(w) # 0  BY <1>2, <1>4 DEF ResolveWeights
<1> QED BY <1>3, <1>4

\* An agent at least as good in every factor scores at least as much.
LEMMA ScoreGrows ==
    ASSUME NEW x \in ScoreFactors, NEW y \in ScoreFactors, NEW w \in NatWeights,
           x.success <= y.success, x.roi <= y.roi, y.risk <= x.risk, x.rating <= y.rating
    PROVE  Score(x, w) \in Int /\ Score(y, w) \in Int /\ Score(x, w) <= Score(y, w)
<1>1. PICK r : r = ResolveWeights(w)  OBVIOUS
<1>2. PICK t \in Nat \ {0} : t = TotalWeight(r)  BY <1>1, WeightsHaveSum
<1>3. PICK u \in Nat, v \in Nat, k \in Nat, l \in Nat :
        u = r.success /\ v = r.roi /\ k = r.risk /\ l = r.rating
  BY <1>1, WeightsHaveSum DEF NatWeights
<1>4. PICK xs \in Int, xo \in Int, xk \in Int, xr \in Int :
        xs = x.success /\ xo = x.roi /\ xk = x.risk /\ xr = x.rating
  BY DEF ScoreFactors
<1>5. PICK ys \in Int, yo \in Int, yk \in Int, yr \in Int :
        ys = y.success /\ yo = y.roi /\ yk = y.risk /\ yr = y.rating
  BY DEF ScoreFactors
<1>6. xs <= ys /\ xo <= yo /\ 100 - xk <= 100 - yk /\ xr <= yr  BY <1>4, <1>5
<1>7. PICK a \in Int : a = xs * u + xo * v + (100 - xk) * k + xr * l  OBVIOUS
<1>8. PICK b \in Int : b = ys * u + yo * v + (100 - yk) * k + yr * l  OBVIOUS
<1>9. a <= b
  <2>1. xs * u \in Int /\ ys * u \in Int /\ xs * u <= ys * u  BY <1>6, WeighedGrows
  <2>2. xo * v \in Int /\ yo * v \in Int /\ xo * v <= yo * v  BY <1>6, WeighedGrows
  <2>3. (100 - xk) * k \in Int /\ (100 - yk) * k \in Int /\ (100 - xk) * k <= (100 - yk) * k
    <3>1. 100 - xk \in Int /\ 100 - yk \in Int  OBVIOUS
    <3> QED BY <3>1, <1>6, WeighedGrows
  <2>4. xr * l \in Int /\ yr * l \in Int /\ xr * l <= yr * l  BY <1>6, WeighedGrows
  <2> QED BY <2>1, <2>2, <2>3, <2>4, <1>7, <1>8
<1>10. Score(x, w) = (2 * (100 * a) + t) \div (2 * t)
  <2>1. Breakdown(x).success = xs /\ Breakdown(x).roi = xo /\ Breakdown(x).risk = 100 - xk
        /\ Breakdown(x).rating = xr
    BY <1>4 DEF Breakdown, ScoreFactors
  <2> QED BY <2>1, <1>1, <1>2, <1>3, <1>7 DEF Score
<1>11. Score(y, w) = (2 * (100 * b) + t) \div (2 * t)
  <2>1. Breakdown(y).success = ys /\ Breakdown(y).roi = yo /\ Breakdown(y).risk = 100 - yk
        /\ Breakdown(y).rating = yr
    BY <1>5 DEF Breakdown, ScoreFactors
  <2> QED BY <2>1, <1>1, <1>2, <1>3, <1>8 DEF Score
<1>12. 2 * (100 * a) + t <= 2 * (100 * b) + t /\ 2 * (100 * a) + t \in Int /\ 2 * (100 * b) + t \in Int
       /\ 2 * t \in Nat \ {0}
  BY <1>9
<1> QED BY <1>10, <1>11, <1>12, DividedGrows

LEMMA RanksAboveIsOrder ==
    /\ \A x, y, z \in BoardRow : RanksAbove(x, y) /\ RanksAbove(y, z) => RanksAbove(x, z)
    /\ \A x, y \in BoardRow : x.agent # y.agent => RanksAbove(x, y) \/ RanksAbove(y, x)
    /\ \A x, y \in BoardRow : ~(RanksAbove(x, y) /\ RanksAbove(y, x))
<1>1. \A x \in BoardRow : x.agent \in Nat /\ x.score \in Int /\ x.executions \in Int
  BY DiscoveryAssumption DEF BoardRow
<1> QED BY <1>1 DEF RanksAbove

LEMMA RankingIsFair ==
    ASSUME NEW facts, NEW w \in NatWeights,
           \A a \in Agents : facts[a].m \in ScoreFactors /\ facts[a].n \in Int,
           Rank(facts, w)
    PROVE  LeaderboardIsFair'
<1> DEFINE Row(a) == [agent |-> a, m |-> facts[a].m, executions |-> facts[a].n,
                      score |-> Score(facts[a].m, w)]
           S == {Row(a) : a \in Agents}
           R == {v \in S \X S : RanksAbove(v[1], v[2])}
           row == [a \in Agents |-> Row(a)]
<1>1. \A a \in Agents : Row(a) \in BoardRow
  <2> SUFFICES ASSUME NEW a \in Agents PROVE Row(a) \in BoardRow OBVIOUS
  <2>1. PICK m, n : m = facts[a].m /\ n = facts[a].n  OBVIOUS
  <2>2. m \in ScoreFactors /\ n \in Int  BY <2>1
  <2>3. m.success <= m.success /\ m.roi <= m.roi /\ m.risk <= m.risk /\ m.rating <= m.rating
    BY <2>2 DEF ScoreFactors
  <2>4. Score(m, w) \in Int  BY <2>2, <2>3, ScoreGrows
  <2> QED BY <2>1, <2>2, <2>4 DEF BoardRow
<1>2. S \subseteq BoardRow  BY <1>1
<1>3. row \in Bijection(Agents, S)
  <2>1. row \in [Agents -> S]  OBVIOUS
  <2>2. \A a, b \in Agents : row[a] = row[b] => a = b
    <3>1. \A a \in Agents : row[a].agent = a  OBVIOUS
    <3> HIDE DEF row
    <3> QED BY <3>1
  <2>3. \A x \in S : \E a \in Agents : row[a] = x  OBVIOUS
  <2> HIDE DEF row, S
  <2> QED BY <2>1, <2>2, <2>3 DEF Bijection, Injection, Surjection, IsInjective
<1>4. IsFiniteSet(S) /\ Cardinality(S) = Cardinality(Agents)
  <2>1. ExistsBijection(Agents, S)  BY <1>3 DEF ExistsBijection
  <2> QED BY <2>1, DiscoveryAssumption, FS_Bijection
<1>5. \A x \in S : \A y \in S : x.agent = y.agent => x = y
  <2> SUFFICES ASSUME NEW a \in Agents, NEW b \in Agents, Row(a).agent = Row(b).agent PROVE Row(a) = Row(b)
    OBVIOUS
  <2> QED OBVIOUS
<1>6. {x.agent : x \in S} = Agents
  <2>1. \A a \in Agents : Row(a).agent = a  OBVIOUS
  <2>2. \A x \in S : \E a \in Agents : x = Row(a)  OBVIOUS
  <2>3. \A a \in Agents : Row(a) \in S  OBVIOUS
  <2> HIDE DEF Row, S
  <2>4. \A x \in S : x.agent \in Agents  BY <2>1, <2>2
  <2>5. \A a \in Agents : \E x \in S : x.agent = a  BY <2>1, <2>3
  <2> QED BY <2>4, <2>5
<1>7. \A x \in S : \A y \in S : AtLeastAsGood(y, x) => x.score <= y.score
  <2> SUFFICES ASSUME NEW a \in Agents, NEW b \in Agents, AtLeastAsGood(Row(b), Row(a))
               PROVE  Row(a).score <= Row(b).score
    OBVIOUS
  <2>1. PICK x, y : x = facts[a].m /\ y = facts[b].m  OBVIOUS
  <2>2. x \in ScoreFactors /\ y \in ScoreFactors  BY <2>1
  <2>3. x.success <= y.success /\ x.roi <= y.roi /\ y.risk <= x.risk /\ x.rating <= y.rating
    <3>1. Row(a).m = x /\ Row(b).m = y  BY <2>1
    <3> HIDE DEF Row
    <3> QED BY <3>1, <2>2 DEF AtLeastAsGood, ScoreFactors
  <2>4. Score(x, w) <= Score(y, w)  BY <2>2, <2>3, ScoreGrows
  <2> QED BY <2>1, <2>4
<1>8. board' = InOrder(S, RanksAbove)  BY DEF Rank
<1> HIDE DEF Row, S, row
<1>9. \A x, y \in S : <<x, y>> \in R <=> RanksAbove(x, y)  OBVIOUS
<1>10. IsStrictOrder(R, S)
  <2>1. \A x, y, z \in S : RanksAbove(x, y) /\ RanksAbove(y, z) => RanksAbove(x, z)
    BY <1>2, RanksAboveIsOrder
  <2>2. \A x, y \in S : x # y => RanksAbove(x, y) \/ RanksAbove(y, x)
    BY <1>2, <1>5, RanksAboveIsOrder
  <2> HIDE DEF R
  <2> QED BY <2>1, <2>2, <1>9 DEF IsStrictOrder
<1> HIDE DEF R
<1>11. PICK q : Lists(q, R, S)  BY <1>4, <1>10, ListExists
<1>12. PICK n : n = Cardinality(S)  OBVIOUS
<1>13. n \in Nat /\ n = Cardinality(Agents)  BY <1>4, <1>12, FS_CardinalityType
<1>14. q \in [1..n -> S] /\ Range(q) = S  BY <1>11, <1>12 DEF Lists, Range
<1>15. \A i, j \in 1..n : i < j => RanksAbove(q[i], q[j])
  <2> SUFFICES ASSUME NEW i \in 1..n, NEW j \in 1..n, i < j PROVE RanksAbove(q[i], q[j]) OBVIOUS
  <2>1. <<q[i], q[j]>> \in R  BY <1>11, <1>12 DEF Lists
  <2> QED BY <2>1, <1>9, <1>14
<1>16. PICK b : b = board'  OBVIOUS
<1>17. b \in [1..n -> S] /\ Range(b) = S /\ \A i, j \in 1..n : i < j => RanksAbove(b[i], b[j])
  BY <1>8, <1>12, <1>14, <1>15, <1>16 DEF InOrder
<1>18. DOMAIN b = 1..n /\ Len(b) = n
  <2>1. DOMAIN b = 1..n  BY <1>17
  <2>2. b \in Seq(S)  BY <1>13, <1>17
  <2> QED BY <2>1, <2>2, <1>13
<1>19. {b[p].agent : p \in DOMAIN b} = Agents  BY <1>6, <1>17 DEF Range
<1>20. ASSUME NEW p \in DOMAIN b, NEW r \in DOMAIN b,
              AtLeastAsGood(b[p], b[r]), b[p].executions > b[r].executions
       PROVE  p < r
  <2>1. PICK x, y : x = b[p] /\ y = b[r]  OBVIOUS
  <2>2. x \in S /\ y \in S /\ x \in BoardRow /\ y \in BoardRow  BY <2>1, <1>2, <1>17, <1>18
  <2>3. y.score <= x.score  BY <2>1, <2>2, <1>7, <1>20
  <2>4. RanksAbove(x, y)
    <3>1. x.score \in Int /\ y.score \in Int /\ x.executions > y.executions  BY <2>1, <2>2, <1>20 DEF BoardRow
    <3> QED BY <3>1, <2>3 DEF RanksAbove
  <2>5. ~RanksAbove(y, x) /\ x # y  BY <2>2, <2>4, RanksAboveIsOrder
  <2>6. p \in 1..n /\ r \in 1..n  BY <1>18
  <2>7. ~(r < p)  BY <2>1, <2>5, <2>6, <1>17
  <2>8. p # r  BY <2>1, <2>5
  <2> QED BY <2>6, <2>7, <2>8, <1>13
<1> QED BY <1>13, <1>16, <1>18, <1>19, <1>20 DEF LeaderboardIsFair

LEMMA RankStep == DiscoveryInv /\ RankNext => DiscoveryInv'
<1> SUFFICES ASSUME DiscoveryInv, RankNext PROVE DiscoveryInv' OBVIOUS
<1> DEFINE M == {[success |-> s, roi |-> 50, risk |-> k, rating |-> 60] :
                   s \in FactorLevels, k \in FactorLevels}
<1>1. PICK facts \in [Agents -> [m : M, n : 0..1]], x \in Weights, y \in Weights :
        Rank(facts, [success |-> x, roi |-> 0, risk |-> y, rating |-> 0])
  BY DEF RankNext
<1>2. M \subseteq ScoreFactors
  <2>1. FactorLevels \subseteq Int  BY DiscoveryAssumption
  <2> QED BY <2>1 DEF ScoreFactors
<1> HIDE DEF M
<1>3. \A a \in Agents : facts[a].m \in ScoreFactors /\ facts[a].n \in Int  BY <1>1, <1>2
<1>4. [success |-> x, roi |-> 0, risk |-> y, rating |-> 0] \in NatWeights
  <2>1. x \in Nat /\ y \in Nat  BY DiscoveryAssumption
  <2> QED BY <2>1 DEF NatWeights
<1>5. LeaderboardIsFair'
  <2>1. PICK w \in NatWeights : Rank(facts, w)  BY <1>1, <1>4
  <2> QED BY <2>1, <1>3, RankingIsFair
<1>6. UNCHANGED <<reviewVars, reader>>  BY <1>1 DEF Rank
<1>7. ReviewTypeOK' /\ ReadingsAreGood' /\ OneReviewPerUser' /\ ReaderInv'
  <2>1. UNCHANGED <<reviews, micros, reviewing, reader>>  BY <1>6 DEF reviewVars
  <2>2. ReviewTypeOK' /\ Stored' = Stored  BY <2>1 DEF DiscoveryInv, ReviewTypeOK, Stored
  <2>3. ReadingsAreGood'  BY <2>1, <2>2 DEF DiscoveryInv, ReadingsAreGood, GoodReading
  <2>4. OneReviewPerUser'  BY <2>1, <2>2 DEF DiscoveryInv, OneReviewPerUser
  <2>5. ReaderInv'  BY <2>1, <2>2, ReaderStands
  <2> QED BY <2>2, <2>3, <2>4, <2>5
<1> QED BY <1>5, <1>7 DEF DiscoveryInv

LEMMA FetchStep == DiscoveryInv /\ FetchPage => DiscoveryInv'
<1> SUFFICES ASSUME DiscoveryInv, FetchPage PROVE DiscoveryInv' OBVIOUS
<1>1. UNCHANGED <<reviews, micros, reviewing, board>>  BY DEF FetchPage, reviewVars
<1>2. ReviewTypeOK' /\ Stored' = Stored  BY <1>1 DEF DiscoveryInv, ReviewTypeOK, Stored
<1>3. ReadingsAreGood'  BY <1>1, <1>2 DEF DiscoveryInv, ReadingsAreGood, GoodReading
<1>4. OneReviewPerUser'  BY <1>1, <1>2 DEF DiscoveryInv, OneReviewPerUser
<1>5. LeaderboardIsFair'  BY <1>1, BoardStands DEF DiscoveryInv
<1> QED BY <1>2, <1>3, <1>4, <1>5, FetchingIsSafe DEF DiscoveryInv

LEMMA DiscoveryStands == DiscoveryInv /\ UNCHANGED discoveryVars => DiscoveryInv'
<1> SUFFICES ASSUME DiscoveryInv, UNCHANGED discoveryVars PROVE DiscoveryInv' OBVIOUS
<1>1. UNCHANGED <<reviews, micros, reviewing, reader, board>>  BY DEF discoveryVars, reviewVars
<1>2. ReviewTypeOK' /\ Stored' = Stored  BY <1>1 DEF DiscoveryInv, ReviewTypeOK, Stored
<1>3. ReadingsAreGood'  BY <1>1, <1>2 DEF DiscoveryInv, ReadingsAreGood, GoodReading
<1>4. OneReviewPerUser'  BY <1>1, <1>2 DEF DiscoveryInv, OneReviewPerUser
<1>5. ReaderInv'  BY <1>1, <1>2, ReaderStands
<1>6. LeaderboardIsFair'  BY <1>1, BoardStands DEF DiscoveryInv
<1> QED BY <1>2, <1>3, <1>4, <1>5, <1>6 DEF DiscoveryInv

LEMMA DiscoveryIsSafe == DiscoveryInv => DiscoveryIsExact
<1> SUFFICES ASSUME DiscoveryInv PROVE DiscoveryIsExact OBVIOUS
<1>1. OneReviewPerUser /\ LeaderboardIsFair /\ GoodReader(reader)  BY DEF DiscoveryInv, ReaderInv
<1>2. ASSUME reader.phase = "done", NEW i \in reader.steady
      PROVE  i \in ToSet(reader.got) \/ \E c \in reader.cursors : c.ms = reviews[i].created \div Millisecond
  <2>1. Got(reader, i) \/ Hidden(reader, i)  BY <1>1, <1>2 DEF GoodReader
  <2> QED BY <2>1 DEF Got, Hidden, ToSet
<1>3. PagesAreExact  BY <1>1, <1>2 DEF PagesAreExact, GoodReader, Sorted
<1> QED BY <1>1, <1>3 DEF DiscoveryIsExact

-----------------------------------------------------------------------------
(* The parts together: a step belongs to one of them, and every invariant   *)
(* holds whichever part runs, since a part that stands still keeps it.      *)

PlatformInv == AccountInv /\ QuotaInv /\ TokenInv /\ OAuthInv /\ DiscoveryInv

LEMMA PlatformInitially == MCInit => PlatformInv
BY AccountInitially, QuotaInitially, TokenInitially, OAuthInitially, DiscoveryInitially
   DEF MCInit, PlatformInv

LEMMA AccessSteps ==
    ASSUME AccountInv, QuotaInv, AccountNext \/ QuotaNext \/ UNCHANGED accessVars
    PROVE  AccountInv' /\ QuotaInv'
<1>1. CASE AccountNext
  <2> USE DEF quotaVars
  <2>1. ASSUME NEW c \in AccessCalls, NEW type, NEW e, NEW n, RegisterAccount(c, type, e, n)
        PROVE  UNCHANGED quotaVars
    BY <2>1 DEF RegisterAccount, AccessCallStarts
  <2>2. ASSUME NEW c \in AccessCalls, NEW p \in Persons, SaveAccount(c, p)
        PROVE  UNCHANGED quotaVars
    BY <2>2 DEF SaveAccount
  <2>3. ASSUME NEW c \in AccessCalls, NEW type, NEW p, LoginAccount(c, type, p)
        PROVE  UNCHANGED quotaVars
    BY <2>3 DEF LoginAccount, AccessCallStarts
  <2>4. ASSUME NEW c \in AccessCalls, NEW v \in BOOLEAN, SignToken(c, v)
        PROVE  UNCHANGED quotaVars
    BY <2>4 DEF SignToken
  <2>5. ASSUME NEW c \in AccessCalls, NEW p, NEW r, AssignRole(c, p, r) \/ SaveRole(c)
        PROVE  UNCHANGED quotaVars
    BY <2>5 DEF AssignRole, AccessCallStarts, SaveRole
  <2>6. ASSUME NEW p, EnableUserFactor(p)
        PROVE  UNCHANGED quotaVars
    BY <2>6 DEF EnableUserFactor
  <2>7. ASSUME NEW s, SeedBootstrapAdmin \/ RegisterStrategy(s) \/ Unregister(s)
        PROVE  UNCHANGED quotaVars
    BY <2>7 DEF SeedBootstrapAdmin, RegisterStrategy, Unregister
  <2>8. ASSUME NEW t, NEW r, RolesCanActivate(t, r)
        PROVE  UNCHANGED quotaVars
    BY <2>8 DEF RolesCanActivate
  <2> HIDE DEF quotaVars
  <2>9. UNCHANGED quotaVars
    BY <1>1, <2>1, <2>2, <2>3, <2>4, <2>5, <2>6, <2>7, <2>8 DEF AccountNext
  <2> QED
    BY <1>1, <2>9, AccountStep, QuotaStands
<1>2. CASE QuotaNext
  <2>1. UNCHANGED accountVars
    BY <1>2 DEF QuotaNext, QuotaTick, ConsumeQuota, accountVars
  <2> QED
    BY <1>2, <2>1, QuotaStep, AccountStands
<1>3. CASE UNCHANGED accessVars
  BY <1>3, QuotaStands, AccountStands DEF accessVars
<1> QED
  BY <1>1, <1>2, <1>3

LEMMA PlatformStep ==
    PlatformInv /\ [MCNext]_<<part, personVars, investmentVars, analysisVars>> => PlatformInv'
<1> SUFFICES ASSUME PlatformInv, [MCNext]_<<part, personVars, investmentVars, analysisVars>>
             PROVE  PlatformInv'
  OBVIOUS
<1>1. /\ AccountNext \/ QuotaNext \/ UNCHANGED accessVars
      /\ AuthNext \/ UNCHANGED authVars
      /\ OAuthNext \/ UNCHANGED oauthVars
      /\ ReviewNext \/ FetchPage \/ RankNext \/ UNCHANGED discoveryVars
  <2>1. CASE Accounting
    BY <2>1 DEF Accounting
  <2>2. CASE UNCHANGED personVars
    BY <2>2 DEF personVars
  <2> QED
    BY <2>1, <2>2 DEF MCNext
<1>2. AccountInv' /\ QuotaInv'
  BY <1>1, AccessSteps DEF PlatformInv
<1>3. TokenInv' /\ OAuthInv'
  BY <1>1, TokenStep, TokenStands, OAuthStep, OAuthStands DEF PlatformInv
<1>4. DiscoveryInv'
  BY <1>1, ReviewStep, FetchStep, RankStep, DiscoveryStands DEF PlatformInv
<1> QED
  BY <1>2, <1>3, <1>4 DEF PlatformInv

\* Whatever registrations, logins, role changes and requests overlap, an
\* address and a name belong to one account, a token to an account there is,
\* the guards of a route admit only an account that was granted a role the
\* route is open to (an administrator with the second factor on and verified),
\* and of one key no more than twice the limit pass in any span as long as a
\* window (auth.service, the guards of roles and QuotaGuard).
THEOREM AccessCorrect == MCSpec => []AccessIsSound
<1>1. PlatformInv => AccessIsSound
  BY DEF PlatformInv, AccountInv, QuotaInv, AccessIsSound
<1> QED
  BY <1>1, PlatformInitially, PlatformStep, PTL DEF MCSpec

\* A refresh token that was rotated names a stored successor, a token that was
\* logged out is not accepted before it expires, whatever the clean-up of the
\* blacklist does, and a provider's login is answered for a user the identity
\* was linked to (enhanced-auth, token-blacklist and the OAuth services).
THEOREM IdentityCorrect == MCSpec => []IdentityIsSound
<1>1. PlatformInv => IdentityIsSound
  BY DEF PlatformInv, TokenInv, OAuthInv, IdentityIsSound
<1> QED
  BY <1>1, PlatformInitially, PlatformStep, PTL DEF MCSpec

\* A client that walks the pages of an agent's reviews sees no review twice and
\* every newer one first, and misses one that was approved all along only in
\* the millisecond of a cursor, whatever is created, moderated and answered in
\* between; a user has one review of the agent; and no rounding or choice of
\* weights puts an agent above one that is better in everything
\* (CursorPaginationService, AgentReviewsService and AgentScoring).
THEOREM DiscoveryCorrect == MCSpec => []DiscoveryIsExact
<1>1. PlatformInv => DiscoveryIsExact
  BY DiscoveryIsSafe DEF PlatformInv
<1> QED
  BY <1>1, PlatformInitially, PlatformStep, PTL DEF MCSpec
=============================================================================
