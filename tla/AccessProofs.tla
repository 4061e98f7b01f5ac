---------------------------- MODULE AccessProofs ----------------------------
(***************************************************************************)
(* Who may do what, for any people, invites, keys, requests and workers:   *)
(* an administrator remains whoever signs up, is invited, promoted or      *)
(* disabled, and a connection of an app is one chain of tokens that only   *)
(* narrows.                                                                *)
(***************************************************************************)
EXTENDS Accounts, AppGrants, FiniteSetTheorems, SequenceTheorems, TLAPS

\* Accounts: an administrator remains.

Roles == Assignable \cup {"admin", "viewer", "public_manager"}
Account == [role : Roles, enabled : BOOLEAN]
Place == {"rest", "claim", "insert", "bind", "exchange", "lookup", "revoke", "change"}
Visit == [at : Place, email : Emails \cup {NoEmail}, role : Roles \cup {"none", "disabled"},
          invite : Invites \cup {NoInvite}, subject : Subjects \cup {NoSubject},
          flow : Flows \cup {NoFlow}, stale : BOOLEAN]
Flow == [mode : {"none", "login", "link"}, target : Emails \cup {NoEmail},
         invite : Invites \cup {NoInvite}, open : BOOLEAN]

RecordsTyped ==
    /\ invites \in [Invites -> {"none", "open", "used", "revoked"}]
    /\ identity \in [Subjects -> Emails \cup {NoEmail}]
    /\ flows \in [Flows -> Flow]
    /\ signup \in {"unset", "on", "off"}

\* The state is of its type: accounts have roles that can be given, and requests
\* and flows name accounts, invites and people there are.
AccountsTypeOK ==
    /\ users \in [Emails -> Account \cup {NoUser}]
    /\ visit \in [Desktops -> Visit]
    /\ outrun \in BOOLEAN /\ unattended \in BOOLEAN
    /\ RecordsTyped

Somebody == \E e \in Emails : Exists(e)

\* What the rest of a request relies on: a sign-up that began among users goes on
\* among users, the first one makes an admin, and an account change that nobody
\* has outrun leaves another admin or makes one.
Justified(v) ==
    /\ v.at \in {"exchange", "lookup"} => v.subject \in Subjects /\ v.flow \in Flows
    /\ v.at \in {"claim", "insert"} => v.email \in Emails /\ v.role \in Roles
    /\ v.at = "claim" => Somebody
    /\ v.at = "insert" => Somebody \/ v.role = "admin"
    /\ v.at = "change" =>
          /\ Exists(v.email) /\ v.role \in Assignable \cup {"disabled"}
          /\ ~v.stale => v.role = "admin" \/ \E a \in Admins : a # v.email

AccountsInv ==
    /\ AccountsTypeOK
    /\ AdminRemains
    /\ \A d \in Desktops : Justified(visit[d])

-----------------------------------------------------------------------------
(* Lemmas *)

\* An account that exists is one with a role.
LEMMA AccountsExist ==
    ASSUME AccountsTypeOK, NEW e \in Emails
    PROVE  /\ Exists(e) <=> users[e] \in Account
           /\ e \in Admins => Exists(e)
<1>1. users[e] \in Account \cup {NoUser} /\ NoUser \notin Account
  BY AccountsAssumption DEF AccountsTypeOK, Account, NoUser, Roles
<1>2. Exists(e) <=> users[e] \in Account
  BY <1>1, Zenon DEF Exists
<1>3. NoUser.role # "admin"
  BY DEF NoUser
<1> QED BY <1>2, <1>3, Zenon DEF Exists, Admins

\* Accounts are only added and admins only gained.
Grown ==
    /\ \A e \in Emails : Exists(e) => Exists(e)'
    /\ Admins \subseteq Admins'

\* What leaves the accounts alone takes none away.
LEMMA UnchangedGrows == UNCHANGED users => Grown
BY DEF Grown, Exists, Admins

\* Then a request goes on as justified as before.
LEMMA StillJustified ==
    ASSUME Grown, NEW v, Justified(v)
    PROVE  Justified(v)'
BY DEF Grown, Justified, Somebody, Exists

\* And an admin remains, unless nobody was there before.
LEMMA AdminStays ==
    ASSUME AdminRemains, Grown, UNCHANGED <<outrun, unattended>>,
           Somebody \/ UNCHANGED users
    PROVE  AdminRemains'
BY DEF AdminRemains, Grown, Somebody, Exists, Admins

\* A step of one request that leaves the accounts as they are.
LEMMA RequestGoesOn ==
    ASSUME AccountsInv, NEW d \in Desktops, NEW v \in Visit, Go(d, v), Justified(v),
           UNCHANGED <<users, outrun, unattended>>, RecordsTyped'
    PROVE  AccountsInv'
<1>1. Grown
  BY UnchangedGrows
<1>2. visit' \in [Desktops -> Visit] /\ AdminRemains'
  BY <1>1, AdminStays DEF Go, AccountsInv, AccountsTypeOK
<1>3. ASSUME NEW c \in Desktops PROVE Justified(visit[c])'
  <2>1. Justified(visit[c]) /\ visit'[c] = IF c = d THEN v ELSE visit[c]
    BY DEF AccountsInv, AccountsTypeOK, Go
  <2>2. Justified(v)' /\ (Justified(visit[c]) => Justified(visit'[c]))
    BY <2>1, UNCHANGED users DEF Justified, Somebody, Exists, Admins
  <2> QED BY <2>1, <2>2 DEF Justified, Somebody, Exists, Admins
<1>4. AccountsTypeOK'
  BY <1>2 DEF AccountsInv, AccountsTypeOK
<1> QED BY <1>2, <1>3, <1>4 DEF AccountsInv

\* What the gate lets through is justified: among users the sign-up goes on among
\* users, the first one makes an admin.
LEMMA GateJustifies ==
    ASSUME AccountsInv, NEW e \in Emails, NEW i \in Invites \cup {NoInvite},
           NEW g \in Gate(e, i), NEW v \in Visit,
           v.at = g.at, v.role = g.role, v.email = e
    PROVE  Justified(v)
<1>1. CASE \A u \in Emails : ~Exists(u)
  BY <1>1 DEF Gate, Justified, Roles
<1>2. CASE Somebody
  <2>1. \/ g.at = "claim" /\ i \in Invites /\ g.role = Invited[i].role
        \/ g.at = "insert" /\ g.role = "viewer"
    BY <1>2 DEF Gate, Somebody
  <2> QED BY <1>2, <2>1, AccountsAssumption DEF Justified, Roles
<1> QED BY <1>1, <1>2 DEF Somebody

\* The gate sends a new account on with one of the roles, to claim its invite or to be inserted.
LEMMA GateRole ==
    ASSUME NEW e \in Emails, NEW i \in Invites \cup {NoInvite}, NEW g \in Gate(e, i)
    PROVE  g.at \in {"claim", "insert"} /\ g.role \in Roles
BY AccountsAssumption DEF Gate, Roles

\* A request that rests or is over relies on nothing.
LEMMA AwayIsFine == Away \in Visit /\ Justified(Away)
BY DEF Away, Visit, Place, Justified

\* Initially there is nobody.
LEMMA InitialAccounts == AccountsInit => AccountsInv
<1> SUFFICES ASSUME AccountsInit PROVE AccountsInv
  OBVIOUS
<1>1. AccountsTypeOK
  BY AwayIsFine DEF AccountsInit, AccountsTypeOK, RecordsTyped, NotStarted, Flow
<1>2. AdminRemains
  BY DEF AccountsInit, AdminRemains, Exists
<1> QED BY <1>1, <1>2, AwayIsFine DEF AccountsInit, AccountsInv

-----------------------------------------------------------------------------
(* Signing up *)

\* A registration that passes the gate is justified by the users it saw.
LEMMA RegisterPreserves ==
    ASSUME AccountsInv, NEW d \in Desktops, NEW e \in Emails,
           NEW i \in Invites \cup {NoInvite}, Register(d, e, i)
    PROVE  AccountsInv'
<1>1. PICK g \in Gate(e, i) :
         Go(d, [Away EXCEPT !.at = g.at, !.email = e, !.role = g.role, !.invite = i])
  BY DEF Register
<1> DEFINE v == [Away EXCEPT !.at = g.at, !.email = e, !.role = g.role, !.invite = i]
<1>2. v \in Visit /\ v.at = g.at /\ v.role = g.role /\ v.email = e
  BY GateRole DEF Away, Visit, Place
<1>3. Justified(v)
  BY <1>2, GateJustifies
<1>4. RecordsTyped' /\ UNCHANGED <<users, outrun, unattended>>
  BY DEF Register, AccountsInv, AccountsTypeOK, RecordsTyped
<1> HIDE DEF v
<1> QED BY <1>1, <1>2, <1>3, <1>4, RequestGoesOn DEF v

\* Claiming an invite leaves the accounts as they are.
LEMMA ClaimPreserves ==
    ASSUME AccountsInv, NEW d \in Desktops, ClaimInvite(d)
    PROVE  AccountsInv'
<1> DEFINE v == [visit[d] EXCEPT !.at = "insert"]
<1>1. visit[d] \in Visit /\ Justified(visit[d]) /\ visit[d].at = "claim"
  BY DEF AccountsInv, AccountsTypeOK, ClaimInvite
<1>2. v \in Visit /\ Justified(v)
  BY <1>1 DEF Visit, Place, Justified
<1>3. PICK w \in {v, Away} : Go(d, w)
  BY DEF ClaimInvite
<1>4. RecordsTyped' /\ UNCHANGED <<users, outrun, unattended>>
  BY DEF AccountsInv, AccountsTypeOK, RecordsTyped, ClaimInvite
<1>5. w \in Visit /\ Justified(w)
  BY <1>2, <1>3, AwayIsFine
<1> QED BY <1>3, <1>4, <1>5, RequestGoesOn

\* Linking an identity to an account makes no account and no admin.
LEMMA LinkPreserves ==
    ASSUME AccountsInv, NEW d \in Desktops, LinkIdentity(d)
    PROVE  AccountsInv'
<1>1. visit[d] \in Visit
  BY DEF AccountsInv, AccountsTypeOK
<1>2. RecordsTyped' /\ UNCHANGED <<users, outrun, unattended>> /\ Go(d, Away)
  BY <1>1 DEF AccountsInv, AccountsTypeOK, RecordsTyped, LinkIdentity, Visit
<1> QED BY <1>2, AwayIsFine, RequestGoesOn

\* The one step of a sign-up that adds an account.
LEMMA InsertPreserves ==
    ASSUME AccountsInv, NEW d \in Desktops, InsertUser(d)
    PROVE  AccountsInv'
<1> DEFINE e == visit[d].email
           v == [visit[d] EXCEPT !.at = "bind"]
<1>1. /\ visit[d] \in Visit /\ Justified(visit[d]) /\ visit[d].at = "insert"
      /\ e \in Emails /\ visit[d].role \in Roles /\ AccountsTypeOK
  BY DEF AccountsInv, AccountsTypeOK, InsertUser, Justified
<1>2. v \in Visit /\ Justified(v)
  BY <1>1 DEF Visit, Place, Justified
<1>3. CASE Exists(e)
  <2>1. RecordsTyped' /\ UNCHANGED <<users, outrun, unattended>> /\ Go(d, Away)
    BY <1>3 DEF AccountsInv, AccountsTypeOK, RecordsTyped, InsertUser
  <2> QED BY <2>1, AwayIsFine, RequestGoesOn
<1>4. CASE ~Exists(e)
  <2> DEFINE new == [role |-> visit[d].role, enabled |-> TRUE]
  <2>1. users' = [users EXCEPT ![e] = new] /\ new \in Account /\ new # NoUser
    BY <1>1, <1>4 DEF InsertUser, Account, NoUser
  <2>2. PICK w \in {v, Away} : Go(d, w)
    BY <1>4 DEF InsertUser
  <2>3. AccountsTypeOK'
    BY <1>1, <1>2, <2>1, <2>2, AwayIsFine 
    DEF AccountsTypeOK, RecordsTyped, InsertUser, Go
  <2>4. users[e] = NoUser /\ e \notin Admins
    BY <1>1, <1>4 DEF Exists, Admins, NoUser
  <2>5. Grown
    BY <1>1, <2>1, <2>4 DEF Grown, Exists, Admins, AccountsTypeOK
  <2>6. AdminRemains'
    <3>1. CASE Somebody
      BY <2>5, <3>1, AdminStays DEF AccountsInv, InsertUser
    <3>2. CASE ~Somebody
      <4>1. visit[d].role = "admin"
        BY <1>1, <3>2 DEF Justified
      <4> QED BY <1>1, <2>1, <4>1 DEF AdminRemains, Admins, AccountsTypeOK
    <3> QED BY <3>1, <3>2
  <2>7. ASSUME NEW c \in Desktops PROVE Justified(visit[c])'
    <3>1. visit'[c] \in {visit[c], v, Away} /\ Justified(visit[c])
      BY <2>2 DEF Go, AccountsInv, AccountsTypeOK
    <3> QED BY <1>2, <2>5, <3>1, AwayIsFine, StillJustified DEF Justified
  <2> QED BY <2>3, <2>6, <2>7 DEF AccountsInv
<1> QED BY <1>3, <1>4

-----------------------------------------------------------------------------
(* Signing in through a provider *)

\* A callback only starts a request.
LEMMA CallbackPreserves ==
    ASSUME AccountsInv, NEW d \in Desktops, NEW f \in Flows, NEW s \in Subjects,
           Callback(d, f, s)
    PROVE  AccountsInv'
<1> DEFINE v == [Away EXCEPT !.at = "exchange", !.flow = f, !.subject = s,
                             !.invite = flows[f].invite]
<1>1. flows[f] \in Flow
  BY DEF AccountsInv, AccountsTypeOK, RecordsTyped
<1>2. v \in Visit /\ Justified(v)
  BY <1>1 DEF Away, Visit, Place, Flow, Justified
<1>3. RecordsTyped' /\ UNCHANGED <<users, outrun, unattended>> /\ Go(d, v)
  BY DEF AccountsInv, AccountsTypeOK, RecordsTyped, Callback
<1> HIDE DEF v
<1> QED BY <1>2, <1>3, RequestGoesOn

\* A flow is spent without a change of the accounts.
LEMMA ConsumePreserves ==
    ASSUME AccountsInv, NEW d \in Desktops, ConsumeFlow(d)
    PROVE  AccountsInv'
<1> DEFINE v == [visit[d] EXCEPT !.at = "lookup"]
<1>1. visit[d] \in Visit /\ Justified(visit[d]) /\ visit[d].at = "exchange"
  BY DEF AccountsInv, AccountsTypeOK, ConsumeFlow
<1>2. v \in Visit /\ Justified(v)
  BY <1>1 DEF Visit, Place, Justified
<1>3. PICK w \in {v, Away} : Go(d, w)
  BY DEF ConsumeFlow
<1>4. RecordsTyped' /\ UNCHANGED <<users, outrun, unattended>>
  BY DEF AccountsInv, AccountsTypeOK, RecordsTyped, ConsumeFlow, Flow
<1>5. w \in Visit /\ Justified(w)
  BY <1>2, <1>3, AwayIsFine
<1> QED BY <1>3, <1>4, <1>5, RequestGoesOn

\* The lookup finds an account, or passes the gate as a registration does.
LEMMA LookupPreserves ==
    ASSUME AccountsInv, NEW d \in Desktops, Lookup(d)
    PROVE  AccountsInv'
<1> DEFINE f == flows[visit[d].flow]
           e == SubjectEmail[visit[d].subject]
           linking == [visit[d] EXCEPT !.at = "bind", !.email = f.target]
           signing(g) == [visit[d] EXCEPT !.at = g.at, !.email = e, !.role = g.role]
<1>1. /\ visit[d] \in Visit
      /\ visit[d].subject \in Subjects /\ visit[d].flow \in Flows
  BY DEF AccountsInv, AccountsTypeOK, Lookup, Justified
<1>2. f \in Flow
  BY <1>1 DEF AccountsInv, AccountsTypeOK, RecordsTyped
<1>3. RecordsTyped' /\ UNCHANGED <<users, outrun, unattended>>
  BY DEF AccountsInv, AccountsTypeOK, RecordsTyped, Lookup
<1>4. \/ Go(d, Away)
      \/ Go(d, linking)
      \/ e # NoEmail /\ \E g \in Gate(e, f.invite) : Go(d, signing(g))
  BY DEF Lookup
<1>5. CASE Go(d, Away)
  BY <1>3, <1>5, AwayIsFine, RequestGoesOn
<1>6. CASE Go(d, linking)
  <2>1. linking \in Visit /\ Justified(linking)
    BY <1>1, <1>2 DEF Visit, Place, Flow, Justified
  <2> HIDE DEF linking
  <2> QED BY <1>3, <1>6, <2>1, RequestGoesOn
<1>7. CASE e # NoEmail /\ \E g \in Gate(e, f.invite) : Go(d, signing(g))
  <2>1. PICK g \in Gate(e, f.invite) : Go(d, signing(g))
    BY <1>7
  <2>2. e \in Emails /\ f.invite \in Invites \cup {NoInvite}
    BY <1>1, <1>2, <1>7, AccountsAssumption DEF Flow
  <2> HIDE DEF e, f
  <2>3. g.at \in {"claim", "insert"} /\ g.role \in Roles
    BY <2>2, GateRole
  <2>4. /\ signing(g) \in Visit /\ signing(g).at = g.at
        /\ signing(g).role = g.role /\ signing(g).email = e
    BY <1>1, <2>2, <2>3 DEF Visit, Place
  <2> HIDE DEF signing
  <2>5. Justified(signing(g))
    BY <2>2, <2>4, GateJustifies
  <2> QED BY <1>3, <2>1, <2>4, <2>5, RequestGoesOn
<1> QED BY <1>4, <1>5, <1>6, <1>7

\* A request that fails leaves nothing behind.
LEMMA DropPreserves ==
    ASSUME AccountsInv, NEW d \in Desktops, DropRequest(d)
    PROVE  AccountsInv'
<1>1. RecordsTyped' /\ UNCHANGED <<users, outrun, unattended>> /\ Go(d, Away)
  BY DEF AccountsInv, AccountsTypeOK, RecordsTyped, DropRequest
<1> QED BY <1>1, AwayIsFine, RequestGoesOn

-----------------------------------------------------------------------------
(* Administration *)

\* A step that touches neither the accounts nor a request.
LEMMA RecordsChange ==
    ASSUME AccountsInv, UNCHANGED <<users, visit, outrun, unattended>>, RecordsTyped'
    PROVE  AccountsInv'
<1>1. Grown
  BY UnchangedGrows
<1>2. AdminRemains'
  BY <1>1, AdminStays DEF AccountsInv
<1>3. ASSUME NEW c \in Desktops PROVE Justified(visit[c])'
  BY DEF AccountsInv, Justified, Somebody, Exists, Admins
<1>4. AccountsTypeOK'
  BY DEF AccountsInv, AccountsTypeOK
<1> QED BY <1>2, <1>3, <1>4 DEF AccountsInv

\* A new flow is no account.
LEMMA StartFlowPreserves ==
    ASSUME AccountsInv, NEW f \in Flows, NEW i \in Invites \cup {NoInvite},
           NEW target \in Emails \cup {NoEmail}, StartFlow(f, i, target)
    PROVE  AccountsInv'
<1> DEFINE start == [mode |-> IF target = NoEmail THEN "login" ELSE "link",
                     target |-> target, invite |-> i, open |-> TRUE]
<1>1. start \in Flow
  BY DEF Flow
<1>2. flows' = [flows EXCEPT ![f] = start] /\ UNCHANGED <<users, visit, outrun, unattended>>
  BY DEF StartFlow
<1>3. RecordsTyped'
  BY <1>1, <1>2 DEF AccountsInv, AccountsTypeOK, RecordsTyped, StartFlow
<1> QED BY <1>2, <1>3, RecordsChange

\* Asking to revoke an invite is only the start of a request.
LEMMA AskRevokePreserves ==
    ASSUME AccountsInv, NEW d \in Desktops, NEW i \in Invites, AskRevoke(d, i)
    PROVE  AccountsInv'
<1> DEFINE v == [Away EXCEPT !.at = "revoke", !.invite = i]
<1>1. v \in Visit /\ Justified(v)
  BY DEF Away, Visit, Place, Justified
<1>2. RecordsTyped' /\ UNCHANGED <<users, outrun, unattended>> /\ Go(d, v)
  BY DEF AccountsInv, AccountsTypeOK, RecordsTyped, AskRevoke
<1> HIDE DEF v
<1> QED BY <1>1, <1>2, RequestGoesOn

\* A revoked invite takes no account away.
LEMMA RevokePreserves ==
    ASSUME AccountsInv, NEW d \in Desktops, Revoke(d)
    PROVE  AccountsInv'
<1>1. RecordsTyped' /\ UNCHANGED <<users, outrun, unattended>> /\ Go(d, Away)
  BY DEF AccountsInv, AccountsTypeOK, RecordsTyped, Revoke
<1> QED BY <1>1, AwayIsFine, RequestGoesOn

\* With more than one admin there is another one.
LEMMA AnotherAdmin ==
    ASSUME NEW a, Cardinality(Admins) > 1
    PROVE  \E b \in Admins : b # a
<1> SUFFICES ASSUME \A b \in Admins : b = a PROVE FALSE
  OBVIOUS
<1>1. Admins = {} \/ Admins = {a}
  OBVIOUS
<1>2. Cardinality(Admins) = 0 \/ Cardinality(Admins) = 1
  BY <1>1, FS_EmptySet, FS_Singleton
<1> QED BY <1>2

\* What is asked for leaves an admin, or makes one.
LEMMA AskChangePreserves ==
    ASSUME AccountsInv, NEW d \in Desktops, NEW a \in Emails, NEW e \in Emails,
           NEW to \in Assignable \cup {"disabled"}, AskChange(d, a, e, to)
    PROVE  AccountsInv'
<1> DEFINE v == [Away EXCEPT !.at = "change", !.email = e, !.role = to]
<1>1. v \in Visit
  BY DEF Away, Visit, Place, Roles
<1>2. to = "admin" \/ \E b \in Admins : b # e
  BY AnotherAdmin DEF AskChange, MayChange
<1>3. v.at = "change" /\ v.email = e /\ v.role = to
  BY DEF Away
<1>4. RecordsTyped' /\ UNCHANGED <<users, outrun, unattended>> /\ Go(d, v) /\ Exists(e)
  BY DEF AccountsInv, AccountsTypeOK, RecordsTyped, AskChange
<1> HIDE DEF v
<1>5. Justified(v)
  BY <1>2, <1>3, <1>4 DEF Justified
<1> QED BY <1>1, <1>4, <1>5, RequestGoesOn

\* The one step that can take an admin away: none whose check still stands takes
\* the last one, and every other change under way is outrun by it.
LEMMA WriteChangePreserves ==
    ASSUME AccountsInv, NEW d \in Desktops, WriteChange(d)
    PROVE  AccountsInv'
<1> DEFINE e == visit[d].email
           to == visit[d].role
           new == IF to = "disabled" THEN [users[e] EXCEPT !.enabled = FALSE]
                  ELSE [users[e] EXCEPT !.role = to]
<1>1. /\ AccountsTypeOK /\ AdminRemains
      /\ Justified(visit[d]) /\ visit[d] \in Visit /\ visit[d].at = "change"
  BY DEF AccountsInv, AccountsTypeOK, WriteChange
<1>2. e \in Emails /\ Exists(e) /\ to \in Assignable \cup {"disabled"}
  BY <1>1 DEF Justified, Exists
<1>3. users[e] \in Account
  BY <1>1, <1>2, AccountsExist
<1>4. new \in Account /\ users' = [users EXCEPT ![e] = new]
  BY <1>2, <1>3 DEF Account, Roles, WriteChange
<1>5. new # NoUser
  BY <1>4, AccountsAssumption DEF Account, Roles, NoUser
<1>6. \A c \in Desktops :
         visit'[c] = IF c = d THEN Away
                     ELSE IF visit[c].at = "change" THEN [visit[c] EXCEPT !.stale = TRUE]
                     ELSE visit[c]
  BY DEF WriteChange
<1>7. ASSUME NEW c \in Desktops
      PROVE  /\ visit'[c] \in Visit
             /\ visit'[c].at = "change" => visit'[c].stale
             /\ Justified(visit'[c])
  <2>1. visit[c] \in Visit /\ Justified(visit[c])
    BY DEF AccountsInv, AccountsTypeOK
  <2>2. CASE c = d
    <3>1. Away.at # "change"
      BY DEF Away
    <3> QED BY <1>6, <2>2, <3>1, AwayIsFine
  <2>3. CASE c # d /\ visit[c].at = "change"
    <3> DEFINE w == [visit[c] EXCEPT !.stale = TRUE]
    <3>1. w \in Visit /\ w.at = "change" /\ w.stale
      BY <2>1, <2>3 DEF Visit
    <3>2. Justified(w)
      BY <2>1, <2>3, <3>1 DEF Visit, Justified
    <3> QED BY <1>6, <2>3, <3>1, <3>2
  <2>4. CASE c # d /\ visit[c].at # "change"
    BY <1>6, <2>1, <2>4
  <2> QED BY <2>2, <2>3, <2>4
<1> HIDE DEF new
<1>8. AccountsTypeOK'
  <2>1. visit' \in [Desktops -> Visit]
    BY <1>7 DEF WriteChange
  <2> QED BY <1>1, <1>2, <1>4, <2>1 DEF AccountsTypeOK, RecordsTyped, WriteChange, Visit
<1>9. \A u \in Emails : Exists(u) => Exists(u)'
  BY <1>1, <1>2, <1>4, <1>5 DEF AccountsTypeOK, Exists
<1>10. Admins \ {e} \subseteq Admins'
  BY <1>1, <1>2, <1>4 DEF AccountsTypeOK, Admins
<1>11. AdminRemains'
  <2> SUFFICES ASSUME ~outrun', ~unattended' PROVE Admins' # {}
    BY DEF AdminRemains
  <2>1. ~outrun /\ ~visit[d].stale /\ ~unattended
    BY <1>1 DEF WriteChange, AccountsTypeOK, Visit
  <2>2. CASE to = "admin"
    <3>1. PICK b \in Admins : TRUE
      BY <1>1, <1>2, <2>1 DEF AdminRemains
    <3>2. new.role = "admin" /\ new.enabled = users[e].enabled
      BY <1>3, <2>2 DEF new, Account
    <3>3. b = e => e \in Admins'
      BY <1>1, <1>2, <1>4, <3>1, <3>2 DEF AccountsTypeOK, Admins
    <3> QED BY <1>10, <3>1, <3>3
  <2>3. CASE to # "admin"
    <3>1. PICK b \in Admins : b # e
      BY <1>1, <2>1, <2>3 DEF Justified
    <3> QED BY <1>10, <3>1
  <2> QED BY <2>2, <2>3
<1>12. ASSUME NEW c \in Desktops PROVE Justified(visit[c])'
  BY <1>7, <1>9 DEF Justified, Somebody, Exists
<1> QED BY <1>8, <1>11, <1>12 DEF AccountsInv

\* An account is added or made an admin, or one that is no admin changes.
LEMMA AccountWritten ==
    ASSUME AccountsInv, NEW e \in Emails \cup {NoEmail}, NEW new \in Account,
           users' = [users EXCEPT ![e] = new],
           e \in Admins => new.role = "admin" /\ new.enabled
    PROVE  /\ users' \in [Emails -> Account \cup {NoUser}]
           /\ Grown
<1>1. users \in [Emails -> Account \cup {NoUser}]
  BY DEF AccountsInv, AccountsTypeOK
<1>2. new # NoUser
  BY AccountsAssumption DEF Account, Roles, NoUser
<1>3. users' \in [Emails -> Account \cup {NoUser}]
  BY <1>1
<1>4. \A u \in Emails : users'[u] = IF u = e THEN new ELSE users[u]
  BY <1>1
<1> QED BY <1>2, <1>3, <1>4 DEF Grown, Exists, Admins

\* The demo account is never an admin's: an admin whose address it has keeps the role.
LEMMA DemoOpenedGrows ==
    ASSUME NEW us \in [Emails -> Account \cup {NoUser}]
    PROVE  /\ DemoOpened(us) \in [Emails -> Account \cup {NoUser}]
           /\ \A e \in Emails : us[e] # NoUser => DemoOpened(us)[e] # NoUser
           /\ \A e \in Emails : us[e].role = "admin" => DemoOpened(us)[e] = us[e]
<1> DEFINE new == [role |-> "public_manager", enabled |-> TRUE]
<1>1. new \in Account /\ new # NoUser
  BY DEF Account, Roles, NoUser
<1>2. DemoOpened(us) = us \/ /\ DemoOpened(us) = [us EXCEPT ![DemoEmail] = new]
                             /\ DemoEmail \in Emails => us[DemoEmail].role # "admin"
  BY DEF DemoOpened
<1> HIDE DEF new
<1> QED BY <1>1, <1>2

\* The seeded account is an admin, and no other account is less than before.
LEMMA SeededGrows ==
    ASSUME users \in [Emails -> Account \cup {NoUser}]
    PROVE  /\ Seeded \in [Emails -> Account \cup {NoUser}]
           /\ \A e \in Emails : users[e] # NoUser => Seeded[e] # NoUser
           /\ \A e \in Admins : Seeded[e].role = "admin" /\ Seeded[e].enabled
           /\ \A e \in Emails : Seeded[e].role = "admin" =>
                  Seeded[e].enabled \/ Seeded[e] = users[e]
<1> DEFINE new == [role |-> "admin", enabled |-> TRUE]
<1>1. new \in Account /\ new # NoUser /\ new.role = "admin" /\ new.enabled
  BY AccountsAssumption DEF Account, Roles, NoUser
<1>2. Seeded = users \/ Seeded = [users EXCEPT ![Seed] = new]
  BY DEF Seeded
<1> HIDE DEF new
<1> QED BY <1>1, <1>2 DEF Admins

\* A boot takes no account away, and leaves somebody without an admin only if nobody was
\* there and the demo account is the first.
LEMMA BootPreserves ==
    ASSUME AccountsInv, NEW seeding \in BOOLEAN, NEW demo \in {"no", "open", "public"},
           Boot(seeding, demo)
    PROVE  AccountsInv'
<1>1. AccountsTypeOK /\ users \in [Emails -> Account \cup {NoUser}]
  BY DEF AccountsInv, AccountsTypeOK
<1>2. PICK us : us = IF seeding THEN Seeded ELSE users
  OBVIOUS
<1>3. /\ us \in [Emails -> Account \cup {NoUser}]
      /\ \A e \in Emails : users[e] # NoUser => us[e] # NoUser
      /\ \A e \in Admins : us[e].role = "admin" /\ us[e].enabled
      /\ \A e \in Emails : us[e].role = "admin" => us[e].enabled \/ us[e] = users[e]
  BY <1>1, <1>2, SeededGrows DEF Admins
<1>4. users' = us \/ users' = DemoOpened(us)
  BY <1>2 DEF Boot
<1>5. /\ users' \in [Emails -> Account \cup {NoUser}]
      /\ \A e \in Emails : us[e] # NoUser => users'[e] # NoUser
      /\ \A e \in Emails : us[e].role = "admin" => users'[e] = us[e]
  BY <1>3, <1>4, DemoOpenedGrows
<1>6. Grown
  <2>1. \A e \in Emails : Exists(e) => Exists(e)'
    BY <1>3, <1>5 DEF Exists
  <2>2. \A e \in Admins : e \in Admins'
    BY <1>3, <1>5 DEF Admins
  <2> QED BY <2>1, <2>2 DEF Grown
<1>7. UNCHANGED <<visit, outrun>> /\ RecordsTyped' /\ unattended' \in BOOLEAN
  BY <1>1 DEF Boot, AccountsTypeOK, RecordsTyped
<1>8. AccountsTypeOK'
  BY <1>1, <1>5, <1>7 DEF AccountsTypeOK
<1>9. AdminRemains'
  <2> SUFFICES ASSUME ~outrun', ~unattended', Somebody' PROVE Admins' # {}
    BY DEF AdminRemains, Somebody
  <2>1. ~outrun /\ ~unattended
    BY <1>1, <1>7 DEF Boot, AccountsTypeOK
  <2>2. CASE Somebody
    BY <1>6, <2>1, <2>2 DEF AccountsInv, AdminRemains, Somebody, Grown
  <2>3. CASE ~Somebody
    <3>1. PICK e \in Emails : users'[e].role = "admin"
      BY <2>3 DEF Boot, Somebody, Exists
    <3>2. us[e].role = "admin"
      <4>1. CASE users' = us
        BY <3>1, <4>1
      <4>2. CASE users' = DemoOpened(us)
        BY <3>1, <4>2, <1>3 DEF DemoOpened
      <4> QED BY <1>4, <4>1, <4>2
    <3>3. us[e].enabled
      <4>1. users[e] = NoUser
        BY <2>3 DEF Somebody, Exists
      <4>2. us[e] # users[e]
        BY <3>2, <4>1 DEF NoUser
      <4> QED BY <1>3, <3>2, <4>2
    <3> QED BY <1>5, <3>2, <3>3 DEF Admins
  <2> QED BY <2>2, <2>3
<1>10. ASSUME NEW c \in Desktops PROVE Justified(visit[c])'
  BY <1>6, <1>7, StillJustified DEF AccountsInv, Justified
<1> QED BY <1>8, <1>9, <1>10 DEF AccountsInv

\* Opening and closing the demo leaves every admin one.
LEMMA DemoPreserves ==
    ASSUME AccountsInv, OpenDemo \/ CloseDemo
    PROVE  AccountsInv'
<1>1. AccountsTypeOK /\ DemoEmail \in Emails \cup {NoEmail}
  BY AccountsAssumption DEF AccountsInv
<1>2. users' \in [Emails -> Account \cup {NoUser}] /\ Grown
  <2>1. CASE OpenDemo
    <3>1. /\ users' \in [Emails -> Account \cup {NoUser}]
          /\ \A e \in Emails : users[e] # NoUser => users'[e] # NoUser
          /\ \A e \in Emails : users[e].role = "admin" => users'[e] = users[e]
      BY <1>1, <2>1, DemoOpenedGrows DEF OpenDemo, AccountsTypeOK
    <3> QED BY <3>1 DEF Grown, Exists, Admins
  <2>2. CASE CloseDemo /\ DemoEmail \in Emails
    <3>1. users[DemoEmail] \in Account /\ DemoEmail \notin Admins
      BY <1>1, <2>2 DEF AccountsTypeOK, CloseDemo, NoUser, Admins
    <3>2. [users[DemoEmail] EXCEPT !.enabled = FALSE] \in Account
      BY <3>1 DEF Account
    <3>3. users' = [users EXCEPT ![DemoEmail] = [users[DemoEmail] EXCEPT !.enabled = FALSE]]
      BY <2>2 DEF CloseDemo
    <3> QED BY <1>1, <3>1, <3>2, <3>3, AccountWritten DEF AccountsTypeOK
  <2>3. CASE CloseDemo /\ DemoEmail \notin Emails
    <3>1. UNCHANGED users
      BY <1>1, <2>3 DEF CloseDemo, AccountsTypeOK
    <3> QED BY <1>1, <3>1, UnchangedGrows DEF AccountsTypeOK
  <2> QED BY <2>1, <2>2, <2>3
<1>3. Admins # {} /\ UNCHANGED <<visit, outrun, unattended>> /\ RecordsTyped'
  BY <1>1 DEF OpenDemo, CloseDemo, AccountsTypeOK, RecordsTyped
<1>4. AccountsTypeOK'
  BY <1>1, <1>3, <1>2 DEF AccountsTypeOK
<1>5. AdminRemains'
  BY <1>3, <1>2 DEF AdminRemains, Grown
<1>6. ASSUME NEW c \in Desktops PROVE Justified(visit[c])'
  BY <1>3, <1>2, StillJustified DEF AccountsInv, Justified
<1> QED BY <1>4, <1>5, <1>6 DEF AccountsInv

\* Invites and the sign-up setting decide on later accounts only.
LEMMA SettingsPreserve ==
    ASSUME AccountsInv,
           \/ \E i \in Invites : CreateInvite(i)
           \/ \E to \in {"on", "off"} : SetSignup(to)
    PROVE  AccountsInv'
<1>1. UNCHANGED <<users, visit, outrun, unattended>> /\ RecordsTyped'
  BY DEF CreateInvite, SetSignup, AccountsInv, AccountsTypeOK, RecordsTyped
<1> QED BY <1>1, RecordsChange

-----------------------------------------------------------------------------
(* Theorems *)

\* Every reachable state satisfies the inductive invariant.
THEOREM AccountsInvariant == AccountsSpec => []AccountsInv
<1>1. AccountsInit => AccountsInv
  BY InitialAccounts
<1>2. AccountsInv /\ [AccountsNext]_accountVars => AccountsInv'
  <2> SUFFICES ASSUME AccountsInv, [AccountsNext]_accountVars PROVE AccountsInv'
    OBVIOUS
  <2>1. CASE AccountsNext
    <3>1. CASE \E d \in Desktops : \E e \in Emails, i \in Invites \cup {NoInvite} :
                  Register(d, e, i)
      BY <3>1, RegisterPreserves
    <3>2. CASE \E d \in Desktops : ClaimInvite(d) \/ InsertUser(d) \/ LinkIdentity(d)
      BY <3>2, ClaimPreserves, InsertPreserves, LinkPreserves
    <3>3. CASE \E d \in Desktops : \E f \in Flows, s \in Subjects : Callback(d, f, s)
      BY <3>3, CallbackPreserves
    <3>4. CASE \E d \in Desktops : ConsumeFlow(d) \/ Lookup(d) \/ DropRequest(d)
      BY <3>4, ConsumePreserves, LookupPreserves, DropPreserves
    <3>5. CASE \E d \in Desktops : (\E i \in Invites : AskRevoke(d, i)) \/ Revoke(d)
      BY <3>5, AskRevokePreserves, RevokePreserves
    <3>6. CASE \E d \in Desktops : \E a, e \in Emails, to \in Assignable \cup {"disabled"} :
                  AskChange(d, a, e, to)
      BY <3>6, AskChangePreserves
    <3>7. CASE \E d \in Desktops : WriteChange(d)
      BY <3>7, WriteChangePreserves
    <3>8. CASE \/ \E f \in Flows, i \in Invites \cup {NoInvite} : StartFlow(f, i, NoEmail)
               \/ \E f \in Flows, e \in Emails : StartFlow(f, NoInvite, e)
      BY <3>8, StartFlowPreserves
    <3>9. CASE \/ \E seeding \in BOOLEAN, demo \in {"no", "open", "public"} :
                     Boot(seeding, demo)
               \/ OpenDemo \/ CloseDemo
               \/ \E i \in Invites : CreateInvite(i)
               \/ \E to \in {"on", "off"} : SetSignup(to)
      BY <3>9, BootPreserves, DemoPreserves, SettingsPreserve
    <3> QED BY <2>1, <3>1, <3>2, <3>3, <3>4, <3>5, <3>6, <3>7, <3>8, <3>9
            DEF AccountsNext
  <2>2. CASE UNCHANGED accountVars
    <3>1. RecordsTyped' /\ UNCHANGED <<users, visit, outrun, unattended>>
      BY <2>2 DEF accountVars, AccountsInv, AccountsTypeOK, RecordsTyped
    <3> QED BY <3>1, RecordsChange
  <2> QED BY <2>1, <2>2
<1> QED BY <1>1, <1>2, PTL DEF AccountsSpec

\* "Cannot demote the only admin", "Cannot disable yourself": once there are
\* accounts an admin can sign in, for any number of requests that sign up, link,
\* invite and administer beside each other and processes that start, unless one
\* account change was written between the checks and the write of another, or the
\* account of the public demo was the first.
THEOREM AnAdminRemains == AccountsSpec => []AdminRemains
<1>1. AccountsInv => AdminRemains
  BY DEF AccountsInv
<1> QED BY <1>1, AccountsInvariant, PTL

-----------------------------------------------------------------------------
\* AppGrants: a connection is one chain.

Grant == [owner : Owners, rank : Ranks, scope : SUBSET Ranks, revoked : BOOLEAN]
Token == [scope : SUBSET Ranks, spent : BOOLEAN, expired : BOOLEAN, seen : 0..2]

\* The shape of one chain: every token but the last is spent, each has a scope,
\* within that of the one before it.
Narrowing(c) ==
    /\ c \in Seq(Token)
    /\ \A n \in 1..Len(c) :
          /\ c[n].scope # {}
          /\ n < Len(c) => c[n].spent
          /\ n > 1 => c[n].scope \subseteq c[n - 1].scope

\* Changing one token without its scope keeps the shape, once spent always spent.
LEMMA TokenReplaced ==
    ASSUME NEW c, Narrowing(c), NEW n \in 1..Len(c), NEW p \in Token,
           p.scope = c[n].scope, c[n].spent => p.spent
    PROVE  LET to == [c EXCEPT ![n] = p]
           IN  /\ Narrowing(to) /\ Len(to) = Len(c)
               /\ \A m \in 1..Len(c) : to[m] = IF m = n THEN p ELSE c[m]
<1> DEFINE to == [c EXCEPT ![n] = p]
<1>1. c \in Seq(Token) /\ Len(c) \in Nat
  BY DEF Narrowing
<1>2. /\ to \in Seq(Token) /\ Len(to) = Len(c)
      /\ \A m \in 1..Len(c) : to[m] = IF m = n THEN p ELSE c[m]
  BY <1>1, ExceptSeq
<1> HIDE DEF to
<1>3. ASSUME NEW m \in 1..Len(to)
      PROVE  /\ to[m].scope # {}
             /\ m < Len(to) => to[m].spent
             /\ m > 1 => to[m].scope \subseteq to[m - 1].scope
  <2>1. to[m].scope = c[m].scope /\ (c[m].spent => to[m].spent)
    BY <1>2
  <2>2. m > 1 => to[m - 1].scope = c[m - 1].scope
    BY <1>1, <1>2
  <2> QED BY <1>1, <1>2, <2>1, <2>2 DEF Narrowing
<1>4. Narrowing(to)
  BY <1>2, <1>3 DEF Narrowing
<1> QED BY <1>2, <1>4 DEF to

\* So does exchanging the last token, once spent, for a pair within its scope.
LEMMA TokenIssued ==
    ASSUME NEW c, Narrowing(c), NEW p \in Token, p.scope # {},
           Len(c) > 0 => c[Len(c)].spent /\ p.scope \subseteq c[Len(c)].scope
    PROVE  LET to == Append(c, p)
           IN  /\ Narrowing(to) /\ Len(to) = Len(c) + 1
               /\ \A m \in 1..Len(to) : to[m] = IF m > Len(c) THEN p ELSE c[m]
<1> DEFINE to == Append(c, p)
<1>1. c \in Seq(Token) /\ Len(c) \in Nat
  BY DEF Narrowing
<1>2. /\ to \in Seq(Token) /\ Len(to) = Len(c) + 1
      /\ \A m \in 1..Len(to) : to[m] = IF m > Len(c) THEN p ELSE c[m]
  BY <1>1, AppendProperties
<1> HIDE DEF to
<1>3. ASSUME NEW m \in 1..Len(to)
      PROVE  /\ to[m].scope # {}
             /\ m < Len(to) => to[m].spent
             /\ m > 1 => to[m].scope \subseteq to[m - 1].scope
  <2>1. CASE m <= Len(c)
    BY <1>1, <1>2, <2>1 DEF Narrowing
  <2>2. CASE m = Len(c) + 1
    BY <1>1, <1>2, <2>2
  <2> QED BY <1>1, <1>2, <2>1, <2>2
<1>4. Narrowing(to)
  BY <1>2, <1>3 DEF Narrowing
<1> QED BY <1>2, <1>4 DEF to

\* The largest of some ranks is one of them, and what is within has none larger.
LEMMA LargestRank ==
    ASSUME NEW S \in SUBSET Ranks, S # {}
    PROVE  Max(S) \in S /\ \A y \in S : Max(S) >= y
<1>1. \A x \in S : x \in 1..3
  BY GrantAssumption
<1>2. \E x \in S : \A y \in S : x >= y
  <2>1. CASE 3 \in S
    BY <1>1, <2>1
  <2>2. CASE 3 \notin S /\ 2 \in S
    BY <1>1, <2>2
  <2>3. CASE 3 \notin S /\ 2 \notin S
    <3>1. \A x \in S : x = 1
      BY <1>1, <2>3
    <3> QED BY <3>1
  <2> QED BY <2>1, <2>2, <2>3
<1> QED BY <1>2 DEF Max

\* The lesser of two numbers.
LEMMA LesserOf ==
    ASSUME NEW a \in Int, NEW b \in Int
    PROVE  Min({a, b}) = IF a <= b THEN a ELSE b
<1>1. \E x \in {a, b} : \A y \in {a, b} : x =< y
  OBVIOUS
<1>2. Min({a, b}) \in {a, b} /\ \A y \in {a, b} : Min({a, b}) =< y
  BY <1>1 DEF Min
<1> QED BY <1>2

-----------------------------------------------------------------------------
(* The inductive invariant *)

Claim == [at : {"rest", "claim"}, key : Keys \cup {NoGrant}, nth : Nat, scope : SUBSET Ranks]

\* The state is of its type: keys belong to users, with a rank there is, and
\* requests wait with the ranks an app asked for.
GrantTypeOK ==
    /\ apps \in [Asks -> (SUBSET Ranks) \cup {Answered}]
    /\ keyring \in [Keys -> Grant \cup {NoGrant}]
    /\ chain \in [Keys -> Seq(Token)]
    /\ live \in [Owners -> Ranks \cup {0}]
    /\ redeem \in [TokenWorkers -> Claim]

\* Tokens of key k, held or not, narrow; while the key is held they stay within
\* what was approved, and while it works no refresh token was answered twice.
KeyInOrder(k) ==
    /\ Narrowing(chain[k])
    /\ Held(k) => \A n \in 1..Len(chain[k]) : chain[k][n].scope \subseteq keyring[k].scope
    /\ Held(k) /\ ~keyring[k].revoked =>
          \A n \in 1..Len(chain[k]) : n > 1 => chain[k][n].seen <= 1

\* A worker claims a token there is, for some of its scope.
ClaimInOrder(r) ==
    r.at = "claim" =>
        /\ r.key \in Keys /\ r.nth \in 1..Len(chain[r.key])
        /\ r.scope # {} /\ r.scope \subseteq chain[r.key][r.nth].scope

GrantInv ==
    /\ GrantTypeOK
    /\ \A k \in Keys : KeyInOrder(k)
    /\ \A w \in TokenWorkers : ClaimInOrder(redeem[w])

\* Without keys every chain is in order.
LEMMA InitialGrants == GrantInit => GrantInv
<1> SUFFICES ASSUME GrantInit PROVE GrantInv
  OBVIOUS
<1>1. <<>> \in Seq(Token) /\ Len(<<>>) = 0
  BY EmptySeq
<1>2. Waiting \in Claim /\ Waiting.at = "rest"
  BY DEF Waiting, Claim
<1>3. GrantTypeOK
  BY <1>1, <1>2 DEF GrantInit, GrantTypeOK
<1>4. ASSUME NEW k \in Keys PROVE KeyInOrder(k)
  BY <1>1 DEF GrantInit, KeyInOrder, Narrowing, Held
<1>5. ASSUME NEW w \in TokenWorkers PROVE ClaimInOrder(redeem[w])
  BY <1>2 DEF GrantInit, ClaimInOrder
<1> QED BY <1>3, <1>4, <1>5 DEF GrantInv

\* Tokens are never taken back and keep their scope.
Lasting ==
    \A k \in Keys :
        /\ Len(chain[k]) \in Nat /\ Len(chain'[k]) \in Nat /\ Len(chain[k]) <= Len(chain'[k])
        /\ \A n \in 1..Len(chain[k]) : chain'[k][n].scope = chain[k][n].scope

\* What a claim relies on stays true while chains only grow and are spent.
LEMMA ClaimLasts ==
    ASSUME Lasting, NEW r, ClaimInOrder(r)
    PROVE  ClaimInOrder(r)'
BY DEF Lasting, ClaimInOrder

\* A step that issues no token and answers none.
LEMMA ChainsStand ==
    ASSUME GrantInv, UNCHANGED chain
    PROVE  /\ Lasting
           /\ \A w \in TokenWorkers : redeem'[w] = redeem[w] => ClaimInOrder(redeem[w])'
           /\ \A k \in Keys : UNCHANGED keyring[k] => KeyInOrder(k)'
<1>1. \A k \in Keys : Len(chain[k]) \in Nat
  BY DEF GrantInv, GrantTypeOK
<1>2. Lasting
  BY <1>1 DEF Lasting
<1>3. ASSUME NEW w \in TokenWorkers, redeem'[w] = redeem[w]
      PROVE  ClaimInOrder(redeem[w])'
  BY <1>2, <1>3, ClaimLasts DEF GrantInv, ClaimInOrder
<1>4. ASSUME NEW k \in Keys, UNCHANGED keyring[k]
      PROVE  KeyInOrder(k)'
  BY <1>4 DEF GrantInv, KeyInOrder, Narrowing, Held
<1> QED BY <1>2, <1>3, <1>4

-----------------------------------------------------------------------------
(* Keys and approvals *)

\* A step on keys, users and requests: a key may be new, if it never had a token,
\* and otherwise keeps its scope, and is revoked for good.
LEMMA KeysPreserve ==
    ASSUME GrantInv, UNCHANGED <<chain, redeem>>, GrantTypeOK',
           \A k \in Keys :
              \/ UNCHANGED keyring[k]
              \/ chain[k] = <<>>
              \/ ~Held(k)'
              \/ Held(k) /\ keyring'[k].scope = keyring[k].scope /\ keyring'[k].revoked
    PROVE  GrantInv'
<1>1. ASSUME NEW k \in Keys PROVE KeyInOrder(k)'
  <2>1. KeyInOrder(k)
    BY DEF GrantInv
  <2>2. CASE UNCHANGED keyring[k]
    BY <2>2, ChainsStand
  <2>3. CASE chain[k] = <<>>
    BY <2>1, <2>3 DEF KeyInOrder, Narrowing
  <2>4. CASE ~Held(k)'
    BY <2>1, <2>4 DEF KeyInOrder, Narrowing
  <2>5. CASE Held(k) /\ keyring'[k].scope = keyring[k].scope /\ keyring'[k].revoked
    BY <2>1, <2>5 DEF KeyInOrder, Narrowing
  <2> QED BY <2>2, <2>3, <2>4, <2>5
<1>2. ASSUME NEW w \in TokenWorkers PROVE ClaimInOrder(redeem[w])'
  BY ChainsStand
<1> QED BY <1>1, <1>2 DEF GrantInv

\* A new key begins a chain of one pair.
LEMMA CreateKeyPreserves ==
    ASSUME GrantInv, NEW u \in Owners, NEW k \in Keys, NEW rank \in Ranks,
           CreateKey(u, k, rank)
    PROVE  GrantInv'
<1>1. [owner |-> u, rank |-> rank, scope |-> {}, revoked |-> FALSE] \in Grant
  BY DEF Grant
<1>2. GrantTypeOK'
  BY <1>1 DEF CreateKey, GrantInv, GrantTypeOK
<1>3. \A j \in Keys : UNCHANGED keyring[j] \/ chain[j] = <<>>
  BY DEF CreateKey, GrantInv, GrantTypeOK
<1>4. UNCHANGED <<chain, redeem>>
  BY DEF CreateKey
<1> QED BY <1>2, <1>3, <1>4, KeysPreserve

\* A revoked key keeps its chain.
LEMMA RevokeKeyPreserves ==
    ASSUME GrantInv, NEW k \in Keys, RevokeKey(k)
    PROVE  GrantInv'
<1>1. keyring[k] \in Grant
  BY DEF RevokeKey, Held, GrantInv, GrantTypeOK
<1>2. [keyring[k] EXCEPT !.revoked = TRUE] \in Grant
  BY <1>1 DEF Grant
<1>3. GrantTypeOK'
  BY <1>2 DEF RevokeKey, GrantInv, GrantTypeOK
<1>4. \A j \in Keys :
         \/ UNCHANGED keyring[j]
         \/ Held(j) /\ keyring'[j].scope = keyring[j].scope /\ keyring'[j].revoked
  BY <1>1 DEF RevokeKey, GrantInv, GrantTypeOK, Grant
<1>5. UNCHANGED <<chain, redeem>>
  BY DEF RevokeKey
<1> QED BY <1>3, <1>4, <1>5, KeysPreserve

\* A deleted key takes its chain with it.
LEMMA DeleteKeyPreserves ==
    ASSUME GrantInv, NEW k \in Keys, DeleteKey(k)
    PROVE  GrantInv'
<1>1. GrantTypeOK' /\ UNCHANGED <<chain, redeem>>
  BY DEF DeleteKey, GrantInv, GrantTypeOK
<1>2. \A j \in Keys : UNCHANGED keyring[j] \/ ~Held(j)'
  BY DEF DeleteKey, GrantInv, GrantTypeOK, Held
<1> QED BY <1>1, <1>2, KeysPreserve

\* Roles, requests of apps and refusals leave keys and tokens alone.
LEMMA AsidePreserves ==
    ASSUME GrantInv,
           \/ \E u \in Owners, rank \in Ranks \cup {0} : ChangeLive(u, rank)
           \/ \E q \in Asks : Deny(q) \/ \E scope \in SUBSET Ranks : Authorize(q, scope)
           \/ UNCHANGED grantVars
    PROVE  GrantInv'
<1>1. UNCHANGED <<keyring, chain, redeem>>
  BY DEF ChangeLive, Deny, Authorize, grantVars
<1>2. live' \in [Owners -> Ranks \cup {0}]
  BY DEF GrantInv, GrantTypeOK, ChangeLive, Deny, Authorize, grantVars
<1>3. apps' \in [Asks -> (SUBSET Ranks) \cup {Answered}]
  <2>1. CASE UNCHANGED apps
    BY <2>1 DEF GrantInv, GrantTypeOK
  <2>2. ASSUME NEW q \in Asks, NEW to \in (SUBSET Ranks) \cup {Answered},
               apps' = [apps EXCEPT ![q] = to]
        PROVE  apps' \in [Asks -> (SUBSET Ranks) \cup {Answered}]
    BY <2>2 DEF GrantInv, GrantTypeOK
  <2> QED BY <2>1, <2>2 DEF ChangeLive, Deny, Authorize, grantVars
<1>4. GrantTypeOK'
  BY <1>1, <1>2, <1>3 DEF GrantInv, GrantTypeOK
<1> QED BY <1>1, <1>4, KeysPreserve

\* An approved key starts a chain of one code, for what its rank covers.
LEMMA ApprovePreserves ==
    ASSUME GrantInv, NEW q \in Asks, NEW u \in Owners, NEW k \in Keys, NEW rank \in Ranks,
           Approve(q, u, k, rank)
    PROVE  GrantInv'
<1> DEFINE scope == Granted(apps[q], rank)
           code == Pair(scope)
           key == [owner |-> u, rank |-> rank, revoked |-> FALSE, scope |-> scope]
<1>1. GrantTypeOK /\ apps[q] \in SUBSET Ranks
  <2>1. GrantTypeOK /\ apps[q] \in (SUBSET Ranks) \cup {Answered}
    BY DEF GrantInv, GrantTypeOK
  <2>2. apps[q] # Answered
    BY DEF Approve, Unanswered
  <2> QED BY <2>1, <2>2, Zenon
<1>2. scope \in SUBSET Ranks /\ scope # {}
  BY <1>1, GrantAssumption DEF Granted
<1> HIDE DEF scope
<1>3. code \in Token /\ code.scope = scope /\ key \in Grant /\ key.scope = scope
  BY <1>2 DEF Token, Pair, Grant
<1>4. /\ chain[k] = <<>> /\ UNCHANGED redeem
      /\ chain' = [chain EXCEPT ![k] = <<code>>]
      /\ keyring' = [keyring EXCEPT ![k] = key]
      /\ apps' = [apps EXCEPT ![q] = Answered] /\ UNCHANGED live
  BY DEF Approve, scope
<1> HIDE DEF code, key
<1>5. <<code>> \in Seq(Token) /\ Len(<<code>>) = 1 /\ <<code>>[1] = code
  BY <1>3
<1>6. GrantTypeOK'
  <2>1. keyring' \in [Keys -> Grant \cup {NoGrant}] /\ chain' \in [Keys -> Seq(Token)]
    BY <1>1, <1>3, <1>4, <1>5 DEF GrantTypeOK
  <2>2. apps' \in [Asks -> (SUBSET Ranks) \cup {Answered}]
    BY <1>1, <1>4 DEF GrantTypeOK
  <2> QED BY <1>1, <1>4, <2>1, <2>2 DEF GrantTypeOK
<1>7. KeyInOrder(k)'
  BY <1>1, <1>2, <1>3, <1>4, <1>5 DEF GrantTypeOK, KeyInOrder, Narrowing
<1>8. ASSUME NEW j \in Keys PROVE KeyInOrder(j)'
  <2>1. CASE j = k
    BY <1>7, <2>1
  <2>2. CASE j # k
    <3>1. chain'[j] = chain[j] /\ keyring'[j] = keyring[j]
      BY <1>1, <1>4, <2>2 DEF GrantTypeOK
    <3> QED BY <3>1 DEF GrantInv, KeyInOrder, Narrowing, Held
  <2> QED BY <2>1, <2>2
<1>9. Lasting
  BY <1>1, <1>4, <1>5 DEF Lasting, GrantTypeOK
<1>10. ASSUME NEW w \in TokenWorkers PROVE ClaimInOrder(redeem[w])'
  BY <1>4, <1>9, ClaimLasts DEF GrantInv, ClaimInOrder
<1> QED BY <1>6, <1>8, <1>10 DEF GrantInv

-----------------------------------------------------------------------------
(* The token endpoint *)

\* A step on the chain of key k that narrows it still, keeps the scopes of the
\* tokens there are, and touches no other key.
LEMMA ChainPreserves ==
    ASSUME GrantInv, NEW k \in Keys, NEW to, chain' = [chain EXCEPT ![k] = to],
           Narrowing(to), Len(chain[k]) <= Len(to),
           \A n \in 1..Len(chain[k]) : to[n].scope = chain[k][n].scope,
           keyring' \in [Keys -> Grant \cup {NoGrant}],
           \A j \in Keys : j # k => keyring'[j] = keyring[j],
           Held(k)' => \A n \in 1..Len(to) : to[n].scope \subseteq keyring'[k].scope,
           Held(k)' /\ ~keyring'[k].revoked => \A n \in 1..Len(to) : n > 1 => to[n].seen <= 1,
           redeem' \in [TokenWorkers -> Claim],
           \A w \in TokenWorkers :
              redeem'[w] = redeem[w] \/ ClaimInOrder(redeem'[w]),
           UNCHANGED <<apps, live>>
    PROVE  GrantInv'
<1>1. GrantTypeOK /\ to \in Seq(Token)
  BY DEF GrantInv, Narrowing
<1>2. \A j \in Keys : chain'[j] = IF j = k THEN to ELSE chain[j]
  BY <1>1 DEF GrantTypeOK
<1>3. GrantTypeOK'
  BY <1>1 DEF GrantTypeOK
<1>4. Lasting
  BY <1>1, <1>2 DEF Lasting, GrantTypeOK
<1>5. ASSUME NEW j \in Keys PROVE KeyInOrder(j)'
  <2>1. CASE j = k
    BY <1>2, <2>1 DEF KeyInOrder, Narrowing
  <2>2. CASE j # k
    <3>1. chain'[j] = chain[j] /\ keyring'[j] = keyring[j] /\ KeyInOrder(j)
      BY <1>2, <2>2 DEF GrantInv
    <3> QED BY <3>1 DEF KeyInOrder, Narrowing, Held
  <2> QED BY <2>1, <2>2
<1>6. ASSUME NEW w \in TokenWorkers PROVE ClaimInOrder(redeem[w])'
  <2>1. ClaimInOrder(redeem'[w])
    BY DEF GrantInv
  <2> QED BY <1>4, <2>1, ClaimLasts DEF ClaimInOrder
<1> QED BY <1>3, <1>5, <1>6 DEF GrantInv

\* A replay ends the connection.
LEMMA FamilyRevoked ==
    ASSUME GrantInv, NEW k \in Keys, RevokeFamily(k)
    PROVE  /\ keyring' \in [Keys -> Grant \cup {NoGrant}]
           /\ \A j \in Keys : j # k => keyring'[j] = keyring[j]
           /\ Held(k)' => Held(k) /\ keyring'[k].scope = keyring[k].scope
           /\ Held(k)' => keyring'[k].revoked
<1>1. keyring \in [Keys -> Grant \cup {NoGrant}]
  BY DEF GrantInv, GrantTypeOK
<1>2. CASE ~Held(k)
  BY <1>1, <1>2 DEF RevokeFamily, Held
<1>3. CASE Held(k)
  <2> DEFINE key == [keyring[k] EXCEPT !.revoked = TRUE]
  <2>1. keyring[k] \in Grant
    BY <1>1, <1>3 DEF Held
  <2>2. key \in Grant /\ key.scope = keyring[k].scope /\ key.revoked
    BY <2>1 DEF Grant
  <2>3. keyring' = [keyring EXCEPT ![k] = key]
    BY <1>3 DEF RevokeFamily
  <2> HIDE DEF key
  <2> QED BY <1>1, <1>3, <2>2, <2>3
<1> QED BY <1>2, <1>3

\* A worker that is done has nothing to claim.
LEMMA WorkerDone ==
    ASSUME GrantInv, NEW w \in TokenWorkers, redeem' = [redeem EXCEPT ![w] = Waiting]
    PROVE  /\ redeem' \in [TokenWorkers -> Claim]
           /\ \A v \in TokenWorkers : redeem'[v] = redeem[v] \/ ClaimInOrder(redeem'[v])
<1>1. Waiting \in Claim /\ Waiting.at = "rest"
  BY DEF Waiting, Claim
<1>2. redeem \in [TokenWorkers -> Claim]
  BY DEF GrantInv, GrantTypeOK
<1>3. redeem' \in [TokenWorkers -> Claim]
  BY <1>1, <1>2
<1>4. \A v \in TokenWorkers : redeem'[v] = IF v = w THEN Waiting ELSE redeem[v]
  BY <1>2
<1> QED BY <1>1, <1>3, <1>4 DEF ClaimInOrder

\* A code may be answered again; a refresh token that is ends the connection.
LEMMA AnswerPreserves ==
    ASSUME GrantInv, NEW w \in TokenWorkers, NEW k \in Keys, NEW n \in 1..Len(chain[k]),
           Answer(w, k, n), IF Refresh(n) THEN RevokeFamily(k) ELSE UNCHANGED keyring,
           UNCHANGED <<apps, live>>
    PROVE  GrantInv'
<1> DEFINE old == chain[k][n]
           p == [old EXCEPT !.seen = IF @ < 2 THEN @ + 1 ELSE @]
           to == [chain[k] EXCEPT ![n] = p]
<1>1. /\ KeyInOrder(k) /\ Narrowing(chain[k])
      /\ chain \in [Keys -> Seq(Token)] /\ Len(chain[k]) \in Nat
      /\ keyring \in [Keys -> Grant \cup {NoGrant}]
  BY DEF GrantInv, GrantTypeOK, KeyInOrder
<1>2. old \in Token
  BY <1>1
<1>3. p \in Token /\ p.scope = old.scope /\ p.spent = old.spent
  BY <1>2 DEF Token
<1>4. chain' = [chain EXCEPT ![k] = to] /\ redeem' = [redeem EXCEPT ![w] = Waiting]
  BY DEF Answer
<1> HIDE DEF p, old
<1>5. /\ Narrowing(to) /\ Len(to) = Len(chain[k])
      /\ \A m \in 1..Len(chain[k]) : to[m] = IF m = n THEN p ELSE chain[k][m]
  BY <1>1, <1>3, TokenReplaced DEF old
<1> HIDE DEF to
<1>6. \A m \in 1..Len(chain[k]) : to[m].scope = chain[k][m].scope
  BY <1>3, <1>5 DEF old
<1>7. /\ keyring' \in [Keys -> Grant \cup {NoGrant}]
      /\ \A j \in Keys : j # k => keyring'[j] = keyring[j]
      /\ Held(k)' => Held(k) /\ keyring'[k].scope = keyring[k].scope
  BY <1>1, FamilyRevoked DEF Held
<1>8. Held(k)' => \A m \in 1..Len(to) : to[m].scope \subseteq keyring'[k].scope
  BY <1>1, <1>5, <1>6, <1>7 DEF KeyInOrder
<1>9. Held(k)' /\ ~keyring'[k].revoked => \A m \in 1..Len(to) : m > 1 => to[m].seen <= 1
  <2>1. CASE Refresh(n)
    BY <2>1, FamilyRevoked
  <2>2. CASE ~Refresh(n)
    <3>1. n = 1 /\ keyring' = keyring
      BY <1>1, <2>2 DEF Refresh
    <3>2. \A m \in 1..Len(to) : m > 1 => to[m] = chain[k][m]
      BY <1>5, <3>1
    <3> QED BY <1>1, <1>5, <3>1, <3>2 DEF KeyInOrder, Held
  <2> QED BY <2>1, <2>2
<1>10. /\ redeem' \in [TokenWorkers -> Claim]
       /\ \A v \in TokenWorkers : redeem'[v] = redeem[v] \/ ClaimInOrder(redeem'[v])
  BY <1>4, WorkerDone
<1>11. Len(chain[k]) <= Len(to)
  BY <1>1, <1>5
<1> QED BY <1>4, <1>5, <1>6, <1>7, <1>8, <1>9, <1>10, <1>11, ChainPreserves

\* Reading a token, and the scope asked for, is all a claim needs.
LEMMA ReadTokenPreserves ==
    ASSUME GrantInv, NEW w \in TokenWorkers, NEW k \in Keys, NEW n \in 1..MaxTokens,
           NEW scope \in SUBSET Ranks, ReadToken(w, k, n, scope)
    PROVE  GrantInv'
<1>1. chain[k] \in Seq(Token) /\ n \in 1..Len(chain[k])
  BY DEF GrantInv, GrantTypeOK, ReadToken
<1>2. CASE chain[k][n].spent
  BY <1>1, <1>2, AnswerPreserves DEF ReadToken
<1>3. CASE ~chain[k][n].spent
  <2> DEFINE r == [at |-> "claim", key |-> k, nth |-> n, scope |-> scope]
  <2>1. r \in Claim /\ ClaimInOrder(r)
    BY <1>1, <1>3 DEF Claim, ClaimInOrder, ReadToken
  <2>2. redeem' = [redeem EXCEPT ![w] = r] /\ UNCHANGED <<apps, keyring, chain, live>>
    BY <1>3 DEF ReadToken
  <2> HIDE DEF r
  <2>3. GrantTypeOK'
    BY <2>1, <2>2 DEF GrantInv, GrantTypeOK
  <2>4. \A j \in Keys : KeyInOrder(j)'
    BY <2>2, ChainsStand
  <2>5. ASSUME NEW v \in TokenWorkers PROVE ClaimInOrder(redeem[v])'
    <3>1. redeem'[v] = IF v = w THEN r ELSE redeem[v]
      BY <2>2 DEF GrantInv, GrantTypeOK
    <3> QED BY <2>1, <2>2, <3>1 DEF GrantInv, ClaimInOrder
  <2> QED BY <2>3, <2>4, <2>5 DEF GrantInv
<1> QED BY <1>2, <1>3

\* The token that is claimed is the last one, so the next pair goes behind it,
\* within its scope; whoever comes late answers a token that is spent.
LEMMA ClaimTokenPreserves ==
    ASSUME GrantInv, NEW w \in TokenWorkers, ClaimToken(w)
    PROVE  GrantInv'
<1> PICK k, n, scope : k = redeem[w].key /\ n = redeem[w].nth /\ scope = redeem[w].scope
  OBVIOUS
<1>1. /\ redeem[w].at = "claim" /\ ClaimInOrder(redeem[w]) /\ redeem[w] \in Claim
      /\ chain \in [Keys -> Seq(Token)]
      /\ UNCHANGED <<apps, live>>
  BY DEF ClaimToken, GrantInv, GrantTypeOK
<1>2. /\ k \in Keys /\ n \in 1..Len(chain[k])
      /\ scope \in SUBSET Ranks /\ scope # {} /\ scope \subseteq chain[k][n].scope
  BY <1>1 DEF ClaimInOrder, Claim
<1>3. CASE ~(~chain[k][n].spent /\ ~chain[k][n].expired)
  BY <1>1, <1>2, <1>3, AnswerPreserves DEF ClaimToken
<1>4. CASE ~chain[k][n].spent /\ ~chain[k][n].expired
  <2> PICK old : old = chain[k][n]
    OBVIOUS
  <2> DEFINE p == [old EXCEPT !.spent = TRUE, !.seen = 1]
             mid == [chain[k] EXCEPT ![n] = p]
             new == Pair(scope)
             to == Append(mid, new)
  <2>1. KeyInOrder(k) /\ Narrowing(chain[k]) /\ Len(chain[k]) \in Nat /\ old \in Token
    BY <1>1, <1>2 DEF GrantInv, KeyInOrder
  <2>2. n = Len(chain[k])
    BY <1>2, <1>4, <2>1 DEF Narrowing
  <2>3. p \in Token /\ p.scope = old.scope /\ p.spent /\ p.seen = 1
    <3> DEFINE q == [old EXCEPT !.spent = TRUE]
    <3>1. q \in Token /\ q.scope = old.scope /\ q.spent
      BY <2>1 DEF Token
    <3>2. p = [q EXCEPT !.seen = 1]
      BY <2>1 DEF Token
    <3> HIDE DEF q, p
    <3> QED BY <3>1, <3>2 DEF Token
  <2>4. new \in Token /\ new.scope = scope /\ new.seen = 0
    BY <1>2 DEF Token, Pair
  <2>5. /\ chain' = [chain EXCEPT ![k] = to]
        /\ redeem' = [redeem EXCEPT ![w] = Waiting]
        /\ keyring' = keyring
    BY <1>4 DEF ClaimToken
  <2> HIDE DEF p, new
  <2>6. /\ Narrowing(mid) /\ Len(mid) = Len(chain[k])
        /\ \A m \in 1..Len(chain[k]) : mid[m] = IF m = n THEN p ELSE chain[k][m]
    BY <1>2, <2>1, <2>3, TokenReplaced
  <2> HIDE DEF mid
  <2>7. mid[Len(mid)] = p
    BY <1>2, <2>2, <2>6
  <2>8. /\ Narrowing(to) /\ Len(to) = Len(mid) + 1
        /\ \A m \in 1..Len(to) : to[m] = IF m > Len(mid) THEN new ELSE mid[m]
    BY <1>2, <2>3, <2>4, <2>6, <2>7, TokenIssued
  <2> HIDE DEF to
  <2>9. ASSUME NEW m \in 1..Len(to)
        PROVE  \/ m = Len(chain[k]) + 1 /\ to[m] = new
               \/ m = n /\ to[m] = p
               \/ m \in 1..Len(chain[k]) /\ to[m] = chain[k][m]
    BY <2>1, <2>6, <2>8
  <2>10. \A m \in 1..Len(chain[k]) : to[m].scope = chain[k][m].scope
    BY <2>1, <2>3, <2>6, <2>8
  <2>11. Held(k) => \A m \in 1..Len(to) : to[m].scope \subseteq keyring[k].scope
    BY <1>2, <2>1, <2>3, <2>4, <2>9 DEF KeyInOrder
  <2>12. Held(k) /\ ~keyring[k].revoked => \A m \in 1..Len(to) : m > 1 => to[m].seen <= 1
    BY <2>1, <2>3, <2>4, <2>9 DEF KeyInOrder
  <2>13. /\ redeem' \in [TokenWorkers -> Claim]
         /\ \A v \in TokenWorkers : redeem'[v] = redeem[v] \/ ClaimInOrder(redeem'[v])
    BY <2>5, WorkerDone
  <2>14. /\ keyring' \in [Keys -> Grant \cup {NoGrant}]
         /\ \A j \in Keys : j # k => keyring'[j] = keyring[j]
         /\ Held(k)' <=> Held(k)
    BY <2>5 DEF GrantInv, GrantTypeOK, Held
  <2>15. Len(chain[k]) <= Len(to)
    BY <2>1, <2>6, <2>8
  <2> QED BY <1>1, <1>2, <2>5, <2>8, <2>10, <2>11, <2>12, <2>13, <2>14, <2>15, ChainPreserves
<1> QED BY <1>3, <1>4

\* An expired token is still the last of its chain.
LEMMA ExpirePreserves ==
    ASSUME GrantInv, NEW k \in Keys, NEW n \in 1..MaxTokens, ExpireToken(k, n)
    PROVE  GrantInv'
<1> DEFINE old == chain[k][n]
           p == [old EXCEPT !.expired = TRUE]
           to == [chain[k] EXCEPT ![n] = p]
<1>1. /\ KeyInOrder(k) /\ Narrowing(chain[k])
      /\ chain[k] \in Seq(Token) /\ Len(chain[k]) \in Nat /\ n \in 1..Len(chain[k])
      /\ GrantTypeOK
  BY DEF GrantInv, GrantTypeOK, KeyInOrder, ExpireToken
<1>2. old \in Token
  BY <1>1
<1>3. p \in Token /\ p.scope = old.scope /\ p.spent = old.spent /\ p.seen = old.seen
  BY <1>2 DEF Token
<1>4. chain' = [chain EXCEPT ![k] = to] /\ UNCHANGED <<apps, keyring, live, redeem>>
  BY DEF ExpireToken
<1> HIDE DEF p, old
<1>5. /\ Narrowing(to) /\ Len(to) = Len(chain[k])
      /\ \A m \in 1..Len(chain[k]) : to[m] = IF m = n THEN p ELSE chain[k][m]
  BY <1>1, <1>3, TokenReplaced DEF old
<1> HIDE DEF to
<1>6. \A m \in 1..Len(chain[k]) : to[m].scope = chain[k][m].scope /\ to[m].seen = chain[k][m].seen
  BY <1>3, <1>5 DEF old
<1>7. /\ Held(k)' => \A m \in 1..Len(to) : to[m].scope \subseteq keyring'[k].scope
      /\ Held(k)' /\ ~keyring'[k].revoked => \A m \in 1..Len(to) : m > 1 => to[m].seen <= 1
  BY <1>1, <1>4, <1>5, <1>6 DEF KeyInOrder, Held
<1>8. /\ keyring' \in [Keys -> Grant \cup {NoGrant}] /\ redeem' \in [TokenWorkers -> Claim]
      /\ Len(chain[k]) <= Len(to)
  BY <1>1, <1>4, <1>5 DEF GrantTypeOK
<1> QED BY <1>4, <1>5, <1>6, <1>7, <1>8, ChainPreserves

\* A worker that gives up changes no chain.
LEMMA DropTokenPreserves ==
    ASSUME GrantInv, NEW w \in TokenWorkers, DropToken(w)
    PROVE  GrantInv'
<1>1. redeem' = [redeem EXCEPT ![w] = Waiting] /\ UNCHANGED <<apps, keyring, chain, live>>
  BY DEF DropToken
<1>2. /\ redeem' \in [TokenWorkers -> Claim]
      /\ \A v \in TokenWorkers : redeem'[v] = redeem[v] \/ ClaimInOrder(redeem'[v])
  BY <1>1, WorkerDone
<1>3. GrantTypeOK'
  BY <1>1, <1>2 DEF GrantInv, GrantTypeOK
<1>4. \A k \in Keys : KeyInOrder(k)'
  BY <1>1, ChainsStand
<1>5. \A v \in TokenWorkers : ClaimInOrder(redeem[v])'
  BY <1>1, <1>2 DEF GrantInv, ClaimInOrder
<1> QED BY <1>3, <1>4, <1>5 DEF GrantInv

-----------------------------------------------------------------------------
(* Theorems *)

\* Every reachable state satisfies the inductive invariant.
THEOREM GrantsInvariant == GrantSpec => []GrantInv
<1>1. GrantInit => GrantInv
  BY InitialGrants
<1>2. GrantInv /\ [GrantNext]_grantVars => GrantInv'
  <2> SUFFICES ASSUME GrantInv, [GrantNext]_grantVars PROVE GrantInv'
    OBVIOUS
  <2>1. CASE GrantNext
    <3>1. CASE \E q \in Asks : \E u \in Owners, k \in Keys, rank \in Ranks :
                  Approve(q, u, k, rank)
      BY <3>1, ApprovePreserves
    <3>2. CASE \E k \in Keys : \E u \in Owners, rank \in Ranks : CreateKey(u, k, rank)
      BY <3>2, CreateKeyPreserves
    <3>3. CASE \E k \in Keys : RevokeKey(k) \/ DeleteKey(k)
      BY <3>3, RevokeKeyPreserves, DeleteKeyPreserves
    <3>4. CASE \E k \in Keys : \E n \in 1..MaxTokens : ExpireToken(k, n)
      BY <3>4, ExpirePreserves
    <3>5. CASE \E w \in TokenWorkers : \E k \in Keys, n \in 1..MaxTokens, scope \in SUBSET Ranks :
                  ReadToken(w, k, n, scope)
      BY <3>5, ReadTokenPreserves
    <3>6. CASE \E w \in TokenWorkers : ClaimToken(w) \/ DropToken(w)
      BY <3>6, ClaimTokenPreserves, DropTokenPreserves
    <3>7. CASE \/ \E u \in Owners, rank \in Ranks \cup {0} : ChangeLive(u, rank)
               \/ \E q \in Asks : Deny(q) \/ \E scope \in SUBSET Ranks : Authorize(q, scope)
      BY <3>7, AsidePreserves
    <3> QED BY <2>1, <3>1, <3>2, <3>3, <3>4, <3>5, <3>6, <3>7 DEF GrantNext
  <2>2. CASE UNCHANGED grantVars
    BY <2>2, AsidePreserves
  <2> QED BY <2>1, <2>2
<1> QED BY <1>1, <1>2, PTL DEF GrantSpec

\* A later pair of a key never acts with a higher rank than an earlier one.
LEMMA RankNarrows ==
    ASSUME GrantInv, NEW k \in Keys, Held(k), NEW n \in 1..Len(chain[k]), n > 1
    PROVE  AccessRank(k, n) <= AccessRank(k, n - 1)
<1>1. Narrowing(chain[k]) /\ chain[k] \in Seq(Token) /\ Len(chain[k]) \in Nat
  BY DEF GrantInv, KeyInOrder, GrantTypeOK
<1> DEFINE now == chain[k][n].scope
           before == chain[k][n - 1].scope
<1>2. n - 1 \in 1..Len(chain[k])
  BY <1>1
<1>3. /\ now \in SUBSET Ranks /\ now # {} /\ now \subseteq before
      /\ before \in SUBSET Ranks /\ before # {}
  <2>1. chain[k][n] \in Token /\ chain[k][n - 1] \in Token
    BY <1>1, <1>2
  <2>2. now \in SUBSET Ranks /\ before \in SUBSET Ranks
    BY <2>1 DEF Token
  <2> QED BY <1>1, <1>2, <2>2 DEF Narrowing
<1> HIDE DEF now, before
<1>4. Max(now) \in Int /\ Max(before) \in Int /\ Max(now) <= Max(before)
  <2>1. /\ Max(now) \in now /\ Max(before) \in before
        /\ \A y \in before : Max(before) >= y
    BY <1>3, LargestRank
  <2>2. Max(now) \in 1..3 /\ Max(before) \in 1..3
    BY <1>3, <2>1, GrantAssumption
  <2> QED BY <1>3, <2>1, <2>2
<1>5. LiveRank(k) \in Int
  <2>1. keyring[k] \in Grant /\ live \in [Owners -> Ranks \cup {0}]
    BY DEF GrantInv, GrantTypeOK, Held
  <2>2. keyring[k].rank \in Ranks /\ live[keyring[k].owner] \in Ranks \cup {0}
    BY <2>1 DEF Grant
  <2>3. \A r \in Ranks \cup {0} : r \in Int
    BY GrantAssumption
  <2>4. keyring[k].rank \in Int /\ live[keyring[k].owner] \in Int
    BY <2>2, <2>3
  <2> QED BY <2>4, LesserOf DEF LiveRank
<1>6. /\ AccessRank(k, n) = IF LiveRank(k) <= Max(now) THEN LiveRank(k) ELSE Max(now)
      /\ AccessRank(k, n - 1) = IF LiveRank(k) <= Max(before) THEN LiveRank(k) ELSE Max(before)
  BY <1>4, <1>5, LesserOf DEF AccessRank, now, before
<1> QED BY <1>4, <1>5, <1>6

\* "A replayed refresh token invalidates the entire grant/token family": while a
\* connection works it is one chain with one token good for the next pair, no
\* refresh token was answered twice, and scope and rank only narrow, for any
\* number of workers that race with the same token.
THEOREM ConnectionsAreChains == GrantSpec => []ConnectionIsOneChain
<1>1. GrantInv => ConnectionIsOneChain
  <2> SUFFICES ASSUME GrantInv, NEW k \in Keys, Held(k), ~keyring[k].revoked
               PROVE  /\ \A m, n \in DOMAIN chain[k] :
                             ~chain[k][m].spent /\ ~chain[k][n].spent => m = n
                      /\ \A n \in DOMAIN chain[k] :
                            /\ chain[k][n].scope \subseteq keyring[k].scope
                            /\ n > 1 => /\ chain[k][n].seen <= 1
                                        /\ chain[k][n].scope \subseteq chain[k][n - 1].scope
                                        /\ AccessRank(k, n) <= AccessRank(k, n - 1)
    BY DEF ConnectionIsOneChain
  <2>1. /\ KeyInOrder(k) /\ Narrowing(chain[k]) /\ Len(chain[k]) \in Nat
        /\ DOMAIN chain[k] = 1..Len(chain[k])
    BY DEF GrantInv, GrantTypeOK, KeyInOrder
  <2>2. \A n \in 1..Len(chain[k]) : ~chain[k][n].spent => n = Len(chain[k])
    BY <2>1 DEF Narrowing
  <2>3. \A n \in 1..Len(chain[k]) :
           /\ chain[k][n].scope \subseteq keyring[k].scope
           /\ n > 1 => chain[k][n].seen <= 1 /\ chain[k][n].scope \subseteq chain[k][n - 1].scope
    BY <2>1 DEF KeyInOrder, Narrowing
  <2>4. \A n \in 1..Len(chain[k]) : n > 1 => AccessRank(k, n) <= AccessRank(k, n - 1)
    BY RankNarrows
  <2> QED BY <2>1, <2>2, <2>3, <2>4
<1> QED BY <1>1, GrantsInvariant, PTL
=============================================================================
