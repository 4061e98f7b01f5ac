------------------------------ MODULE Accounts ------------------------------
(***************************************************************************)
(* How accounts come to be and who administers them: sign-up with an       *)
(* invite, openly or as the first user, by password or through a Google or *)
(* Apple sign-in; linking such an identity; and what administrators do to  *)
(* invites and to the accounts of others.  A request reads, decides and    *)
(* writes in statements that commit one by one, beside other requests; a   *)
(* process may die between any two, and another one start, which seeds an  *)
(* administrator or opens the public demo as its environment says.         *)
(* Accounts are named by their e-mail address, which is unique and never   *)
(* changes.                                                                *)
(***************************************************************************)
EXTENDS Integers, FiniteSets

CONSTANTS
    Emails, Invites,
    Invited,       \* Invited[i]: the e-mail and role invite i is bound to
    Subjects,      \* people at the identity provider
    SubjectEmail,  \* SubjectEmail[s]: their verified e-mail, or NoEmail
    Flows,         \* rows of "OAuth Flow"
    Desktops,      \* requests under way
    Seed,          \* LAMBDA_ERP_ADMIN_EMAIL, or NoEmail
    DemoEmail,     \* the e-mail of the public demo account
    Assignable,    \* ASSIGNABLE_ROLES
    NoEmail, NoInvite, NoSubject, NoFlow

\* "none" and "disabled" are no roles; addresses are addresses, an invite is bound
\* to one and to a role.
ASSUME AccountsAssumption ==
    /\ Assignable \cap {"none", "disabled"} = {}
    /\ NoEmail \notin Emails
    /\ {Seed, DemoEmail} \subseteq Emails \cup {NoEmail}
    /\ \A i \in Invites : Invited[i].email \in Emails /\ Invited[i].role \in Assignable \cup {"admin"}
    /\ \A s \in Subjects : SubjectEmail[s] \in Emails \cup {NoEmail}

VARIABLES
    users,       \* users[e]: role and enabled of the account, or NoUser
    invites,     \* invites[i]: "none", "open", "used" or "revoked"
    identity,    \* identity[s]: the account subject s is linked to, or NoEmail
    flows,       \* flows[f]: mode, account to link, invite, and whether it is open
    signup,      \* the setting allow_public_signup: "unset", "on" or "off"
    visit,       \* visit[d]: what request d is doing
    outrun,      \* history: an account changed between a request's checks and its write
    unattended   \* history: the first account was the one of the public demo

accountVars == <<users, invites, identity, flows, signup, visit, outrun, unattended>>

NoUser == [role |-> "none", enabled |-> FALSE]
NotStarted == [mode |-> "none", target |-> NoEmail, invite |-> NoInvite, open |-> FALSE]
Away == [at |-> "rest", email |-> NoEmail, role |-> "none", invite |-> NoInvite,
         subject |-> NoSubject, flow |-> NoFlow, stale |-> FALSE]

Exists(e) == e \in Emails /\ users[e] # NoUser
Admins == {e \in Emails : users[e].role = "admin" /\ users[e].enabled}
Go(d, to) == visit' = [visit EXCEPT ![d] = to]

AccountsInit ==
    /\ users = [e \in Emails |-> NoUser]
    /\ invites = [i \in Invites |-> "none"]
    /\ identity = [s \in Subjects |-> NoEmail]
    /\ flows = [f \in Flows |-> NotStarted]
    /\ signup = "unset"
    /\ visit = [d \in Desktops |-> Away]
    /\ outrun = FALSE /\ unattended = FALSE

-----------------------------------------------------------------------------
(* Signing up *)

\* Who may sign up as e with invite i, and where the request goes on: the first
\* user is an admin, an invite gives its role, open sign-up makes a viewer.
Gate(e, i) ==
    IF \A u \in Emails : ~Exists(u) THEN {[at |-> "insert", role |-> "admin"]}
    ELSE IF i # NoInvite
         THEN IF invites[i] = "open" /\ Invited[i].email = e
              THEN {[at |-> "claim", role |-> Invited[i].role]} ELSE {}
    ELSE IF signup = "on" THEN {[at |-> "insert", role |-> "viewer"]} ELSE {}

\* register, up to the first write.
Register(d, e, i) ==
    /\ visit[d].at = "rest" /\ ~Exists(e)
    /\ \E g \in Gate(e, i) :
          Go(d, [Away EXCEPT !.at = g.at, !.email = e, !.role = g.role, !.invite = i])
    /\ UNCHANGED <<users, invites, identity, flows, signup, outrun, unattended>>

\* claim_invite: the conditional update is the check.
ClaimInvite(d) ==
    /\ visit[d].at = "claim"
    /\ IF invites[visit[d].invite] = "open"
       THEN /\ invites' = [invites EXCEPT ![visit[d].invite] = "used"]
            /\ Go(d, [visit[d] EXCEPT !.at = "insert"])
       ELSE Go(d, Away) /\ UNCHANGED invites
    /\ UNCHANGED <<users, identity, flows, signup, outrun, unattended>>

\* The e-mail is unique: of two sign-ups one fails, its invite stays used.
InsertUser(d) ==
    /\ visit[d].at = "insert"
    /\ IF Exists(visit[d].email)
       THEN Go(d, Away) /\ UNCHANGED users
       ELSE /\ users' = [users EXCEPT ![visit[d].email] =
                            [role |-> visit[d].role, enabled |-> TRUE]]
            /\ Go(d, IF visit[d].subject = NoSubject THEN Away
                     ELSE [visit[d] EXCEPT !.at = "bind"])
    /\ UNCHANGED <<invites, identity, flows, signup, outrun, unattended>>

\* _link_identity; a subject is linked once.
LinkIdentity(d) ==
    /\ visit[d].at = "bind"
    /\ LET s == visit[d].subject
       IN  identity' = [identity EXCEPT ![s] = IF @ = NoEmail THEN visit[d].email ELSE @]
    /\ Go(d, Away)
    /\ UNCHANGED <<users, invites, flows, signup, outrun, unattended>>

-----------------------------------------------------------------------------
(* Signing in through a provider *)

\* oauth_login: to sign in, with an invite or without, or to link a provider.
StartFlow(f, i, target) ==
    /\ flows[f] = NotStarted
    /\ target # NoEmail => Exists(target) /\ users[target].enabled /\ target # DemoEmail
    /\ flows' = [flows EXCEPT ![f] = [mode |-> IF target = NoEmail THEN "login" ELSE "link",
                                      target |-> target, invite |-> i, open |-> TRUE]]
    /\ UNCHANGED <<users, invites, identity, signup, visit, outrun, unattended>>

\* The browser comes back; the flow is loaded and the code is exchanged.
Callback(d, f, s) ==
    /\ visit[d].at = "rest" /\ flows[f].open
    /\ Go(d, [Away EXCEPT !.at = "exchange", !.flow = f, !.subject = s, !.invite = flows[f].invite])
    /\ UNCHANGED <<users, invites, identity, flows, signup, outrun, unattended>>

\* _consume_flow, once the identity token is verified.
ConsumeFlow(d) ==
    /\ visit[d].at = "exchange"
    /\ flows' = [flows EXCEPT ![visit[d].flow].open = FALSE]
    /\ Go(d, IF flows[visit[d].flow].open THEN [visit[d] EXCEPT !.at = "lookup"] ELSE Away)
    /\ UNCHANGED <<users, invites, identity, signup, outrun, unattended>>

\* What the callback finds: an account to link, an identity that signs in, or a
\* person to sign up, whose address must be verified and new.
Lookup(d) ==
    /\ visit[d].at = "lookup"
    /\ LET s == visit[d].subject
           f == flows[visit[d].flow]
           e == SubjectEmail[s]
       IN  IF f.mode = "link"
           THEN Go(d, IF users[f.target].enabled /\ identity[s] = NoEmail
                      THEN [visit[d] EXCEPT !.at = "bind", !.email = f.target] ELSE Away)
           ELSE \/ /\ identity[s] = NoEmail /\ e # NoEmail /\ ~Exists(e)
                   /\ \E g \in Gate(e, f.invite) :
                         Go(d, [visit[d] EXCEPT !.at = g.at, !.email = e, !.role = g.role])
                \/ /\ identity[s] # NoEmail \/ e = NoEmail \/ Exists(e) \/ Gate(e, f.invite) = {}
                   /\ Go(d, Away)
    /\ UNCHANGED <<users, invites, identity, flows, signup, outrun, unattended>>

\* A request fails or its process dies where it stands.
DropRequest(d) ==
    /\ visit[d].at # "rest"
    /\ Go(d, Away)
    /\ UNCHANGED <<users, invites, identity, flows, signup, outrun, unattended>>

\* ensure_seed_admin promotes or creates the seed account.
Seeded ==
    IF Seed = NoEmail THEN users
    ELSE [users EXCEPT ![Seed] = [role |-> "admin", enabled |-> TRUE]]

\* create_public_manager enables the demo account or creates it, which fails if its
\* address belongs to somebody of another role.
DemoOpened(us) ==
    IF DemoEmail \in Emails /\ us[DemoEmail].role \in {"none", "public_manager"}
    THEN [us EXCEPT ![DemoEmail] = [role |-> "public_manager", enabled |-> TRUE]]
    ELSE us

\* A process starts, beside others or alone.  With its environment it seeds the admin;
\* a demo container opens the public demo, for which nobody need be an admin yet,
\* or else sign-up, unless the setting was ever set.
Boot(seeding, demo) ==
    /\ LET us == IF seeding THEN Seeded ELSE users
       IN  users' = IF demo = "public" THEN DemoOpened(us) ELSE us
    /\ signup' = IF demo = "open" /\ signup = "unset" THEN "on" ELSE signup
    /\ unattended' = (unattended \/ /\ \A e \in Emails : ~Exists(e)
                                    /\ \E e \in Emails : users'[e] # NoUser
                                    /\ \A e \in Emails : users'[e].role # "admin")
    /\ UNCHANGED <<invites, identity, flows, visit, outrun>>

-----------------------------------------------------------------------------
(* Administration; every request is made by an enabled admin *)

CreateInvite(i) ==
    /\ Admins # {} /\ invites[i] = "none" /\ ~Exists(Invited[i].email)
    /\ invites' = [invites EXCEPT ![i] = "open"]
    /\ UNCHANGED <<users, identity, flows, signup, visit, outrun, unattended>>

\* revoke_invite reads an unused invite, then deletes it whatever became of it.
AskRevoke(d, i) ==
    /\ visit[d].at = "rest" /\ Admins # {} /\ invites[i] = "open"
    /\ Go(d, [Away EXCEPT !.at = "revoke", !.invite = i])
    /\ UNCHANGED <<users, invites, identity, flows, signup, outrun, unattended>>

Revoke(d) ==
    /\ visit[d].at = "revoke"
    /\ invites' = [invites EXCEPT ![visit[d].invite] = "revoked"]
    /\ Go(d, Away)
    /\ UNCHANGED <<users, identity, flows, signup, outrun, unattended>>

SetSignup(to) ==
    /\ Admins # {}
    /\ signup' = to
    /\ UNCHANGED <<users, invites, identity, flows, visit, outrun, unattended>>

\* Faulty: an admin may always give the role away.
MayChange_AnySelf(a, e, to) == IF to = "disabled" THEN a # e ELSE TRUE

\* change_role and disable_user: what admin a may do to account e.
MayChange(a, e, to) ==
    IF to = "disabled" THEN a # e ELSE a = e /\ to # "admin" => Cardinality(Admins) > 1

AskChange(d, a, e, to) ==
    /\ visit[d].at = "rest" /\ a \in Admins /\ Exists(e)
    /\ MayChange(a, e, to)
    /\ Go(d, [Away EXCEPT !.at = "change", !.email = e, !.role = to])
    /\ UNCHANGED <<users, invites, identity, flows, signup, outrun, unattended>>

\* set_value, whatever else changed since the checks.
WriteChange(d) ==
    /\ visit[d].at = "change"
    /\ LET e == visit[d].email
           to == visit[d].role
       IN  users' = [users EXCEPT ![e] = IF to = "disabled" THEN [@ EXCEPT !.enabled = FALSE]
                                         ELSE [@ EXCEPT !.role = to]]
    /\ visit' = [c \in Desktops |->
          IF c = d THEN Away
          ELSE IF visit[c].at = "change" THEN [visit[c] EXCEPT !.stale = TRUE] ELSE visit[c]]
    /\ outrun' = (outrun \/ visit[d].stale)
    /\ UNCHANGED <<invites, identity, flows, signup, unattended>>

\* An admin opens the demo, or has remove_public_manager disable its account.
OpenDemo ==
    /\ Admins # {}
    /\ users' = DemoOpened(users)
    /\ UNCHANGED <<invites, identity, flows, signup, visit, outrun, unattended>>

CloseDemo ==
    /\ Admins # {} /\ users[DemoEmail].role = "public_manager"
    /\ users' = [users EXCEPT ![DemoEmail].enabled = FALSE]
    /\ UNCHANGED <<invites, identity, flows, signup, visit, outrun, unattended>>

AccountsNext ==
    \/ \E d \in Desktops :
          \/ \E e \in Emails, i \in Invites \cup {NoInvite} : Register(d, e, i)
          \/ ClaimInvite(d) \/ InsertUser(d) \/ LinkIdentity(d)
          \/ \E f \in Flows, s \in Subjects : Callback(d, f, s)
          \/ ConsumeFlow(d) \/ Lookup(d) \/ DropRequest(d)
          \/ \E i \in Invites : AskRevoke(d, i)
          \/ Revoke(d)
          \/ \E a, e \in Emails, to \in Assignable \cup {"disabled"} : AskChange(d, a, e, to)
          \/ WriteChange(d)
    \/ \E f \in Flows, i \in Invites \cup {NoInvite} : StartFlow(f, i, NoEmail)
    \/ \E f \in Flows, e \in Emails : StartFlow(f, NoInvite, e)
    \/ \E seeding \in BOOLEAN, demo \in {"no", "open", "public"} : Boot(seeding, demo)
    \/ OpenDemo \/ CloseDemo
    \/ \E i \in Invites : CreateInvite(i)
    \/ \E to \in {"on", "off"} : SetSignup(to)

AccountsSpec == AccountsInit /\ [][AccountsNext]_accountVars

-----------------------------------------------------------------------------
(* Properties *)

\* "Cannot demote the only admin", "Cannot disable yourself": once there are
\* accounts an admin can sign in.  Two account changes whose checks overlap can
\* take away the last one; and where the public demo is opened at the very first
\* boot, its account comes before any admin and nobody signs up as the first
\* user any more.  Nothing else leaves the company without one.
AdminRemains ==
    (\E e \in Emails : Exists(e)) /\ ~outrun /\ ~unattended => Admins # {}

=============================================================================
