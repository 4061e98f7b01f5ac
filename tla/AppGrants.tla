----------------------------- MODULE AppGrants -----------------------------
(***************************************************************************)
(* API keys and the connections of apps (MCP).  A user creates a key, or   *)
(* approves the request of an app: the approval makes a key and a code.    *)
(* The code, and later the newest refresh token, is exchanged for the next *)
(* pair of access and refresh token.  A key never acts above the live role *)
(* of its owner.  Token requests run in several workers and read the token *)
(* before they claim it.  While rest_api_enabled is off every endpoint     *)
(* refuses, as if no request came, so the setting is left out.             *)
(***************************************************************************)
EXTENDS Integers, Sequences, FiniteSetsExt

CONSTANTS
    Keys,          \* ids of "Api Key"
    Owners,        \* users
    Ranks,         \* 1 viewer, 2 manager, 3 admin; also the scopes of apps
    Asks,          \* ids of "MCP OAuth Request"
    TokenWorkers,  \* token requests under way
    MaxTokens,     \* bound: codes and token pairs per key
    NoGrant

ASSUME GrantAssumption ==
    /\ Ranks \subseteq 1..3 /\ 1 \in Ranks
    /\ MaxTokens \in Nat \ {0}
    /\ NoGrant \notin [owner : Owners, rank : Ranks, scope : SUBSET Ranks, revoked : BOOLEAN]

VARIABLES
    apps,      \* apps[q]: the scope request q waits for approval with; {} before
    keyring,   \* keyring[k]: owner, role cap, what was approved, and whether revoked
    chain,     \* chain[k]: the code of key k and every token pair issued since
    live,      \* live[u]: rank of the user's role, 0 once disabled
    redeem     \* redeem[w]: the token request worker w has read but not claimed

grantVars == <<apps, keyring, chain, live, redeem>>

\* A request that is `consumed`.
Answered == {0}
Unanswered(q) == apps[q] \notin {{}, Answered}

Waiting == [at |-> "rest", key |-> NoGrant, nth |-> 0, scope |-> {}]

\* A code or a token pair: `spent` once it is redeemed, `seen` counts the answers.
Pair(scope) == [scope |-> scope, spent |-> FALSE, expired |-> FALSE, seen |-> 0]

Held(k) == keyring[k] # NoGrant
Usable(k) == Held(k) /\ ~keyring[k].revoked /\ live[keyring[k].owner] > 0

\* _lookup_api_key, refresh_auth_principal: the live role of a key.
LiveRank(k) == Min({keyring[k].rank, live[keyring[k].owner]})

\* authenticate_access_token: an access token is also held to its scope.
AccessRank(k, n) == Min({LiveRank(k), Max(chain[k][n].scope)})

GrantInit ==
    /\ apps = [q \in Asks |-> {}]
    /\ keyring = [k \in Keys |-> NoGrant]
    /\ chain = [k \in Keys |-> <<>>]
    /\ live \in [Owners -> Ranks]
    /\ redeem = [w \in TokenWorkers |-> Waiting]

-----------------------------------------------------------------------------
(* Keys *)

\* create_api_key: the cap is at most the rank of its creator.
CreateKey(u, k, rank) ==
    /\ ~Held(k) /\ chain[k] = <<>> /\ 0 < rank /\ rank <= live[u]
    /\ keyring' = [keyring EXCEPT ![k] = [owner |-> u, rank |-> rank, scope |-> {}, revoked |-> FALSE]]
    /\ UNCHANGED <<apps, chain, live, redeem>>

\* revoke_api_key, by its owner or an admin, and revoke_token, by the app.
RevokeKey(k) ==
    /\ Held(k) /\ ~keyring[k].revoked
    /\ keyring' = [keyring EXCEPT ![k].revoked = TRUE]
    /\ UNCHANGED <<apps, chain, live, redeem>>

\* delete_api_key: a revoked key only.  Its tokens stay behind, without a key.
DeleteKey(k) ==
    /\ Held(k) /\ keyring[k].revoked
    /\ keyring' = [keyring EXCEPT ![k] = NoGrant]
    /\ UNCHANGED <<apps, chain, live, redeem>>

\* An administrator changes a role or disables an account.
ChangeLive(u, rank) ==
    /\ live[u] # rank
    /\ live' = [live EXCEPT ![u] = rank]
    /\ UNCHANGED <<apps, keyring, chain, redeem>>

-----------------------------------------------------------------------------
(* Approving an app *)

\* register and authorize: a request waits for the user.
Authorize(q, scope) ==
    /\ apps[q] = {} /\ scope # {}
    /\ apps' = [apps EXCEPT ![q] = scope]
    /\ UNCHANGED <<keyring, chain, live, redeem>>

\* The scopes of a request that the approved rank covers, or reading.
Granted(scope, rank) ==
    LET within == {s \in scope : s <= rank} IN IF within = {} THEN {1} ELSE within

\* approve: the request is claimed, and a key and a code are made with it; or it
\* is refused, and only claimed.
Approve(q, u, k, rank) ==
    /\ Unanswered(q) /\ ~Held(k) /\ chain[k] = <<>>
    /\ 0 < rank /\ rank <= Min({live[u], Max(apps[q])})
    /\ apps' = [apps EXCEPT ![q] = Answered]
    /\ keyring' = [keyring EXCEPT ![k] = [owner |-> u, rank |-> rank, revoked |-> FALSE,
                                          scope |-> Granted(apps[q], rank)]]
    /\ chain' = [chain EXCEPT ![k] = <<Pair(Granted(apps[q], rank))>>]
    /\ UNCHANGED <<live, redeem>>

Deny(q) ==
    /\ Unanswered(q)
    /\ apps' = [apps EXCEPT ![q] = Answered]
    /\ UNCHANGED <<keyring, chain, live, redeem>>

-----------------------------------------------------------------------------
(* The token endpoint *)

\* The first of a chain is a code, the others are refresh tokens.
Refresh(n) == n > 1

Answer(w, k, n) ==
    /\ redeem' = [redeem EXCEPT ![w] = Waiting]
    /\ chain' = [chain EXCEPT ![k][n].seen = IF @ < 2 THEN @ + 1 ELSE @]

\* A key that was deleted has nothing left to revoke.
RevokeFamily(k) ==
    keyring' = IF Held(k) THEN [keyring EXCEPT ![k].revoked = TRUE] ELSE keyring

\* token_endpoint up to the claim: a spent refresh token revokes the whole family,
\* a spent code is only refused; a good one may ask for less than its scope.
ReadToken(w, k, n, scope) ==
    /\ redeem[w].at = "rest"
    /\ n \in DOMAIN chain[k] /\ ~chain[k][n].expired
    /\ IF chain[k][n].spent
       THEN /\ Answer(w, k, n)
            /\ IF Refresh(n) THEN RevokeFamily(k) ELSE UNCHANGED keyring
       ELSE /\ Usable(k)
            /\ scope # {} /\ scope \subseteq chain[k][n].scope
            /\ redeem' = [redeem EXCEPT ![w] = [at |-> "claim", key |-> k, nth |-> n, scope |-> scope]]
            /\ UNCHANGED <<keyring, chain>>
    /\ UNCHANGED <<apps, live>>

\* Faulty: the claim does not look whether another worker was faster.
ClaimToken_Unconditional(w) ==
    /\ redeem[w].at = "claim"
    /\ LET k == redeem[w].key
           n == redeem[w].nth
       IN  /\ redeem' = [redeem EXCEPT ![w] = Waiting]
           /\ chain' = [chain EXCEPT ![k] = Append([@ EXCEPT ![n].spent = TRUE],
                                                   Pair(redeem[w].scope))]
           /\ UNCHANGED keyring
    /\ UNCHANGED <<apps, live>>

\* The claim: the next pair is issued, or another worker was faster.
ClaimToken(w) ==
    /\ redeem[w].at = "claim"
    /\ LET k == redeem[w].key
           n == redeem[w].nth
       IN  IF ~chain[k][n].spent /\ ~chain[k][n].expired
           THEN /\ Len(chain[k]) < MaxTokens
                /\ redeem' = [redeem EXCEPT ![w] = Waiting]
                /\ chain' = [chain EXCEPT ![k] =
                      Append([@ EXCEPT ![n].spent = TRUE, ![n].seen = 1], Pair(redeem[w].scope))]
                /\ UNCHANGED keyring
           ELSE /\ Answer(w, k, n)
                /\ IF Refresh(n) THEN RevokeFamily(k) ELSE UNCHANGED keyring
    /\ UNCHANGED <<apps, live>>

\* The time to live of a code or a refresh token is over.
ExpireToken(k, n) ==
    /\ n \in DOMAIN chain[k] /\ ~chain[k][n].expired
    /\ chain' = [chain EXCEPT ![k][n].expired = TRUE]
    /\ UNCHANGED <<apps, keyring, live, redeem>>

\* A worker dies before its claim.
DropToken(w) ==
    /\ redeem[w].at = "claim"
    /\ redeem' = [redeem EXCEPT ![w] = Waiting]
    /\ UNCHANGED <<apps, keyring, chain, live>>

GrantNext ==
    \/ \E u \in Owners, rank \in Ranks \cup {0} : ChangeLive(u, rank)
    \/ \E q \in Asks :
          \/ \E scope \in SUBSET Ranks : Authorize(q, scope)
          \/ \E u \in Owners, k \in Keys, rank \in Ranks : Approve(q, u, k, rank)
          \/ Deny(q)
    \/ \E k \in Keys :
          \/ \E u \in Owners, rank \in Ranks : CreateKey(u, k, rank)
          \/ RevokeKey(k) \/ DeleteKey(k)
          \/ \E n \in 1..MaxTokens : ExpireToken(k, n)
    \/ \E w \in TokenWorkers :
          \/ \E k \in Keys, n \in 1..MaxTokens, scope \in SUBSET Ranks : ReadToken(w, k, n, scope)
          \/ ClaimToken(w) \/ DropToken(w)

GrantSpec == GrantInit /\ [][GrantNext]_grantVars

-----------------------------------------------------------------------------
(* Properties *)

\* "A replayed refresh token invalidates the entire grant/token family": while a
\* connection works, one code or refresh token of it is good for the next pair,
\* no refresh token was answered twice, and no pair has more scope than the user
\* approved or than the pair it was exchanged for, nor acts with a higher rank,
\* whichever workers raced.
ConnectionIsOneChain ==
    \A k \in Keys : Held(k) /\ ~keyring[k].revoked =>
        /\ \A m, n \in DOMAIN chain[k] : ~chain[k][m].spent /\ ~chain[k][n].spent => m = n
        /\ \A n \in DOMAIN chain[k] :
              /\ chain[k][n].scope \subseteq keyring[k].scope
              /\ n > 1 => /\ chain[k][n].seen <= 1
                          /\ chain[k][n].scope \subseteq chain[k][n - 1].scope
                          /\ AccessRank(k, n) <= AccessRank(k, n - 1)
=============================================================================
