----------------------------- MODULE MCServices -----------------------------
(***************************************************************************)
(* For each service the people, requests and rows between which its        *)
(* hazards need to happen, and no more.                                    *)
(***************************************************************************)
EXTENDS Services, MCChatTurns, MCLists

CONSTANTS
    ada, bob, drill, guest, ann, invite, subject,
    turn, long, title, voice, ip1, ip2, report, r1, r2

\* Every part has the same two requests under way, and tells them apart in nothing.
MCSymmetry == Permutations({r1, r2})

-----------------------------------------------------------------------------
(* Accounts and the agent                                                  *)

MCInvited == invite :> [email |-> bob, role |-> "admin"]
MCSubjectEmail == subject :> bob

MCAddress == turn :> ip1 @@ long :> ip2 @@ title :> ip1 @@ voice :> ip2
MCUserOf == turn :> guest @@ long :> ann @@ title :> guest @@ voice :> guest
MCFirstRole == guest :> "public_manager" @@ ann :> "admin"
MCMayUse == report :> {"public_manager", "admin"}

\* A note may mention nobody, oneself or a colleague.
MCTexts == {{}, {ada}, {bob}}

=============================================================================
