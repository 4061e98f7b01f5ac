------------------------------ MODULE Services ------------------------------
(***************************************************************************)
(* What the app does around the books of a company: who may come in, the   *)
(* apps connected to it, agent turns on chat sessions and what they may    *)
(* cost, internal notes, and lists with their cached counts.  As in        *)
(* Company, no step of one part touches what another part keeps: `service` *)
(* picks the part that moves.                                              *)
(***************************************************************************)
EXTENDS ChatTurns, Accounts, AppGrants, AgentLoop, TeamNotes, Lists

VARIABLE service      \* the part that moves

servicesVars == <<service, vars, accountVars, grantVars, agentVars, noteVars, listVars>>

ServicesInit ==
    /\ service \in {"chats", "accounts", "grants", "agent", "notes", "lists"}
    /\ Init /\ AccountsInit /\ GrantInit /\ AgentInit /\ NotesInit /\ ListsInit
    \* A part that stays as it is need not start in more than one way.
    /\ service # "grants" => \A u \in Owners : live[u] = CHOOSE r \in Ranks : TRUE

\* The step A of part p, whose state is v; every other part stays as it is.
Moves(p, A, v) == IF service = p THEN A ELSE UNCHANGED v

ServicesNext ==
    /\ UNCHANGED service
    /\ Moves("chats", Next, vars)
    /\ Moves("accounts", AccountsNext, accountVars)
    /\ Moves("grants", GrantNext, grantVars)
    /\ Moves("agent", AgentNext, agentVars)
    /\ Moves("notes", NotesNext, noteVars)
    /\ Moves("lists", ListsNext, listVars)

ServicesSpec == ServicesInit /\ [][ServicesNext]_servicesVars

=============================================================================
