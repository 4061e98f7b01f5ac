----------------------------- MODULE AgentLoop -----------------------------
(***************************************************************************)
(* The reasoning loop of a chat turn and what it may spend.  A turn calls  *)
(* the model, runs the tools the model asks for with the rights its user   *)
(* has at that moment, and calls again, up to a number of steps; a report  *)
(* tool calls the model itself, twice at most; the title of a new chat is  *)
(* one more call beside the turn.  Calls for the public demo are paid from *)
(* an hourly budget, in all and per address: each reserves its estimate,   *)
(* and settles by dropping the reservation and then recording its cost,    *)
(* which nothing keeps below the estimate.  A voice recording that is to   *)
(* be transcribed is a paid call of its own that reserves nothing.  Costs  *)
(* are in units of the estimate's grain.                                   *)
(***************************************************************************)
EXTENDS Integers, FiniteSets, Functions

CONSTANTS
    Turns,          \* turns running in one server process
    Titles,         \* title generations beside them
    Voices,         \* voice recordings to transcribe
    Address,        \* Address[c]: the client address of a turn, title or recording
    Everyone,       \* stands for all addresses together
    UserOf,         \* UserOf[c]: the user it runs for
    Users,
    Roles,          \* ASSIGNABLE_ROLES
    FirstRole,      \* FirstRole[u]: the role user u starts with
    DemoRole,       \* "public_manager"
    Tools,
    MayUse,         \* MayUse[tool]: the roles that may run it
    Delegating,     \* the tools that hand a report to the specialist
    GlobalCap, AddressCap,
    Estimate,       \* what a call reserves
    Costs,          \* what a call may turn out to cost
    Dearest,        \* the most a call can cost
    MaxSteps,       \* iterations of the loop
    Slow,           \* whether a call may outlast its reservation
    NoTool

Callers == Turns \cup Titles \cup Voices
Addresses == {Address[c] : c \in Callers}

\* demo_call_reserve_usd is an estimate: a call may cost less or more.
ASSUME AgentAssumption ==
    /\ Dearest \in Nat /\ Costs \subseteq 0..Dearest
    /\ Estimate \in 1..Dearest
    /\ Everyone \notin Addresses
    /\ Voices \cap (Turns \cup Titles) = {}
    /\ GlobalCap \in Nat /\ AddressCap \in 0..GlobalCap /\ MaxSteps \in Nat \ {0}
    /\ IsFiniteSet(Callers)
    /\ UserOf \in [Callers -> Users] /\ FirstRole \in [Users -> Roles \cup {DemoRole}]
    /\ NoTool \notin Tools

VARIABLES
    role,           \* role[u]: the stored role of user u, "none" once disabled
    agent,          \* agent[c]: where each turn, title or recording stands
    reserved,       \* callers whose reservation is still held
    spent,          \* spent[a]: cost recorded for address a in the last hour
    overtaken       \* history: the budgets that admitted a call past one they do not see

agentVars == <<role, agent, reserved, spent, overtaken>>

NotRunning == [at |-> "rest", principal |-> "none", step |-> 0, cost |-> 0,
           tool |-> NoTool, attempt |-> 0, stale |-> FALSE]

-----------------------------------------------------------------------------
(* The budget *)

OnDemo(c) == agent[c].principal = DemoRole

\* One budget for all addresses together, and one for each.
Budgets == Addresses \cup {Everyone}
PaidFrom(b) == IF b = Everyone THEN Addresses ELSE {b}
Cap(b) == IF b = Everyone THEN GlobalCap ELSE AddressCap
BudgetsOf(c) == {Everyone, Address[c]}

Spent(b) == SumFunctionOnSet(spent, PaidFrom(b))
CallersOf(b) == {c \in Callers : Address[c] \in PaidFrom(b)}

\* _reserved_totals_unlocked.
Reserved(b) == Estimate * Cardinality(reserved \cap CallersOf(b))

\* Faulty: reservations of other calls are not counted.
Fits_SpentOnly(c) == \A b \in BudgetsOf(c) : Spent(b) + Estimate <= Cap(b)

\* The projection of reserve.
Fits(c) == \A b \in BudgetsOf(c) : Spent(b) + Reserved(b) + Estimate <= Cap(b)

\* check, before a step of a turn and before a transcription.
Exhausted(c) == \E b \in BudgetsOf(c) : Spent(b) >= Cap(b)

\* Calls under way or unrecorded that reserve does not see: they never reserved,
\* or their reservation has been dropped by settle, or evicted because they take
\* too long.
Hidden(b) == {c \in CallersOf(b) : /\ OnDemo(c) /\ agent[c].at \in {"calling", "record"}
                                   /\ c \notin reserved}

-----------------------------------------------------------------------------
(* Starting *)

AgentInit ==
    /\ role = FirstRole
    /\ agent = [c \in Callers |-> NotRunning]
    /\ reserved = {}
    /\ spent = [a \in Addresses |-> 0]
    /\ overtaken = {}

\* Where a call that is refused or fails leads: it ends the turn or the title, but
\* of a report only the tool.
Ended(c) == IF agent[c].tool = NoTool THEN "over" ELSE "next"

Move(c, to) == agent' = [agent EXCEPT ![c] = to]

\* A message starts a turn, the first message of a chat a title, and a recording a
\* transcription, each for the role its user has then.
StartAgent(c) ==
    /\ agent[c].at = "rest" /\ role[UserOf[c]] # "none"
    /\ Move(c, [NotRunning EXCEPT !.at = IF c \in Titles THEN "reserve" ELSE "check",
                              !.principal = role[UserOf[c]]])
    /\ UNCHANGED <<role, reserved, spent, overtaken>>

\* An administrator changes the role of a user or disables the account.
ChangeRole(u, to) ==
    /\ role[u] # DemoRole /\ role[u] # to
    /\ role' = [role EXCEPT ![u] = to]
    /\ agent' = [c \in Callers |->
          IF UserOf[c] = u /\ agent[c].at = "run" THEN [agent[c] EXCEPT !.stale = TRUE]
          ELSE agent[c]]
    /\ UNCHANGED <<reserved, spent, overtaken>>

-----------------------------------------------------------------------------
(* Calls to the model *)

\* The pre-flight check of each step.
Preflight(c) ==
    /\ c \in Turns /\ agent[c].at = "check"
    /\ Move(c, [agent[c] EXCEPT !.at = IF OnDemo(c) /\ Exhausted(c) THEN "over" ELSE "reserve"])
    /\ UNCHANGED <<role, reserved, spent, overtaken>>

\* A recording is transcribed at once, without a reservation, unless the budget of a
\* demo visitor is exhausted or there is nothing to hear.
Transcribe(c) ==
    /\ c \in Voices /\ agent[c].at = "check"
    /\ \/ /\ ~(OnDemo(c) /\ Exhausted(c))
          /\ Move(c, [agent[c] EXCEPT !.at = "calling"])
          /\ overtaken' = overtaken \cup IF OnDemo(c) THEN BudgetsOf(c) ELSE {}
       \/ /\ Move(c, [agent[c] EXCEPT !.at = "over"])
          /\ UNCHANGED overtaken
    /\ UNCHANGED <<role, reserved, spent>>

\* reserve, which admits a demo call or ends the turn, the title or the report.
Reserve(c) ==
    /\ agent[c].at = "reserve"
    /\ IF OnDemo(c) /\ ~Fits(c)
       THEN /\ Move(c, [agent[c] EXCEPT !.at = Ended(c)])
            /\ UNCHANGED <<reserved, overtaken>>
       ELSE /\ Move(c, [agent[c] EXCEPT !.at = "calling"])
            /\ reserved' = IF OnDemo(c) THEN reserved \cup {c} ELSE reserved
            /\ overtaken' = overtaken \cup
                  {b \in BudgetsOf(c) : OnDemo(c) /\ Hidden(b) # {}}
    /\ UNCHANGED <<role, spent>>

\* _reserved_totals_unlocked forgets a reservation older than its time to live.
Evict(c) ==
    /\ Slow /\ c \in reserved
    /\ reserved' = reserved \ {c}
    /\ UNCHANGED <<role, agent, spent, overtaken>>

\* The call fails: release, and the turn, title or report ends with an error.
CallFails(c) ==
    /\ agent[c].at = "calling"
    /\ reserved' = reserved \ {c}
    /\ Move(c, [agent[c] EXCEPT !.at = Ended(c)])
    /\ UNCHANGED <<role, spent, overtaken>>

\* The call returns, and settle drops its reservation.
CallReturns(c, cost) ==
    /\ agent[c].at = "calling"
    /\ reserved' = reserved \ {c}
    /\ Move(c, [agent[c] EXCEPT !.at = "record", !.cost = cost])
    /\ UNCHANGED <<role, spent, overtaken>>

\* record, and what the answer of the model asks for: nothing more, a tool, or
\* for a report specialist that the report is taken or, once, tried again.
Record(c) ==
    /\ agent[c].at = "record"
    /\ spent' = IF OnDemo(c) THEN [spent EXCEPT ![Address[c]] = @ + agent[c].cost] ELSE spent
    /\ LET on(at) == [agent[c] EXCEPT !.at = at, !.cost = 0]
       IN  IF agent[c].tool # NoTool
           THEN \/ Move(c, on("next"))
                \/ agent[c].attempt < 2 /\ Move(c, [on("reserve") EXCEPT !.attempt = @ + 1])
           ELSE \/ Move(c, on("over"))
                \/ /\ c \in Turns /\ agent[c].step < MaxSteps
                   /\ \E tool \in Tools : Move(c, [on("tool") EXCEPT !.tool = tool])
    /\ UNCHANGED <<role, reserved, overtaken>>

\* A row of the log leaves the window.
WindowMoves(a, cost) ==
    /\ cost > 0 /\ spent[a] >= cost
    /\ spent' = [spent EXCEPT ![a] = @ - cost]
    /\ UNCHANGED <<role, agent, reserved, overtaken>>

-----------------------------------------------------------------------------
(* Tools *)

\* Faulty: the role the turn started with decides.
RefreshPrincipal_AtStart(c) ==
    /\ agent[c].at = "tool"
    /\ Move(c, [agent[c] EXCEPT !.stale = FALSE,
          !.at = IF agent[c].principal \in MayUse[agent[c].tool] THEN "run" ELSE "next"])
    /\ UNCHANGED <<role, reserved, spent, overtaken>>

\* refresh_auth_principal and tool_allowed, at the boundary of execution.
RefreshPrincipal(c) ==
    /\ agent[c].at = "tool"
    /\ LET live == role[UserOf[c]]
       IN  Move(c, [agent[c] EXCEPT !.principal = live, !.stale = FALSE,
               !.at = IF live \in MayUse[agent[c].tool] THEN "run" ELSE "next"])
    /\ UNCHANGED <<role, reserved, spent, overtaken>>

\* The handler runs in a thread of its own; a report tool first has the
\* specialist write the report.
RunTool(c) ==
    /\ agent[c].at = "run"
    /\ Move(c, IF agent[c].tool \in Delegating
               THEN [agent[c] EXCEPT !.at = "reserve", !.attempt = 1]
               ELSE [agent[c] EXCEPT !.at = "next"])
    /\ UNCHANGED <<role, reserved, spent, overtaken>>

\* Another tool of the same answer, or the next step; after the last step a turn
\* that is not the demo's asks once more, without tools, for a summary.
NextStep(c) ==
    /\ agent[c].at = "next"
    /\ LET here == [agent[c] EXCEPT !.tool = NoTool, !.attempt = 0]
           step == agent[c].step + 1
       IN  \/ \E tool \in Tools : Move(c, [here EXCEPT !.at = "tool", !.tool = tool])
           \/ Move(c, [here EXCEPT !.step = step,
                 !.at = IF step < MaxSteps THEN "check"
                        ELSE IF OnDemo(c) THEN "over" ELSE "reserve"])
    /\ UNCHANGED <<role, reserved, spent, overtaken>>

\* The reply is stored and the next message of the chat may come.
FinishAgent(c) ==
    /\ agent[c].at = "over"
    /\ Move(c, NotRunning)
    /\ UNCHANGED <<role, reserved, spent, overtaken>>

AgentNext ==
    \/ \E c \in Callers :
          \/ StartAgent(c) \/ Preflight(c) \/ Transcribe(c) \/ Reserve(c)
          \/ Evict(c) \/ CallFails(c)
          \/ \E cost \in Costs : CallReturns(c, cost)
          \/ Record(c) \/ RefreshPrincipal(c) \/ RunTool(c) \/ NextStep(c) \/ FinishAgent(c)
    \/ \E u \in Users, to \in Roles \cup {"none"} : ChangeRole(u, to)
    \/ \E a \in Addresses, cost \in Costs : WindowMoves(a, cost)

AgentSpec == AgentInit /\ [][AgentNext]_agentVars

-----------------------------------------------------------------------------
(* Properties *)

\* What the demo has spent in the window or may still spend on calls under way.
Due(call) ==
    IF call.principal # DemoRole THEN 0
    ELSE CASE call.at = "calling" -> Dearest
           [] call.at = "record" -> call.cost
           [] OTHER -> 0
Committed(b) == Spent(b) + SumFunctionOnSet([c \in Callers |-> Due(agent[c])], CallersOf(b))

\* The demo passes each of its hourly budgets by no more than what its calls under way
\* cost above their estimates, as long as reserve sees every call; once a call was
\* admitted while another was hidden from it (settle drops before it records, slow
\* calls lose their reservation, and a transcription makes none), by no more than
\* what these calls cost.
DemoSpendBounded ==
    \A b \in Budgets :
        Committed(b) <= Cap(b) + Cardinality(CallersOf(b)) *
            (IF b \in overtaken THEN Dearest ELSE Dearest - Estimate)

\* "a demotion, disable, or key revocation that happened after the prompt was
\* built wins": no tool runs for a role its user lost before the tool's turn came.
ToolsUseLiveRole ==
    \A c \in Turns : agent[c].at = "run" /\ ~agent[c].stale =>
        role[UserOf[c]] \in MayUse[agent[c].tool]

=============================================================================
