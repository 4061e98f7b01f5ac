--------------------------- MODULE AssistantProofs --------------------------
(***************************************************************************)
(* The assistant at work, for any sessions, handlers, processes, messages, *)
(* users, tools and roles: one turn per session, as long as a turn does not*)
(* outlive its lease, tools only for live roles, and the demo within its   *)
(* hourly budget.                                                          *)
(***************************************************************************)
EXTENDS ChatTurns, AgentLoop, Sums, TLAPS

\* ChatTurns: one turn per session.  The claim on the row carries the argument: while a
\* session exists, whoever is in a turn holds its unexpired claim, so nobody else can be
\* granted one.

Busy(h) == job[h].pc \in {"save", "think", "call", "release"}

\* A handler at work has a turn number that was given out, to it alone.
Numbered == \A h \in Handlers : Busy(h) => job[h].turn \in 1..turns

\* Whoever is in a turn of an existing session holds its unexpired claim.
HoldsClaim ==
    \A h \in Handlers : InTurn(h) /\ session[Chat(h)].open =>
        session[Chat(h)].holder = h /\ ~session[Chat(h)].expired

TurnInv == /\ TypeOK
           /\ Numbered
           /\ HoldsClaim
           /\ OneTurnAtATime
           /\ NoStrayMessage

\* The idle job is a job.
LEMMA IdleType == Idle \in Jobs /\ Idle.pc = "idle"
BY ChatTurnsAssumption DEF Idle, Jobs, Kinds

\* A request that arrives sets its handler to work.
LEMMA RequestedJob ==
  ASSUME job \in [Handlers -> Jobs], turns \in 0..MaxTurns,
         NEW h \in Handlers, NEW c \in Chats, NEW kind \in Kinds, Request(h, c, kind)
  PROVE  job' \in [Handlers -> Jobs]
<1> DEFINE pc == CASE kind = "message" -> "claim" [] kind = "audit" -> "save"
                    [] OTHER -> "check"
           n == IF kind = "audit" THEN turns' ELSE 0
<1>1. pc \in {"claim", "save", "check"}
  BY DEF Kinds
<1>2. n \in 0..MaxTurns
  BY ChatTurnsAssumption DEF Request
<1>3. job' = [job EXCEPT ![h] =
                 [job[h] EXCEPT !.kind = kind, !.chat = c, !.turn = n, !.pc = pc]]
  BY DEF Request
<1> HIDE DEF pc, n
<1> QED BY <1>1, <1>2, <1>3 DEF Jobs

\* Storing a message keeps the types and never fills a deleted session.
LEMMA StoreSafe ==
    ASSUME TurnInv, NEW h \in Handlers, Busy(h),
           NEW who \in {"user", "tool_call", "tool_result", "assistant"}, Store(h, who)
    PROVE  /\ log' \in [Chats -> Seq(Messages)]
           /\ \A c \in Chats : ~session[c].open => log'[c] = <<>>
<1> USE DEF TurnInv, TypeOK
<1>1. Entry(h, who) \in Messages
  <2>1. job[h].turn \in 1..MaxTurns
    BY ChatTurnsAssumption DEF Numbered
  <2>2. (job[h].kind = "audit") \in BOOLEAN
    OBVIOUS
  <2> QED BY <2>1, <2>2 DEF Entry, Messages
<1>2. Chat(h) \in Chats /\ log[Chat(h)] \in Seq(Messages)
  BY DEF Chat, Jobs
<1>3. log' = [log EXCEPT ![Chat(h)] = Append(log[Chat(h)], Entry(h, who))]
  BY DEF Store
<1>4. Append(log[Chat(h)], Entry(h, who)) \in Seq(Messages)
  BY <1>1, <1>2
<1>5. log' \in [Chats -> Seq(Messages)]
  BY <1>3, <1>4
<1>6. \A c \in Chats : ~session[c].open => log'[c] = <<>>
  BY <1>3, <1>2 DEF Store, NoStrayMessage
<1> QED BY <1>5, <1>6

-----------------------------------------------------------------------------
(* The inductive step, action by action *)

\* An action that leaves the rows of the sessions alone and brings no handler
\* into a turn keeps every claim.
LEMMA ClaimsKept ==
    ASSUME TurnInv, session' = session,
           \A h \in Handlers : InTurn(h)' => InTurn(h) /\ Chat(h)' = Chat(h)
    PROVE  HoldsClaim' /\ OneTurnAtATime'
BY DEF TurnInv, HoldsClaim, OneTurnAtATime

\* Every step of a chat keeps the turns exclusive, as long as none outlives its lease.
LEMMA TurnStep ==
    ASSUME TurnInv, ~Outlive, [Next]_vars
    PROVE  TurnInv'
<1> USE DEF TurnInv, TypeOK
<1>1. ASSUME NEW h \in Handlers, NEW c \in Chats, NEW kind \in Kinds, Request(h, c, kind)
      PROVE  TurnInv'
  <2>1. turns' \in turns..MaxTurns /\ turns' \in 0..MaxTurns
    BY <1>1, ChatTurnsAssumption DEF Request
  <2>2. job' \in [Handlers -> Jobs]
    BY <1>1, RequestedJob
  <2>3. TypeOK'
    BY <1>1, <2>1, <2>2 DEF Request
  <2>4. Numbered'
    BY <1>1, <2>1 DEF Request, Numbered, Busy, Jobs, Kinds
  <2>5. \A g \in Handlers : InTurn(g)' => InTurn(g) /\ Chat(g)' = Chat(g)
    BY <1>1 DEF Request, InTurn, Chat, Jobs, At
  <2>6. NoStrayMessage'
    BY <1>1 DEF Request, NoStrayMessage
  <2> QED BY <2>3, <2>4, <2>5, <2>6, <1>1, ClaimsKept DEF Request
<1>2. ASSUME NEW h \in Handlers, Claim(h)
      PROVE  TurnInv'
  <2>1. Chat(h) \in Chats /\ session[Chat(h)].open /\ ~Running(Chat(h))
    BY <1>2 DEF Claim, Claimable, Chat, Jobs
  <2>2. turns' = turns + 1 /\ turns' \in 1..MaxTurns
    BY <1>2, ChatTurnsAssumption DEF Claim
  <2>3. session' \in [Chats -> SessionRows] /\ job' \in [Handlers -> Jobs]
    <3>1. job' = [job EXCEPT ![h] = [job[h] EXCEPT !.pc = "save", !.turn = turns']]
      BY <1>2 DEF Claim
    <3>2. turns' \in 0..MaxTurns
      BY <2>2, ChatTurnsAssumption
    <3>3. session' = [session EXCEPT ![Chat(h)] =
                         [session[Chat(h)] EXCEPT !.holder = h, !.expired = FALSE]]
      BY <1>2 DEF Claim
    <3> QED BY <2>1, <3>1, <3>2, <3>3 DEF SessionRows, Jobs
  <2>4. TypeOK'
    BY <1>2, <2>2, <2>3 DEF Claim
  <2>5. Numbered'
    BY <1>2, <2>2 DEF Claim, Numbered, Busy, Jobs
  <2>6. \A g \in Handlers : g # h => (InTurn(g)' <=> InTurn(g)) /\ Chat(g)' = Chat(g)
    BY <1>2 DEF Claim, InTurn, Chat
  <2>7. Chat(h)' = Chat(h)
    BY <1>2 DEF Claim, Chat, Jobs
  <2>8. \A g \in Handlers : InTurn(g) => Chat(g) # Chat(h)
    BY <2>1, ChatTurnsAssumption DEF HoldsClaim, Running
  <2>9. session'[Chat(h)].holder = h /\ ~session'[Chat(h)].expired
    BY <1>2, <2>1 DEF Claim, SessionRows
  <2>10. \A d \in Chats : d # Chat(h) => session'[d] = session[d]
    BY <1>2 DEF Claim
  <2>11. \A d \in Chats : session'[d].open = session[d].open
    BY <1>2, <2>1 DEF Claim, SessionRows
  <2>12. \A g \in Handlers : Chat(g) \in Chats
    BY DEF Chat, Jobs
  <2>13. HoldsClaim'
    BY <2>6, <2>7, <2>8, <2>9, <2>10, <2>11, <2>12 DEF HoldsClaim
  <2>14. OneTurnAtATime'
    BY <2>6, <2>7, <2>8 DEF OneTurnAtATime
  <2>15. NoStrayMessage'
    BY <1>2, <2>11 DEF Claim, NoStrayMessage
  <2> QED BY <2>4, <2>5, <2>13, <2>14, <2>15
<1>3. ASSUME NEW h \in Handlers, Refuse(h)
      PROVE  TurnInv'
  <2>1. job' \in [Handlers -> Jobs] /\ Done(h)
    BY <1>3, IdleType DEF Refuse, Done
  <2>2. UNCHANGED <<session, log, turns, awaited>>
    BY <1>3 DEF Refuse
  <2>3. Numbered'
    BY <2>1, <2>2, IdleType DEF Done, Numbered, Busy
  <2>4. \A g \in Handlers : InTurn(g)' => InTurn(g) /\ Chat(g)' = Chat(g)
    BY <2>1, IdleType DEF Done, InTurn, Chat
  <2> QED BY <2>1, <2>2, <2>3, <2>4, ClaimsKept DEF NoStrayMessage
<1>4. ASSUME NEW h \in Handlers, SaveQuestion(h)
      PROVE  TurnInv'
  <2>1. Busy(h) /\ Store(h, "user") /\ Goto(h, "think") /\ UNCHANGED <<session, turns>>
    BY <1>4 DEF SaveQuestion, Busy, At
  <2>2. log' \in [Chats -> Seq(Messages)] /\ NoStrayMessage'
    BY <2>1, StoreSafe DEF NoStrayMessage
  <2>3. job' \in [Handlers -> Jobs]
    BY <2>1 DEF Goto, Jobs
  <2>4. awaited' \subseteq 1..turns
    BY <1>4, <2>1 DEF SaveQuestion, Numbered
  <2>5. Numbered'
    BY <2>1 DEF Goto, Numbered, Busy, Jobs
  <2>6. \A g \in Handlers : InTurn(g)' => InTurn(g) /\ Chat(g)' = Chat(g)
    BY <1>4 DEF SaveQuestion, Goto, InTurn, Chat, At, Jobs
  <2> QED BY <2>1, <2>2, <2>3, <2>4, <2>5, <2>6, ClaimsKept
<1>5. ASSUME NEW h \in Handlers, CallTool(h)
      PROVE  TurnInv'
  <2>1. Busy(h) /\ UNCHANGED <<session, turns, awaited>>
    BY <1>5 DEF CallTool, Busy, At
  <2>2. log' \in [Chats -> Seq(Messages)] /\ NoStrayMessage'
    BY <1>5, <2>1, StoreSafe DEF CallTool, NoStrayMessage
  <2>3. job' \in [Handlers -> Jobs]
    <3>1. job[h].calls + 1 \in 0..MaxCalls
      <4>1. job[h].calls \in 0..MaxCalls
        BY DEF Jobs
      <4>2. job[h].calls < MaxCalls
        BY <1>5 DEF CallTool
      <4> QED BY <4>1, <4>2, ChatTurnsAssumption
    <3>2. job' = [job EXCEPT ![h] = [job[h] EXCEPT !.pc = "call", !.calls = job[h].calls + 1]]
      BY <1>5 DEF CallTool
    <3> QED BY <3>1, <3>2 DEF Jobs
  <2>5. Numbered'
    BY <1>5, <2>1 DEF CallTool, Numbered, Busy, Jobs
  <2>6. \A g \in Handlers : InTurn(g)' => InTurn(g) /\ Chat(g)' = Chat(g)
    BY <1>5 DEF CallTool, InTurn, Chat, At, Jobs
  <2> QED BY <2>1, <2>2, <2>3, <2>5, <2>6, ClaimsKept
<1>6. ASSUME NEW h \in Handlers, TraceResult(h)
      PROVE  TurnInv'
  <2>1. Busy(h) /\ Goto(h, "think") /\ UNCHANGED <<session, turns, awaited>>
    BY <1>6 DEF TraceResult, Busy, At
  <2>2. log' \in [Chats -> Seq(Messages)] /\ NoStrayMessage'
    BY <1>6, <2>1, StoreSafe DEF TraceResult, NoStrayMessage
  <2>3. job' \in [Handlers -> Jobs]
    BY <2>1 DEF Goto, Jobs
  <2>5. Numbered'
    BY <2>1 DEF Goto, Numbered, Busy, Jobs
  <2>6. \A g \in Handlers : InTurn(g)' => InTurn(g) /\ Chat(g)' = Chat(g)
    BY <1>6 DEF TraceResult, Goto, InTurn, Chat, At, Jobs
  <2> QED BY <2>1, <2>2, <2>3, <2>5, <2>6, ClaimsKept
<1>7. ASSUME NEW h \in Handlers, StoreReply(h)
      PROVE  TurnInv'
  <2>1. Busy(h) /\ Store(h, "assistant") /\ Goto(h, "release") /\ UNCHANGED <<session, turns>>
    BY <1>7 DEF StoreReply, Busy, At
  <2>2. log' \in [Chats -> Seq(Messages)] /\ NoStrayMessage'
    BY <2>1, StoreSafe DEF NoStrayMessage
  <2>3. job' \in [Handlers -> Jobs]
    BY <2>1 DEF Goto, Jobs
  <2>4. awaited' \subseteq 1..turns
    BY <1>7 DEF StoreReply
  <2>5. Numbered'
    BY <2>1 DEF Goto, Numbered, Busy, Jobs
  <2>6. \A g \in Handlers : InTurn(g)' => InTurn(g) /\ Chat(g)' = Chat(g)
    BY <1>7 DEF StoreReply, Goto, InTurn, Chat, At, Jobs
  <2> QED BY <2>1, <2>2, <2>3, <2>4, <2>5, <2>6, ClaimsKept
<1>8. ASSUME NEW h \in Handlers, Fail(h)
      PROVE  TurnInv'
  <2>1. Busy(h) /\ Goto(h, "release") /\ UNCHANGED <<session, log, turns>>
    BY <1>8 DEF Fail, Busy, At
  <2>3. job' \in [Handlers -> Jobs]
    BY <2>1 DEF Goto, Jobs
  <2>4. awaited' \subseteq 1..turns
    BY <1>8 DEF Fail
  <2>5. Numbered'
    BY <2>1 DEF Goto, Numbered, Busy, Jobs
  <2>6. \A g \in Handlers : InTurn(g)' => InTurn(g) /\ Chat(g)' = Chat(g)
    BY <1>8 DEF Fail, Goto, InTurn, Chat, At, Jobs
  <2> QED BY <2>1, <2>3, <2>4, <2>5, <2>6, ClaimsKept DEF NoStrayMessage
<1>9. ASSUME NEW h \in Handlers, Release(h)
      PROVE  TurnInv'
  <2>1. job' \in [Handlers -> Jobs] /\ Done(h) /\ UNCHANGED <<log, turns, awaited>>
    BY <1>9, IdleType DEF Release, Done
  <2>2. Chat(h) \in Chats
    BY DEF Chat, Jobs
  <2>3. session' \in [Chats -> SessionRows]
    BY <1>9, <2>2 DEF Release, SessionRows
  <2>4. \A c \in Chats : session'[c].open = session[c].open
    BY <1>9, <2>2 DEF Release, SessionRows
  <2>5. \A c \in Chats : session[c].holder # h => session'[c] = session[c]
    BY <1>9, <2>2 DEF Release, Owner
  <2>6. Numbered'
    BY <2>1, IdleType DEF Done, Numbered, Busy
  <2>7. \A g \in Handlers : InTurn(g)' => g # h /\ InTurn(g) /\ Chat(g)' = Chat(g)
    BY <2>1, IdleType DEF Done, InTurn, Chat
  <2>8. \A g \in Handlers : Chat(g) \in Chats
    BY DEF Chat, Jobs
  <2>9. HoldsClaim'
    BY <2>4, <2>5, <2>7, <2>8 DEF HoldsClaim
  <2>10. OneTurnAtATime'
    BY <2>7 DEF OneTurnAtATime
  <2>11. NoStrayMessage'
    BY <2>1, <2>4 DEF NoStrayMessage
  <2> QED BY <2>1, <2>3, <2>6, <2>9, <2>10, <2>11
<1>10. ASSUME NEW h \in Handlers, Check(h)
       PROVE  TurnInv'
  <2>1. Goto(h, "purge") /\ At(h, "check") /\ UNCHANGED <<session, log, turns, awaited>>
    BY <1>10 DEF Check
  <2>3. job' \in [Handlers -> Jobs]
    BY <2>1 DEF Goto, Jobs
  <2>5. Numbered'
    BY <2>1 DEF Goto, Numbered, Busy, Jobs
  <2>6. \A g \in Handlers : InTurn(g)' => InTurn(g) /\ Chat(g)' = Chat(g)
    BY <2>1 DEF Goto, InTurn, Chat, At, Jobs
  <2> QED BY <2>1, <2>3, <2>5, <2>6, ClaimsKept DEF NoStrayMessage
<1>11. ASSUME NEW h \in Handlers, Purge(h)
       PROVE  TurnInv'
  <2>1. job' \in [Handlers -> Jobs] /\ Done(h) /\ UNCHANGED <<turns, awaited>>
    BY <1>11, IdleType DEF Purge, Done
  <2>2. Chat(h) \in Chats
    BY DEF Chat, Jobs
  <2>3. session' \in [Chats -> SessionRows]
    BY <1>11, <2>2, ChatTurnsAssumption DEF Purge, SessionRows
  <2>4. log' = [log EXCEPT ![Chat(h)] = <<>>]
    BY <1>11 DEF Purge
  <2>5. log' \in [Chats -> Seq(Messages)]
    BY <2>4, <2>2
  <2>6. Numbered'
    BY <2>1, IdleType DEF Done, Numbered, Busy
  <2>7. \A g \in Handlers : InTurn(g)' => InTurn(g) /\ Chat(g)' = Chat(g)
    BY <2>1, IdleType DEF Done, InTurn, Chat
  <2>8. \A g \in Handlers : Chat(g) \in Chats
    BY DEF Chat, Jobs
  <2>9. \A c \in Chats : session'[c] = session[c] \/ (c = Chat(h) /\ ~session'[c].open)
    BY <1>11, <2>2 DEF Purge, SessionRows
  <2>10. HoldsClaim'
    BY <2>7, <2>8, <2>9 DEF HoldsClaim
  <2>11. OneTurnAtATime'
    BY <2>7 DEF OneTurnAtATime
  <2>12. NoStrayMessage'
    BY <2>4, <2>9, <2>2 DEF NoStrayMessage
  <2> QED BY <2>1, <2>3, <2>5, <2>6, <2>10, <2>11, <2>12
<1>12. ASSUME NEW p \in Processes, Crash(p)
       PROVE  TurnInv'
  <2> DEFINE lost == {h \in Handlers : ProcessOf[h] = p /\ ~At(h, "idle")}
  <2>1. /\ job' = [h \in Handlers |-> IF h \in lost THEN Idle ELSE job[h]]
        /\ awaited' \subseteq awaited
        /\ UNCHANGED <<session, log, turns>>
    BY <1>12 DEF Crash
  <2>2. \A h \in Handlers : job'[h] = Idle \/ job'[h] = job[h]
    BY <2>1
  <2> HIDE DEF lost
  <2>3. job' \in [Handlers -> Jobs]
    BY <2>1, IdleType
  <2>4. Numbered'
    BY <2>1, <2>2, IdleType DEF Numbered, Busy
  <2>5. \A g \in Handlers : InTurn(g)' => InTurn(g) /\ Chat(g)' = Chat(g)
    BY <2>2, IdleType DEF InTurn, Chat
  <2> QED BY <2>1, <2>3, <2>4, <2>5, ClaimsKept DEF NoStrayMessage
<1>13. ASSUME NEW c \in Chats, Lapse(c)
       PROVE  TurnInv'
  <2>1. UNCHANGED <<log, job, turns, awaited>>
    BY <1>13 DEF Lapse
  <2>2. session' = [session EXCEPT ![c] = [session[c] EXCEPT !.expired = TRUE]]
    BY <1>13 DEF Lapse
  <2>3. session' \in [Chats -> SessionRows] /\ \A d \in Chats : session'[d].open = session[d].open
    BY <2>2 DEF SessionRows
  <2>4. \A h \in Handlers : InTurn(h) /\ session[Chat(h)].open => Chat(h) # c
    BY <1>13 DEF Lapse, Lapsing, HoldsClaim
  <2>5. \A h \in Handlers : Chat(h) \in Chats
    BY DEF Chat, Jobs
  <2>6. HoldsClaim'
    BY <2>1, <2>2, <2>3, <2>4, <2>5 DEF HoldsClaim, InTurn, Chat
  <2>7. OneTurnAtATime' /\ Numbered'
    BY <2>1 DEF OneTurnAtATime, InTurn, Chat, Numbered, Busy
  <2>8. NoStrayMessage'
    BY <2>1, <2>3 DEF NoStrayMessage
  <2> QED BY <2>1, <2>3, <2>6, <2>7, <2>8
<1>14. CASE UNCHANGED vars
  BY <1>14 DEF vars, HoldsClaim, OneTurnAtATime, NoStrayMessage, Numbered, Busy, InTurn, Chat
<1> QED
  BY <1>1, <1>2, <1>3, <1>4, <1>5, <1>6, <1>7, <1>8, <1>9, <1>10, <1>11, <1>12, <1>13, <1>14
     DEF Next, Step, Disconnect

\* Nobody is in a turn when the server starts.
LEMMA TurnInit == Init => TurnInv
<1> SUFFICES ASSUME Init PROVE TurnInv
  OBVIOUS
<1>1. session \in [Chats -> SessionRows] /\ job \in [Handlers -> Jobs]
  BY IdleType DEF Init, SessionRows
<1>2. log \in [Chats -> Seq(Messages)] /\ turns \in 0..MaxTurns /\ awaited \subseteq 1..turns
  BY ChatTurnsAssumption DEF Init
<1>3. \A h \in Handlers : ~Busy(h) /\ ~InTurn(h)
  BY IdleType DEF Init, Busy, InTurn
<1>4. NoStrayMessage
  BY DEF Init, NoStrayMessage
<1> QED BY <1>1, <1>2, <1>3, <1>4 DEF TurnInv, TypeOK, Numbered, HoldsClaim, OneTurnAtATime

-----------------------------------------------------------------------------
(* The results *)

\* While no turn outlives its lease, whoever is in a turn holds the claim.
THEOREM ClaimInvariant == ~Outlive /\ Spec => []TurnInv
<1>1. ASSUME ~Outlive PROVE TurnInv /\ [Next]_vars => TurnInv'
  BY <1>1, TurnStep
<1>2. CASE Outlive
  BY <1>2
<1>3. CASE ~Outlive
  BY <1>1, <1>3, TurnInit, PTL DEF Spec
<1> QED BY <1>2, <1>3

\* Two turns never run on one session at the same time, whatever is claimed,
\* deleted or lost with its process (claim_session_turn, release_session_turn).
THEOREM OneTurnPerSession == ~Outlive /\ Spec => []OneTurnAtATime
<1>1. TurnInv => OneTurnAtATime
  BY DEF TurnInv
<1> QED BY <1>1, ClaimInvariant, PTL

\* A deleted session has no messages, whatever its turn still tries to store.
THEOREM DeletedLeavesNothing == ~Outlive /\ Spec => []NoStrayMessage
<1>1. TurnInv => NoStrayMessage
  BY DEF TurnInv
<1> QED BY <1>1, ClaimInvariant, PTL

-----------------------------------------------------------------------------
(* The history reads as one exchange after the other *)

Positions(c) == 1..Len(log[c])

\* Turn numbers are given out once, to a message or to a stateless call.
Given == \A c \in Chats : \A i \in Positions(c) : log[c][i].turn \in 1..turns
Asking == \A h \in Handlers : Busy(h) => job[h].kind \in {"message", "audit"}
Distinct == \A g, h \in Handlers : Busy(g) /\ Busy(h) /\ job[g].turn = job[h].turn => g = h
SameKind ==
    \A h \in Handlers, c \in Chats : Busy(h) =>
        \A i \in Positions(c) : log[c][i].turn = job[h].turn =>
            log[c][i].audit = (job[h].kind = "audit")

\* What follows the messages of a turn that is still running is part of it.
StillLast ==
    \A h \in Handlers, c \in Chats : InTurn(h) /\ Chat(h) = c =>
        \A i, j \in Positions(c) :
            i < j /\ log[c][i].turn = job[h].turn /\ ~log[c][j].audit
            => log[c][j].turn = job[h].turn

\* Only a message claims a turn.
ClaimingIsMessage == \A h \in Handlers : At(h, "claim") => job[h].kind = "message"

Ordered == /\ Given /\ Asking /\ Distinct /\ SameKind /\ StillLast /\ TurnsContiguous
           /\ ClaimingIsMessage

\* No message is stored, and a handler at work was at work on the same before.
LEMMA OrderKept ==
    ASSUME TurnInv, Ordered, turns' = turns, ClaimingIsMessage',
           \A c \in Chats : log'[c] = log[c] \/ log'[c] = <<>>,
           \A h \in Handlers : Busy(h)' =>
               /\ Busy(h)
               /\ job'[h].turn = job[h].turn
               /\ job'[h].kind = job[h].kind
               /\ job'[h].chat = job[h].chat
    PROVE  Ordered'
<1> USE DEF Ordered
<1>1. \A c \in Chats : \/ Positions(c)' = Positions(c) /\ log'[c] = log[c]
                      \/ Positions(c)' = {}
  BY DEF Positions
<1>2. \A h \in Handlers : InTurn(h)' => Busy(h)' /\ InTurn(h) /\ Chat(h)' = Chat(h)
  BY DEF InTurn, Busy, Chat
<1>3. Given'
  BY <1>1 DEF Given
<1>4. Asking' /\ Distinct'
  BY DEF Asking, Distinct
<1>5. SameKind'
  BY <1>1 DEF SameKind
<1>6. StillLast'
  BY <1>1, <1>2 DEF StillLast
<1>7. TurnsContiguous'
  BY <1>1 DEF TurnsContiguous, Positions
<1> QED BY <1>3, <1>4, <1>5, <1>6, <1>7

\* A handler receives the next turn number.
LEMMA OrderGiven ==
    ASSUME TurnInv, Ordered, NEW h \in Handlers,
           turns' = turns + 1, log' = log, job'[h].turn = turns', ClaimingIsMessage',
           job'[h].kind \in {"message", "audit"},
           \A g \in Handlers \ {h} : job'[g] = job[g]
    PROVE  Ordered'
<1> USE DEF Ordered
<1>1. turns \in Nat
  BY ChatTurnsAssumption DEF TurnInv, TypeOK
<1>2. Given'
  BY <1>1 DEF Given, Positions
<1>3. \A c \in Chats : \A i \in Positions(c) : log[c][i].turn # turns + 1
  BY <1>1 DEF Given
<1>4. \A g \in Handlers \ {h} : Busy(g)' => Busy(g) /\ job[g].turn # turns + 1
  BY <1>1 DEF Busy, TurnInv, Numbered
<1>5. Asking' /\ Distinct'
  BY <1>4 DEF Asking, Distinct, Busy
<1>6. SameKind'
  BY <1>3, <1>4 DEF SameKind, Positions
<1>7. StillLast'
  BY <1>3 DEF StillLast, Positions, InTurn, Chat
<1>8. TurnsContiguous'
  BY DEF TurnsContiguous
<1> QED BY <1>2, <1>5, <1>6, <1>7, <1>8

\* A handler at work stores a message of its turn.
LEMMA OrderStored ==
    ASSUME TurnInv, Ordered, NEW h \in Handlers, Busy(h),
           NEW who, Store(h, who), turns' = turns, ClaimingIsMessage',
           \A g \in Handlers : Busy(g)' =>
               /\ Busy(g)
               /\ job'[g].turn = job[g].turn
               /\ job'[g].kind = job[g].kind
               /\ job'[g].chat = job[g].chat
    PROVE  Ordered'
<1> USE DEF Ordered
<1>a. PICK d \in Chats : d = Chat(h)
  BY DEF TurnInv, TypeOK, Chat, Jobs
<1>b. PICK l \in Seq(Messages) : l = log[d]
  BY DEF TurnInv, TypeOK
<1>c. PICK n \in Nat : n = Len(l) + 1
  BY <1>b
<1>d. PICK e : e = Entry(h, who)
  OBVIOUS
<1>2. /\ \A c \in Chats \ {d} : log'[c] = log[c]
      /\ log'[d] = Append(l, e)
  BY <1>a, <1>b, <1>d DEF Store, TurnInv, TypeOK
<1>3. /\ Len(log'[d]) = n /\ log'[d][n] = e
      /\ \A i \in 1..Len(l) : log'[d][i] = l[i]
  BY <1>2, <1>c
<1>4. e.turn = job[h].turn /\ e.audit = (job[h].kind = "audit")
  BY <1>d DEF Entry
<1>5. ~e.audit => InTurn(h)
  BY <1>4 DEF Asking, InTurn, Busy
<1>6. \A g \in Handlers : InTurn(g)' =>
          InTurn(g) /\ Busy(g)' /\ Chat(g)' = Chat(g) /\ job'[g].turn = job[g].turn
  BY DEF InTurn, Busy, Chat
<1>7. Positions(d) = 1..Len(l) /\ Positions(d)' = 1..n
      /\ \A c \in Chats \ {d} : Positions(c)' = Positions(c)
  BY <1>2, <1>3, <1>b DEF Positions
<1>8. \A i \in 1..n : i = n \/ i \in 1..Len(l)
  BY <1>c
<1>9. Given'
  <2>1. e.turn \in 1..turns
    BY <1>4 DEF TurnInv, Numbered
  <2> QED BY <2>1, <1>b, <1>2, <1>3, <1>7, <1>8 DEF Given
<1>10. Asking' /\ Distinct'
  BY DEF Asking, Distinct
<1>11. SameKind'
  <2> SUFFICES ASSUME NEW g \in Handlers, NEW c \in Chats, Busy(g)',
                      NEW i \in Positions(c)', log'[c][i].turn = job'[g].turn
               PROVE  log'[c][i].audit = (job'[g].kind = "audit")
    BY DEF SameKind
  <2>1. CASE c # d
    BY <2>1, <1>2, <1>7 DEF SameKind
  <2>2. CASE c = d /\ i = n
    BY <2>2, <1>3, <1>4 DEF Distinct
  <2>3. CASE c = d /\ i # n
    BY <2>3, <1>b, <1>3, <1>7, <1>8 DEF SameKind
  <2> QED BY <2>1, <2>2, <2>3
<1>12. StillLast'
  <2> SUFFICES ASSUME NEW g \in Handlers, NEW c \in Chats, InTurn(g)', Chat(g)' = c,
                      NEW i \in Positions(c)', NEW j \in Positions(c)', i < j,
                      log'[c][i].turn = job'[g].turn, ~log'[c][j].audit
               PROVE  log'[c][j].turn = job'[g].turn
    BY DEF StillLast
  <2>1. CASE c # d
    BY <2>1, <1>2, <1>6, <1>7 DEF StillLast
  <2>2. CASE c = d /\ j = n
    <3>1. InTurn(h) /\ InTurn(g) /\ Chat(g) = Chat(h)
      BY <2>2, <1>a, <1>3, <1>5, <1>6
    <3>2. g = h
      BY <3>1 DEF TurnInv, OneTurnAtATime
    <3> QED BY <3>2, <2>2, <1>3, <1>4, <1>6
  <2>3. CASE c = d /\ j # n
    <3>1. i \in 1..Len(l) /\ j \in 1..Len(l)
      BY <2>3, <1>c, <1>7
    <3> QED BY <3>1, <2>3, <1>b, <1>3, <1>6, <1>7 DEF StillLast
  <2> QED BY <2>1, <2>2, <2>3
<1>13. TurnsContiguous'
  <2> SUFFICES ASSUME NEW c \in Chats,
                      NEW i \in Positions(c)', NEW j \in Positions(c)', NEW k \in Positions(c)',
                      i < j, j < k, log'[c][i].turn = log'[c][k].turn,
                      ~log'[c][i].audit, ~log'[c][j].audit
               PROVE  log'[c][j].turn = log'[c][i].turn
    BY DEF TurnsContiguous, Positions
  <2>1. CASE c # d
    BY <2>1, <1>2, <1>7 DEF TurnsContiguous, Positions
  <2>2. CASE c = d /\ k = n
    <3>1. i \in 1..Len(l) /\ j \in 1..Len(l)
      BY <2>2, <1>c, <1>7
    <3>2. l[i].turn = job[h].turn /\ ~l[i].audit /\ ~l[j].audit
      BY <3>1, <2>2, <1>3, <1>4
    <3>3. job[h].kind # "audit"
      BY <3>1, <3>2, <1>b, <1>7 DEF SameKind
    <3>4. InTurn(h)
      BY <3>3, <1>4, <1>5
    <3>5. l[j].turn = job[h].turn
      BY <3>1, <3>2, <3>4, <1>a, <1>b, <1>7 DEF StillLast
    <3> QED BY <3>1, <3>2, <3>5, <2>2, <1>3
  <2>3. CASE c = d /\ k # n
    <3>1. i \in 1..Len(l) /\ j \in 1..Len(l) /\ k \in 1..Len(l)
      BY <2>3, <1>c, <1>7
    <3>2. /\ l[i].turn = l[k].turn /\ ~l[i].audit /\ ~l[j].audit
          /\ log'[d][j] = l[j] /\ log'[d][i] = l[i]
      BY <3>1, <2>3, <1>3
    <3>3. l[j].turn = l[i].turn
      BY <3>1, <3>2, <1>b DEF TurnsContiguous
    <3> QED BY <3>2, <3>3, <2>3
  <2> QED BY <2>1, <2>2, <2>3
<1> QED BY <1>9, <1>10, <1>11, <1>12, <1>13

\* Every step keeps the messages of a chat in order.
LEMMA OrderStep ==
    ASSUME TurnInv, Ordered, [Next]_vars
    PROVE  Ordered'
<1> USE DEF TurnInv, TypeOK
<1>1. ASSUME NEW h \in Handlers, NEW c \in Chats, NEW kind \in Kinds, Request(h, c, kind)
      PROVE  Ordered'
  <2>1. log' = log /\ \A g \in Handlers \ {h} : job'[g] = job[g]
    BY <1>1 DEF Request
  <2>a. ClaimingIsMessage'
    BY <1>1 DEF Request, ClaimingIsMessage, Ordered, At, Jobs, Kinds
  <2>2. CASE kind = "audit"
    BY <1>1, <2>1, <2>a, <2>2, OrderGiven DEF Request, Jobs
  <2>3. CASE kind # "audit"
    <3>1. turns' = turns /\ ~Busy(h)'
      BY <1>1, <2>3 DEF Request, Busy, Jobs, Kinds
    <3>2. \A g \in Handlers \ {h} : Busy(g)' <=> Busy(g)
      BY <2>1 DEF Busy
    <3> QED BY <2>1, <2>a, <3>1, <3>2, OrderKept
  <2> QED BY <2>2, <2>3
<1>2. ASSUME NEW h \in Handlers, Claim(h)
      PROVE  Ordered'
  <2>1. job[h].kind = "message"
    BY <1>2 DEF Claim, At, Ordered, ClaimingIsMessage
  <2>2. ClaimingIsMessage'
    BY <1>2 DEF Claim, ClaimingIsMessage, Ordered, At, Jobs
  <2> QED BY <1>2, <2>1, <2>2, OrderGiven DEF Claim, Jobs
<1>3. ASSUME NEW h \in Handlers, Done(h), UNCHANGED turns,
             \A c \in Chats : log'[c] = log[c] \/ log'[c] = <<>>
      PROVE  Ordered'
  <2>1. \A g \in Handlers : job'[g] = Idle \/ job'[g] = job[g]
    BY <1>3 DEF Done
  <2>2. \A g \in Handlers : Busy(g)' => Busy(g) /\ job'[g] = job[g]
    BY <2>1, IdleType DEF Busy
  <2>3. ClaimingIsMessage'
    BY <2>1, IdleType DEF ClaimingIsMessage, Ordered, At
  <2> QED BY <1>3, <2>2, <2>3, OrderKept
<1>4. ASSUME NEW h \in Handlers, Refuse(h) \/ Release(h) \/ Purge(h)
      PROVE  Ordered'
  <2>1. Done(h) /\ UNCHANGED turns /\ \A c \in Chats : log'[c] = log[c] \/ log'[c] = <<>>
    BY <1>4 DEF Refuse, Release, Purge
  <2> QED BY <1>3, <2>1
<1>5. ASSUME NEW h \in Handlers, UNCHANGED turns, Busy(h), log' = log \/ \E who : Store(h, who),
             \E pc \in {"think", "call", "release"} : \E calls :
                 job' = [job EXCEPT ![h] = [job[h] EXCEPT !.pc = pc, !.calls = calls]]
      PROVE  Ordered'
  <2>1. \A g \in Handlers : Busy(g)' =>
            /\ Busy(g) /\ job'[g].turn = job[g].turn
            /\ job'[g].kind = job[g].kind /\ job'[g].chat = job[g].chat
    BY <1>5 DEF Busy, Jobs
  <2>2. ClaimingIsMessage'
    BY <1>5 DEF ClaimingIsMessage, Ordered, At, Jobs
  <2>3. CASE log' = log
    BY <1>5, <2>1, <2>2, <2>3, OrderKept
  <2>4. CASE \E who : Store(h, who)
    BY <1>5, <2>1, <2>2, <2>4, OrderStored
  <2> QED BY <1>5, <2>3, <2>4
<1>6. \A h \in Handlers : \A p :
          job[h] = [job[h] EXCEPT !.calls = job[h].calls] /\
          [job[h] EXCEPT !.pc = p] = [job[h] EXCEPT !.pc = p, !.calls = job[h].calls]
  BY DEF Jobs
<1>7. ASSUME NEW h \in Handlers, SaveQuestion(h)
      PROVE  Ordered'
  <2>1. Busy(h) /\ Store(h, "user") /\ UNCHANGED turns
    BY <1>7 DEF SaveQuestion, Busy, At
  <2>2. job' = [job EXCEPT ![h] = [job[h] EXCEPT !.pc = "think", !.calls = job[h].calls]]
    BY <1>6, <1>7 DEF SaveQuestion, Goto
  <2> QED BY <2>1, <2>2, <1>5
<1>8. ASSUME NEW h \in Handlers, CallTool(h)
      PROVE  Ordered'
  <2>1. Busy(h) /\ (log' = log \/ Store(h, "tool_call")) /\ UNCHANGED turns
    BY <1>8 DEF CallTool, Busy, At
  <2>2. job' = [job EXCEPT ![h] = [job[h] EXCEPT !.pc = "call", !.calls = job[h].calls + 1]]
    BY <1>8 DEF CallTool
  <2> QED BY <2>1, <2>2, <1>5
<1>9. ASSUME NEW h \in Handlers, TraceResult(h)
      PROVE  Ordered'
  <2>1. Busy(h) /\ (log' = log \/ Store(h, "tool_result")) /\ UNCHANGED turns
    BY <1>9 DEF TraceResult, Busy, At
  <2>2. job' = [job EXCEPT ![h] = [job[h] EXCEPT !.pc = "think", !.calls = job[h].calls]]
    BY <1>6, <1>9 DEF TraceResult, Goto
  <2> QED BY <2>1, <2>2, <1>5
<1>10. ASSUME NEW h \in Handlers, StoreReply(h)
       PROVE  Ordered'
  <2>1. Busy(h) /\ Store(h, "assistant") /\ UNCHANGED turns
    BY <1>10 DEF StoreReply, Busy, At
  <2>2. job' = [job EXCEPT ![h] = [job[h] EXCEPT !.pc = "release", !.calls = job[h].calls]]
    BY <1>6, <1>10 DEF StoreReply, Goto
  <2> QED BY <2>1, <2>2, <1>5
<1>11. ASSUME NEW h \in Handlers, Fail(h)
       PROVE  Ordered'
  <2>1. Busy(h) /\ log' = log /\ UNCHANGED turns
    BY <1>11 DEF Fail, Busy, At
  <2>2. job' = [job EXCEPT ![h] = [job[h] EXCEPT !.pc = "release", !.calls = job[h].calls]]
    BY <1>6, <1>11 DEF Fail, Goto
  <2> QED BY <2>1, <2>2, <1>5
<1>12. ASSUME NEW h \in Handlers, Check(h)
       PROVE  Ordered'
  <2>1. UNCHANGED <<log, turns>> /\ job' = [job EXCEPT ![h] = [job[h] EXCEPT !.pc = "purge"]]
    BY <1>12 DEF Check, Goto
  <2>2. \A g \in Handlers : Busy(g)' => Busy(g) /\ job'[g] = job[g]
    BY <2>1 DEF Busy, Jobs
  <2>3. ClaimingIsMessage'
    BY <2>1 DEF ClaimingIsMessage, Ordered, At, Jobs
  <2> QED BY <2>1, <2>2, <2>3, OrderKept
<1>13. ASSUME NEW p \in Processes, Crash(p)
       PROVE  Ordered'
  <2>1. UNCHANGED <<log, turns>> /\ \A g \in Handlers : job'[g] = Idle \/ job'[g] = job[g]
    BY <1>13 DEF Crash
  <2>2. \A g \in Handlers : Busy(g)' => Busy(g) /\ job'[g] = job[g]
    BY <2>1, IdleType DEF Busy
  <2>3. ClaimingIsMessage'
    BY <2>1, IdleType DEF ClaimingIsMessage, Ordered, At
  <2> QED BY <2>1, <2>2, <2>3, OrderKept
<1>14. CASE (\E c \in Chats : Lapse(c)) \/ UNCHANGED vars
  <2>1. UNCHANGED <<log, turns, job>>
    BY <1>14 DEF Lapse, vars
  <2> QED BY <2>1, OrderKept DEF Busy, At, ClaimingIsMessage, Ordered
<1> QED
  BY <1>1, <1>2, <1>4, <1>7, <1>8, <1>9, <1>10, <1>11, <1>12, <1>13, <1>14
     DEF Next, Step, Disconnect

\* Between two messages of a turn stands no message of another turn, whatever is
\* cleared meanwhile: a history reads as one exchange after the other.
THEOREM HistoryInOrder == ~Outlive /\ Spec => []TurnsContiguous
<1>1. Init => Ordered
  <2> SUFFICES ASSUME Init PROVE Ordered
    OBVIOUS
  <2>1. \A h \in Handlers : ~Busy(h) /\ ~InTurn(h) /\ ~At(h, "claim")
    BY IdleType DEF Init, Busy, InTurn, At
  <2>2. \A c \in Chats : log[c] = <<>> /\ Positions(c) = {}
    <3>1. \A c \in Chats : log[c] = <<>>
      BY DEF Init
    <3>2. Len(<<>>) = 0 /\ 1..0 = {}
      OBVIOUS
    <3> QED BY <3>1, <3>2 DEF Positions
  <2> QED BY <2>1, <2>2 DEF Ordered, Given, Asking, Distinct, SameKind, StillLast,
                            TurnsContiguous, Positions, ClaimingIsMessage
<1>2. TurnInv /\ Ordered /\ [Next]_vars => Ordered'
  BY OrderStep
<1>3. Ordered => TurnsContiguous
  BY DEF Ordered
<1> QED BY <1>1, <1>2, <1>3, ClaimInvariant, PTL DEF Spec

-----------------------------------------------------------------------------
(* A claim is its turn's own, also when turns outlive their leases *)

\* The types of what a claim is about, which hold however long a turn takes.
ClaimTypes == /\ session \in [Chats -> SessionRows]
              /\ job \in [Handlers -> Jobs]
              /\ turns \in 0..MaxTurns

\* In chat c the claim of h stands, or is given up as ClaimIsOwn allows.
KeepsClaim(c, h) ==
    Running(c) /\ session[c].holder = h =>
        \/ session'[c].holder = h
        \/ At(h, "release") /\ Chat(h) = c /\ ~At(h, "release")'
        \/ ~session'[c].open

\* A step keeps the types, and gives up no claim but that of its own turn, or of a
\* session it deletes (claim_session_turn, release_session_turn, delete_session).
LEMMA ClaimStep ==
  ASSUME ClaimTypes, [Next]_vars
  PROVE  ClaimTypes' /\ \A c \in Chats, h \in Handlers : KeepsClaim(c, h)
<1> USE DEF ClaimTypes
<1>0. \A g \in Handlers : Chat(g) \in Chats /\ job[g].calls \in 0..MaxCalls /\ job[g].turn \in 0..MaxTurns
  BY DEF Jobs, Chat
<1>1. ASSUME NEW g \in Handlers, NEW c \in Chats, NEW kind \in Kinds, Request(g, c, kind)
      PROVE  ClaimTypes' /\ session' = session
  <2>1. session' = session /\ turns' \in 0..MaxTurns
    BY <1>1, ChatTurnsAssumption DEF Request
  <2>2. job' \in [Handlers -> Jobs]
    BY <1>1, RequestedJob
  <2> QED BY <2>1, <2>2
<1>2. ASSUME NEW g \in Handlers, Claim(g)
      PROVE  ClaimTypes' /\ \A c \in Chats, h \in Handlers : KeepsClaim(c, h)
  <2>1. turns' \in 0..MaxTurns
    BY <1>2, ChatTurnsAssumption DEF Claim
  <2>2. job' \in [Handlers -> Jobs]
    BY <1>2, <2>1 DEF Claim, Jobs
  <2>3. session' \in [Chats -> SessionRows]
    BY <1>2, <1>0 DEF Claim, SessionRows
  <2>4. ~Running(Chat(g)) /\ \A c \in Chats : c # Chat(g) => session'[c] = session[c]
    BY <1>2, <1>0 DEF Claim, Claimable
  <2> QED BY <2>1, <2>2, <2>3, <2>4 DEF KeepsClaim
<1>3. ASSUME NEW g \in Handlers, Release(g)
      PROVE  ClaimTypes' /\ \A c \in Chats, h \in Handlers : KeepsClaim(c, h)
  <2>1. job' \in [Handlers -> Jobs] /\ turns' = turns
    BY <1>3, IdleType DEF Release, Done
  <2>2. session' \in [Chats -> SessionRows]
    BY <1>3, <1>0 DEF Release, SessionRows
  <2>3. ASSUME NEW c \in Chats, session'[c] # session[c]
        PROVE  At(g, "release") /\ Chat(g) = c /\ session[c].holder = g /\ ~At(g, "release")'
    <3>1. Owner(g) /\ c = Chat(g)
      BY <1>3, <1>0, <2>3 DEF Release
    <3>2. job'[g] = Idle
      BY <1>3 DEF Release, Done
    <3> QED BY <1>3, <3>1, <3>2, IdleType DEF Release, Owner, At
  <2> QED BY <2>1, <2>2, <2>3 DEF KeepsClaim
<1>4. ASSUME NEW g \in Handlers, Purge(g)
      PROVE  ClaimTypes' /\ \A c \in Chats, h \in Handlers : KeepsClaim(c, h)
  <2>1. job' \in [Handlers -> Jobs] /\ turns' = turns
    BY <1>4, IdleType DEF Purge, Done
  <2>2. session' \in [Chats -> SessionRows]
    BY <1>4, <1>0 DEF Purge, SessionRows
  <2>3. \A c \in Chats : session'[c] = session[c] \/ ~session'[c].open
    BY <1>4, <1>0 DEF Purge
  <2> QED BY <2>1, <2>2, <2>3 DEF KeepsClaim
<1>5. ASSUME NEW c \in Chats, Lapse(c)
      PROVE  ClaimTypes' /\ \A d \in Chats : session'[d].holder = session[d].holder
  BY <1>5 DEF Lapse, SessionRows
<1>6. ASSUME NEW g \in Handlers,
             Refuse(g) \/ SaveQuestion(g) \/ CallTool(g) \/ TraceResult(g) \/ StoreReply(g)
             \/ Fail(g) \/ Check(g)
      PROVE  ClaimTypes' /\ session' = session
  <2>1. session' = session /\ turns' = turns
    BY <1>6 DEF Refuse, SaveQuestion, CallTool, TraceResult, StoreReply, Fail, Check
  <2>2. CASE Done(g)
    BY <2>1, <2>2, IdleType DEF Done
  <2>3. CASE \E pc \in {"think", "release", "purge"} : Goto(g, pc)
    BY <2>1, <2>3 DEF Goto, Jobs
  <2>4. CASE CallTool(g)
    <3>1. job[g].calls + 1 \in 0..MaxCalls
      BY <1>0, <2>4, ChatTurnsAssumption DEF CallTool
    <3>2. job' \in [Handlers -> Jobs]
      BY <2>4, <3>1 DEF CallTool, Jobs
    <3> QED BY <2>1, <3>2
  <2> QED BY <1>6, <2>2, <2>3, <2>4 DEF Refuse, SaveQuestion, TraceResult, StoreReply, Fail, Check
<1>7. ASSUME NEW p \in Processes, Crash(p)
      PROVE  ClaimTypes' /\ session' = session
  <2>1. job' \in [Handlers -> Jobs]
    BY <1>7, IdleType DEF Crash
  <2> QED BY <1>7, <2>1 DEF Crash
<1>8. ASSUME UNCHANGED vars
      PROVE  ClaimTypes' /\ session' = session
  BY <1>8 DEF vars
<1>9. (session' = session \/ \A d \in Chats : session'[d].holder = session[d].holder)
      => \A c \in Chats, h \in Handlers : KeepsClaim(c, h)
  BY DEF KeepsClaim
<1> QED
  BY <1>1, <1>2, <1>3, <1>4, <1>5, <1>6, <1>7, <1>8, <1>9 DEF Next, Step, Disconnect

\* An unexpired claim ends by its own turn or with its session, never by a turn that
\* outlived its lease and comes back to release what it no longer has.
THEOREM ClaimsAreOwn == Spec => ClaimIsOwn
<1>1. Init => ClaimTypes
  BY IdleType, ChatTurnsAssumption DEF Init, ClaimTypes, SessionRows
<1>2. ClaimTypes /\ [Next]_vars => ClaimTypes'
  BY ClaimStep
<1>3. ClaimTypes /\ [Next]_vars =>
      [\A c \in Chats, h \in Handlers :
          Running(c) /\ session[c].holder = h =>
              \/ session'[c].holder = h
              \/ At(h, "release") /\ Chat(h) = c /\ ~At(h, "release")'
              \/ ~session'[c].open]_vars
  BY ClaimStep DEF KeepsClaim
<1> QED BY <1>1, <1>2, <1>3, PTL DEF Spec, ClaimIsOwn

-----------------------------------------------------------------------------
\* AgentLoop: a tool runs for a live role.

AgentPhases == {"rest", "check", "reserve", "calling", "record", "tool", "run", "next", "over"}
AnyRole == Roles \cup {DemoRole, "none"}
Working == [at : AgentPhases, principal : AnyRole, step : 0..MaxSteps, cost : 0..Dearest,
            tool : Tools \cup {NoTool}, attempt : 0..2, stale : BOOLEAN]

AgentTypeOK ==
    /\ role \in [Users -> AnyRole]
    /\ agent \in [Callers -> Working]
    /\ reserved \subseteq Callers

\* Within its steps a turn runs tools; a tool has a step to go on with, a title none.
Bounded(c) ==
    /\ agent[c].at \in {"tool", "run"} => agent[c].tool \in Tools
    /\ agent[c].at \in {"tool", "run", "next"} \/ agent[c].tool # NoTool =>
          c \in Turns /\ agent[c].step < MaxSteps
    /\ agent[c].at = "check" => agent[c].step < MaxSteps

LiveRole(c) ==
    agent[c].at = "run" /\ ~agent[c].stale => role[UserOf[c]] \in MayUse[agent[c].tool]

\* Only a call under way has a reservation.
ReservedAreCalling == \A c \in reserved : agent[c].at = "calling"

AgentInv ==
    /\ AgentTypeOK
    /\ ReservedAreCalling
    /\ \A c \in Callers : Bounded(c) /\ LiveRole(c)

\* The counters start within their bounds.
LEMMA FirstNumbers ==
    0 \in 0..MaxSteps /\ 0 \in 0..Dearest /\ 0 \in 0..2 /\ 1 \in 0..2
BY AgentAssumption

\* At first no turn and no title is under way.
LEMMA InitialAgents == AgentInit => AgentInv
BY AgentAssumption
   DEF AgentInit, AgentInv, AgentTypeOK, ReservedAreCalling, Bounded, LiveRole, NotRunning, Working,
       AgentPhases, AnyRole, Callers

\* A step of one caller, to a state that is not about to run a tool.
LEMMA CallerMoves ==
    ASSUME AgentInv, NEW c \in Callers, NEW to \in Working, Move(c, to), role' = role,
           reserved' \subseteq Callers,
           \A d \in reserved' : d \in reserved \/ d = c,
           c \in reserved' => to.at = "calling",
           to.at \in {"tool", "run"} => to.tool \in Tools,
           to.at \in {"tool", "run", "next"} \/ to.tool # NoTool =>
               c \in Turns /\ to.step < MaxSteps,
           to.at = "check" => to.step < MaxSteps,
           to.at = "run" /\ ~to.stale => role[UserOf[c]] \in MayUse[to.tool]
    PROVE  AgentInv'
<1> USE DEF AgentInv
<1>1. /\ agent' \in [Callers -> Working] /\ agent'[c] = to
      /\ \A d \in Callers : d # c => agent'[d] = agent[d]
  BY DEF Move, AgentTypeOK
<1>2. AgentTypeOK'
  BY <1>1 DEF AgentTypeOK
<1>3. ReservedAreCalling'
  BY <1>1 DEF ReservedAreCalling, AgentTypeOK
<1>4. ASSUME NEW d \in Callers PROVE Bounded(d)' /\ LiveRole(d)'
  BY <1>1 DEF Bounded, LiveRole
<1> QED BY <1>2, <1>3, <1>4

\* A turn starts with its role and no tool.
LEMMA StartAgentPreserves ==
    ASSUME AgentInv, NEW c \in Callers, StartAgent(c)
    PROVE  AgentInv'
<1> DEFINE at == IF c \in Titles THEN "reserve" ELSE "check"
           to == [NotRunning EXCEPT !.at = at, !.principal = role[UserOf[c]]]
<1>1. role[UserOf[c]] \in AnyRole
  BY AgentAssumption DEF AgentInv, AgentTypeOK
<1>2. at \in {"check", "reserve"}
  OBVIOUS
<1> HIDE DEF at
<1>3. /\ to \in Working /\ to.at = at /\ to.tool = NoTool /\ to.step = 0
  BY <1>1, <1>2, FirstNumbers DEF NotRunning, Working, AgentPhases, AnyRole
<1>4. Move(c, to) /\ role' = role /\ reserved' = reserved /\ c \notin reserved
  BY DEF StartAgent, at, AgentInv, ReservedAreCalling
<1> HIDE DEF to
<1> QED BY <1>2, <1>3, <1>4, CallerMoves, AgentAssumption DEF AgentInv, AgentTypeOK

\* What a caller is before its step.
LEMMA CallerBefore ==
    ASSUME AgentInv, NEW c \in Callers
    PROVE  /\ agent[c] \in Working /\ Bounded(c) /\ LiveRole(c)
           /\ agent[c].at # "calling" => c \notin reserved
           /\ reserved \subseteq Callers
BY DEF AgentInv, AgentTypeOK, ReservedAreCalling

\* The check before a step ends the turn or lets it reserve.
LEMMA PreflightPreserves ==
    ASSUME AgentInv, NEW c \in Callers, Preflight(c)
    PROVE  AgentInv'
<1> DEFINE at == IF OnDemo(c) /\ Exhausted(c) THEN "over" ELSE "reserve"
           to == [agent[c] EXCEPT !.at = at]
<1>1. at \in {"over", "reserve"}
  OBVIOUS
<1>2. Move(c, to) /\ role' = role /\ reserved' = reserved /\ agent[c].at = "check"
  BY DEF Preflight
<1> HIDE DEF at
<1>3. to \in Working /\ to.at = at /\ to.tool = agent[c].tool /\ to.step = agent[c].step
  BY <1>1, CallerBefore DEF Working, AgentPhases
<1> HIDE DEF to
<1> QED BY <1>1, <1>2, <1>3, CallerBefore, CallerMoves DEF Bounded

\* A recording is transcribed at once, or not at all.
LEMMA TranscribePreserves ==
    ASSUME AgentInv, NEW c \in Callers, Transcribe(c)
    PROVE  AgentInv'
<1>1. PICK at : /\ at \in {"calling", "over"} /\ Move(c, [agent[c] EXCEPT !.at = at])
  BY DEF Transcribe
<1>2. PICK to : to = [agent[c] EXCEPT !.at = at]
  OBVIOUS
<1>3. Move(c, to) /\ role' = role /\ reserved' = reserved /\ agent[c].at = "check"
  BY <1>1, <1>2 DEF Transcribe
<1>4. to \in Working /\ to.at = at /\ to.tool = agent[c].tool /\ to.step = agent[c].step
  BY <1>1, <1>2, CallerBefore DEF Working, AgentPhases
<1> QED BY <1>1, <1>3, <1>4, CallerBefore, CallerMoves DEF Bounded

\* A reservation is made by the call that then is under way, or refused.
LEMMA ReservePreserves ==
    ASSUME AgentInv, NEW c \in Callers, Reserve(c)
    PROVE  AgentInv'
<1>1. role' = role /\ agent[c].at = "reserve" /\ c \notin reserved
  BY CallerBefore DEF Reserve
<1>2. CASE OnDemo(c) /\ ~Fits(c)
  <2> DEFINE at == Ended(c)
             to == [agent[c] EXCEPT !.at = at]
  <2>1. at \in {"over", "next"} /\ (at = "next" => agent[c].tool # NoTool)
    BY DEF Ended
  <2>2. Move(c, to) /\ reserved' = reserved
    BY <1>2 DEF Reserve
  <2> HIDE DEF at
  <2>3. to \in Working /\ to.at = at /\ to.tool = agent[c].tool /\ to.step = agent[c].step
    BY <2>1, CallerBefore DEF Working, AgentPhases
  <2> HIDE DEF to
  <2> QED BY <1>1, <2>1, <2>2, <2>3, CallerBefore, CallerMoves DEF Bounded
<1>3. CASE ~(OnDemo(c) /\ ~Fits(c))
  <2> DEFINE to == [agent[c] EXCEPT !.at = "calling"]
  <2>1. Move(c, to) /\ reserved' \subseteq reserved \cup {c}
    BY <1>3 DEF Reserve
  <2>2. to \in Working /\ to.at = "calling" /\ to.tool = agent[c].tool /\ to.step = agent[c].step
    BY CallerBefore DEF Working, AgentPhases
  <2> HIDE DEF to
  <2> QED BY <1>1, <2>1, <2>2, CallerBefore, CallerMoves DEF Bounded
<1> QED BY <1>2, <1>3

\* A call that fails or returns gives its reservation back.
LEMMA CallEndsPreserves ==
    ASSUME AgentInv, NEW c \in Callers,
           CallFails(c) \/ \E cost \in Costs : CallReturns(c, cost)
    PROVE  AgentInv'
<1>1. CASE CallFails(c)
  <2> DEFINE at == Ended(c)
             to == [agent[c] EXCEPT !.at = at]
  <2>1. at \in {"over", "next"} /\ (at = "next" => agent[c].tool # NoTool)
    BY DEF Ended
  <2>2. Move(c, to) /\ reserved' = reserved \ {c} /\ role' = role
    BY <1>1 DEF CallFails
  <2> HIDE DEF at
  <2>3. to \in Working /\ to.at = at /\ to.tool = agent[c].tool /\ to.step = agent[c].step
    BY <2>1, CallerBefore DEF Working, AgentPhases
  <2> HIDE DEF to
  <2> QED BY <2>1, <2>2, <2>3, CallerBefore, CallerMoves DEF Bounded
<1>2. ASSUME NEW cost \in Costs, CallReturns(c, cost) PROVE AgentInv'
  <2> DEFINE to == [agent[c] EXCEPT !.at = "record", !.cost = cost]
  <2>1. Move(c, to) /\ reserved' = reserved \ {c} /\ role' = role
    BY <1>2 DEF CallReturns
  <2>2. to \in Working /\ to.at = "record" /\ to.tool = agent[c].tool /\ to.step = agent[c].step
    BY CallerBefore, AgentAssumption DEF Working, AgentPhases
  <2> HIDE DEF to
  <2> QED BY <2>1, <2>2, CallerBefore, CallerMoves DEF Bounded
<1> QED BY <1>1, <1>2

\* After the cost is recorded a turn ends, goes on with a tool, or retries its report.
LEMMA RecordPreserves ==
    ASSUME AgentInv, NEW c \in Callers, Record(c)
    PROVE  AgentInv'
<1> DEFINE on(at) == [agent[c] EXCEPT !.at = at, !.cost = 0]
<1>1. role' = role /\ reserved' = reserved /\ c \notin reserved
  BY CallerBefore DEF Record
<1>2. \/ agent[c].tool # NoTool /\ Move(c, on("next"))
      \/ /\ agent[c].tool # NoTool /\ agent[c].attempt < 2
         /\ Move(c, [on("reserve") EXCEPT !.attempt = @ + 1])
      \/ Move(c, on("over"))
      \/ /\ c \in Turns /\ agent[c].step < MaxSteps
         /\ \E tool \in Tools : Move(c, [on("tool") EXCEPT !.tool = tool])
  BY DEF Record
<1>3. ASSUME NEW at \in AgentPhases
      PROVE  /\ on(at) \in Working /\ on(at).at = at /\ on(at).tool = agent[c].tool
             /\ on(at).step = agent[c].step /\ on(at).attempt = agent[c].attempt
  BY CallerBefore, FirstNumbers DEF Working
<1>4. {"next", "reserve", "over", "tool"} \subseteq AgentPhases
  BY DEF AgentPhases
<1> HIDE DEF on
<1>5. CASE agent[c].tool # NoTool /\ Move(c, on("next"))
  BY <1>1, <1>3, <1>4, <1>5, CallerBefore, CallerMoves DEF Bounded
<1>6. CASE /\ agent[c].tool # NoTool /\ agent[c].attempt < 2
           /\ Move(c, [on("reserve") EXCEPT !.attempt = @ + 1])
  <2> DEFINE here == on("reserve")
             to == [here EXCEPT !.attempt = here.attempt + 1]
  <2>1. here \in Working /\ here.at = "reserve" /\ here.tool = agent[c].tool
        /\ here.step = agent[c].step /\ here.attempt < 2
    BY <1>3, <1>4, <1>6
  <2>2. Move(c, to)
    BY <1>6
  <2> HIDE DEF here
  <2>3. to \in Working /\ to.at = "reserve" /\ to.tool = agent[c].tool /\ to.step = agent[c].step
    BY <2>1 DEF Working
  <2> HIDE DEF to
  <2> QED BY <1>1, <2>2, <2>3, CallerBefore, CallerMoves DEF Bounded
<1>7. CASE Move(c, on("over"))
  BY <1>1, <1>3, <1>4, <1>7, CallerBefore, CallerMoves DEF Bounded
<1>8. ASSUME c \in Turns, agent[c].step < MaxSteps, NEW tool \in Tools,
             Move(c, [on("tool") EXCEPT !.tool = tool])
      PROVE  AgentInv'
  <2> DEFINE here == on("tool")
             to == [here EXCEPT !.tool = tool]
  <2>1. here \in Working /\ here.at = "tool" /\ here.step = agent[c].step
    BY <1>3, <1>4
  <2>2. Move(c, to)
    BY <1>8
  <2> HIDE DEF here
  <2>3. to \in Working /\ to.at = "tool" /\ to.tool = tool /\ to.step = agent[c].step
    BY <2>1 DEF Working
  <2> HIDE DEF to
  <2> QED BY <1>1, <1>8, <2>2, <2>3, CallerMoves, CallerBefore
<1> QED BY <1>2, <1>5, <1>6, <1>7, <1>8

\* The role is read again before a tool runs, and the tool is checked against it.
LEMMA RefreshPreserves ==
    ASSUME AgentInv, NEW c \in Callers, RefreshPrincipal(c)
    PROVE  AgentInv'
<1> DEFINE live == role[UserOf[c]]
           at == IF live \in MayUse[agent[c].tool] THEN "run" ELSE "next"
           to == [agent[c] EXCEPT !.principal = live, !.stale = FALSE, !.at = at]
<1>1. Move(c, to) /\ role' = role /\ reserved' = reserved /\ agent[c].at = "tool"
  BY DEF RefreshPrincipal
<1>2. live \in AnyRole
  BY AgentAssumption DEF AgentInv, AgentTypeOK
<1>3. at \in {"run", "next"} /\ (at = "run" => live \in MayUse[agent[c].tool])
  OBVIOUS
<1> HIDE DEF at, live
<1>4. to \in Working /\ to.at = at /\ to.tool = agent[c].tool /\ to.step = agent[c].step
  BY <1>2, <1>3, CallerBefore DEF Working, AgentPhases
<1> HIDE DEF to
<1> QED BY <1>1, <1>3, <1>4, CallerBefore, CallerMoves DEF Bounded, live

\* A tool that ran either asks for a report or is done.
LEMMA RunToolPreserves ==
    ASSUME AgentInv, NEW c \in Callers, RunTool(c)
    PROVE  AgentInv'
<1> DEFINE report == [agent[c] EXCEPT !.at = "reserve", !.attempt = 1]
           done == [agent[c] EXCEPT !.at = "next"]
<1>1. /\ Move(c, report) \/ Move(c, done)
      /\ role' = role /\ reserved' = reserved /\ agent[c].at = "run"
  BY DEF RunTool
<1>2. /\ report \in Working /\ report.at = "reserve" /\ report.tool = agent[c].tool
      /\ report.step = agent[c].step
      /\ done \in Working /\ done.at = "next" /\ done.tool = agent[c].tool
      /\ done.step = agent[c].step
  BY CallerBefore, FirstNumbers DEF Working, AgentPhases
<1> HIDE DEF report, done
<1> QED BY <1>1, <1>2, CallerBefore, CallerMoves DEF Bounded

\* The next tool of the reply, or the next step within the bound.
LEMMA NextStepPreserves ==
    ASSUME AgentInv, NEW c \in Callers, NextStep(c)
    PROVE  AgentInv'
<1> DEFINE here == [agent[c] EXCEPT !.tool = NoTool, !.attempt = 0]
           step == agent[c].step + 1
           at == IF step < MaxSteps THEN "check" ELSE IF OnDemo(c) THEN "over" ELSE "reserve"
<1>1. role' = role /\ reserved' = reserved /\ agent[c].at = "next"
  BY DEF NextStep
<1>2. \/ \E tool \in Tools : Move(c, [here EXCEPT !.at = "tool", !.tool = tool])
      \/ Move(c, [here EXCEPT !.step = step, !.at = at])
  BY DEF NextStep
<1>3. /\ here \in Working /\ here.tool = NoTool /\ here.step = agent[c].step
      /\ c \in Turns /\ agent[c].step < MaxSteps /\ c \notin reserved
  <2>1. agent[c] \in Working /\ Bounded(c) /\ c \notin reserved
    BY <1>1, CallerBefore
  <2>2. here \in Working /\ here.tool = NoTool /\ here.step = agent[c].step
    BY <2>1, FirstNumbers DEF Working
  <2>3. c \in Turns /\ agent[c].step < MaxSteps
    BY <1>1, <2>1 DEF Bounded
  <2> QED BY <2>1, <2>2, <2>3
<1>4. /\ step \in 0..MaxSteps /\ at \in {"check", "over", "reserve"}
      /\ at = "check" => step < MaxSteps
  BY <1>3, CallerBefore, AgentAssumption DEF Working
<1> HIDE DEF here, step, at
<1>5. ASSUME NEW tool \in Tools, Move(c, [here EXCEPT !.at = "tool", !.tool = tool])
      PROVE  AgentInv'
  <2> DEFINE to == [here EXCEPT !.at = "tool", !.tool = tool]
  <2>1. to \in Working /\ to.at = "tool" /\ to.tool = tool /\ to.step = agent[c].step
    BY <1>3 DEF Working, AgentPhases
  <2>2. Move(c, to)
    BY <1>5
  <2> HIDE DEF to
  <2> QED BY <1>1, <1>3, <2>1, <2>2, CallerMoves, CallerBefore
<1>6. CASE Move(c, [here EXCEPT !.step = step, !.at = at])
  <2> DEFINE to == [here EXCEPT !.step = step, !.at = at]
  <2>1. to \in Working /\ to.at = at /\ to.tool = NoTool /\ to.step = step
    BY <1>3, <1>4 DEF Working, AgentPhases
  <2>2. Move(c, to)
    BY <1>6
  <2> HIDE DEF to
  <2> QED BY <1>1, <1>3, <1>4, <2>1, <2>2, CallerMoves, CallerBefore
<1> QED BY <1>2, <1>5, <1>6

\* A caller that is over starts afresh.
LEMMA FinishAgentPreserves ==
    ASSUME AgentInv, NEW c \in Callers, FinishAgent(c)
    PROVE  AgentInv'
<1>1. NotRunning \in Working /\ NotRunning.at = "rest" /\ NotRunning.tool = NoTool
  BY AgentAssumption DEF NotRunning, Working, AgentPhases, AnyRole
<1>2. Move(c, NotRunning) /\ role' = role /\ reserved' = reserved /\ c \notin reserved
  BY CallerBefore DEF FinishAgent
<1> QED BY <1>1, <1>2, CallerMoves, CallerBefore

\* Whoever is about to run a tool is marked when the role of its user changes.
LEMMA ChangeRolePreserves ==
    ASSUME AgentInv, NEW u \in Users, NEW to \in Roles \cup {"none"}, ChangeRole(u, to)
    PROVE  AgentInv'
<1> USE DEF AgentInv
<1>1. role' \in [Users -> AnyRole] /\ \A v \in Users : v # u => role'[v] = role[v]
  BY DEF ChangeRole, AgentTypeOK, AnyRole
<1>2. reserved' = reserved /\ agent' = [c \in Callers |->
          IF UserOf[c] = u /\ agent[c].at = "run"
          THEN [agent[c] EXCEPT !.stale = TRUE] ELSE agent[c]]
  BY DEF ChangeRole
<1>3. ASSUME NEW c \in Callers
      PROVE  /\ agent'[c] \in Working /\ agent'[c].at = agent[c].at
             /\ agent'[c].tool = agent[c].tool /\ agent'[c].step = agent[c].step
             /\ UserOf[c] = u /\ agent[c].at = "run" => agent'[c].stale
             /\ UserOf[c] # u => agent'[c] = agent[c]
  <2>1. agent[c] \in Working
    BY DEF AgentTypeOK
  <2>2. CASE UserOf[c] = u /\ agent[c].at = "run"
    <3>1. agent'[c] = [agent[c] EXCEPT !.stale = TRUE]
      BY <1>2, <2>2
    <3> QED BY <2>1, <2>2, <3>1 DEF Working
  <2>3. CASE ~(UserOf[c] = u /\ agent[c].at = "run")
    BY <1>2, <2>1, <2>3
  <2> QED BY <2>2, <2>3
<1>4. AgentTypeOK'
  BY <1>1, <1>2, <1>3 DEF AgentTypeOK
<1>5. ReservedAreCalling'
  BY <1>2, <1>3 DEF ReservedAreCalling, AgentTypeOK
<1>6. ASSUME NEW c \in Callers PROVE Bounded(c)' /\ LiveRole(c)'
  <2>1. Bounded(c)'
    BY <1>3 DEF Bounded
  <2>2. LiveRole(c)'
    BY <1>1, <1>3, AgentAssumption DEF LiveRole
  <2> QED BY <2>1, <2>2
<1> QED BY <1>4, <1>5, <1>6

\* A reservation that is forgotten, and rows that leave the window.
LEMMA BooksMove ==
    ASSUME AgentInv, UNCHANGED <<role, agent>>, reserved' \subseteq reserved
    PROVE  AgentInv'
BY DEF AgentInv, AgentTypeOK, ReservedAreCalling, Bounded, LiveRole

\* Every state: only a call under way has a reservation, a turn stays within its steps, a
\* title runs no tool, and whoever runs one may (api/chat.py, the agent loop).
THEOREM AgentInvariant == AgentSpec => []AgentInv
<1>1. AgentInv /\ [AgentNext]_agentVars => AgentInv'
  <2> SUFFICES ASSUME AgentInv, [AgentNext]_agentVars PROVE AgentInv'
    OBVIOUS
  <2>1. CASE UNCHANGED agentVars
    BY <2>1, BooksMove DEF agentVars
  <2>2. ASSUME NEW c \in Callers, Evict(c) PROVE AgentInv'
    BY <2>2, BooksMove DEF Evict
  <2>3. ASSUME NEW a \in Addresses, NEW cost \in Costs, WindowMoves(a, cost) PROVE AgentInv'
    BY <2>3, BooksMove DEF WindowMoves
  <2>4. CASE AgentNext
    BY <2>2, <2>3, <2>4, StartAgentPreserves, PreflightPreserves, TranscribePreserves,
       ReservePreserves, CallEndsPreserves, RecordPreserves, RefreshPreserves, RunToolPreserves,
       NextStepPreserves, FinishAgentPreserves, ChangeRolePreserves DEF AgentNext
  <2> QED BY <2>1, <2>4
<1> QED BY InitialAgents, <1>1, PTL DEF AgentSpec

\* A tool runs for the role its user has now, unless the role changed after the refresh
\* that precedes the tool, for any users, turns, tools and roles.
THEOREM ToolsRunForLiveRoles == AgentSpec => []ToolsUseLiveRole
<1>1. AgentInv => ToolsUseLiveRole
  BY DEF AgentInv, LiveRole, ToolsUseLiveRole, Callers
<1> QED BY AgentInvariant, <1>1, PTL

\* AgentLoop: the demo's budget.  What an admission compares with a cap is what is spent and
\* reserved; a call that reserve sees costs at most Dearest - Estimate more than its reservation,
\* one that is hidden from it Dearest, and nothing but an admission raises what is spent and due.

\* What is due of a call in any state is a number up to the dearest cost.
LEMMA DueBounds ==
    ASSUME NEW r \in Working
    PROVE  /\ Due(r) \in Nat /\ Due(r) <= Dearest
           /\ r.at \notin {"calling", "record"} \/ r.principal # DemoRole => Due(r) = 0
           /\ r.principal = DemoRole /\ r.at = "calling" => Due(r) = Dearest
           /\ r.principal = DemoRole /\ r.at = "record" => Due(r) = r.cost
<1>1. r.cost \in Nat /\ r.cost <= Dearest /\ Dearest \in Nat
  BY AgentAssumption DEF Working
<1> QED BY <1>1 DEF Due

Calls == [c \in Callers |-> Due(agent[c])]
Allowance(b) ==
    Cardinality(CallersOf(b)) * (IF b \in overtaken THEN Dearest ELSE Dearest - Estimate)
Within(b) == Committed(b) <= Cap(b) + Allowance(b)

SpendTyped == spent \in [Addresses -> Nat] /\ overtaken \subseteq Budgets

\* Whatever was admitted is within each budget, but for what its estimates leave out and
\* what was hidden then.
SpendInv ==
    /\ AgentInv /\ SpendTyped
    /\ \A b \in Budgets : Within(b)

\* There are finitely many calls, of finitely many addresses.
LEMMA FinitelyMany ==
    /\ IsFiniteSet(Addresses) /\ IsFiniteSet(Callers)
    /\ \A b \in Budgets : /\ CallersOf(b) \subseteq Callers /\ IsFiniteSet(CallersOf(b))
                          /\ Cardinality(CallersOf(b)) \in Nat
                          /\ PaidFrom(b) \subseteq Addresses /\ IsFiniteSet(PaidFrom(b))
                          /\ Cap(b) \in Nat
<1>1. IsFiniteSet(Callers)
  BY AgentAssumption
<1>2. IsFiniteSet(Addresses)
  BY <1>1, FiniteImage DEF Addresses
<1>3. \A b \in Budgets : CallersOf(b) \subseteq Callers /\ IsFiniteSet(CallersOf(b))
  BY <1>1, FS_Subset DEF CallersOf
<1>4. \A b \in Budgets : PaidFrom(b) \subseteq Addresses
  BY DEF Budgets, PaidFrom
<1>5. \A b \in Budgets : IsFiniteSet(PaidFrom(b))
  BY <1>2, <1>4, FS_Subset
<1>6. \A b \in Budgets : Cap(b) \in Nat
  BY AgentAssumption DEF Cap
<1>7. \A b \in Budgets : Cardinality(CallersOf(b)) \in Nat
  BY <1>3, FS_CardinalityType
<1> QED BY <1>1, <1>2, <1>3, <1>4, <1>5, <1>6, <1>7

\* The same for each of some calls.
LEMMA SameForEach ==
    ASSUME NEW S \in SUBSET Callers, NEW f, NEW k \in Int, \A c \in S : f[c] = k
    PROVE  SumFunctionOnSet(f, S) = Cardinality(S) * k
<1> DEFINE F == {T \in SUBSET S : SumFunctionOnSet(f, T) = Cardinality(T) * k}
<1>1. IsFiniteSet(S)
  BY FinitelyMany, FS_Subset
<1>2. {} \in F
  BY SumOfNone, FS_EmptySet
<1>3. ASSUME NEW T \in F, NEW x \in S \ T PROVE T \cup {x} \in F
  <2>1. IsFiniteSet(T) /\ x \notin T /\ \A y \in T \cup {x} : f[y] \in Int
    BY <1>1, <1>3, FS_Subset
  <2>2. SumFunctionOnSet(f, T \cup {x}) = SumFunctionOnSet(f, T) + f[x]
    BY <2>1, SumAdd
  <2>3. Cardinality(T \cup {x}) = Cardinality(T) + 1 /\ Cardinality(T) \in Nat
    BY <2>1, FS_AddElement, FS_CardinalityType
  <2>4. PICK n, m : n = Cardinality(T) /\ m = Cardinality(T \cup {x})
    OBVIOUS
  <2>5. m * k = n * k + k
    BY <2>3, <2>4
  <2>6. SumFunctionOnSet(f, T) = n * k
    BY <2>4
  <2>7. SumFunctionOnSet(f, T \cup {x}) = m * k
    BY <1>3, <2>2, <2>5, <2>6
  <2> QED BY <2>4, <2>7
<1> HIDE DEF F
<1>4. S \in F
  BY <1>1, <1>2, <1>3, SetInduction
<1> QED BY <1>4 DEF F

\* What is committed when neither a call nor a record raises it.
LEMMA CommittedFalls ==
    ASSUME NEW d, NEW e, NEW s, NEW t, NEW b \in Budgets,
           \A c \in Callers : d[c] \in Int /\ e[c] \in Int /\ e[c] <= d[c],
           \A a \in Addresses : s[a] \in Int /\ t[a] \in Int /\ t[a] <= s[a]
    PROVE  /\ SumFunctionOnSet(t, PaidFrom(b)) + SumFunctionOnSet(e, CallersOf(b))
                <= SumFunctionOnSet(s, PaidFrom(b)) + SumFunctionOnSet(d, CallersOf(b))
           /\ SumFunctionOnSet(s, PaidFrom(b)) + SumFunctionOnSet(d, CallersOf(b)) \in Int
           /\ SumFunctionOnSet(t, PaidFrom(b)) + SumFunctionOnSet(e, CallersOf(b)) \in Int
<1>1. /\ IsFiniteSet(PaidFrom(b)) /\ PaidFrom(b) \subseteq Addresses
      /\ IsFiniteSet(CallersOf(b)) /\ CallersOf(b) \subseteq Callers
  BY FinitelyMany
<1>2. SumFunctionOnSet(t, PaidFrom(b)) <= SumFunctionOnSet(s, PaidFrom(b))
  BY <1>1, SumOrder
<1>3. SumFunctionOnSet(e, CallersOf(b)) <= SumFunctionOnSet(d, CallersOf(b))
  BY <1>1, SumOrder
<1>4. /\ SumFunctionOnSet(t, PaidFrom(b)) \in Int /\ SumFunctionOnSet(s, PaidFrom(b)) \in Int
      /\ SumFunctionOnSet(e, CallersOf(b)) \in Int /\ SumFunctionOnSet(d, CallersOf(b)) \in Int
  BY <1>1, SumIsNumber
<1> QED BY <1>2, <1>3, <1>4

\* The allowance is a number that only grows.
LEMMA AllowanceGrows ==
    ASSUME NEW b \in Budgets, overtaken \subseteq overtaken'
    PROVE  /\ Allowance(b) \in Nat /\ Allowance(b)' \in Nat /\ Allowance(b) <= Allowance(b)'
<1>1. PICK n, x, y : /\ n = Cardinality(CallersOf(b))
                     /\ x = (IF b \in overtaken THEN Dearest ELSE Dearest - Estimate)
                     /\ y = (IF b \in overtaken' THEN Dearest ELSE Dearest - Estimate)
  OBVIOUS
<1>2. n \in Nat /\ x \in Nat /\ y \in Nat /\ x <= y
  BY <1>1, FinitelyMany, AgentAssumption
<1>3. n * x \in Nat /\ n * y \in Nat /\ n * x <= n * y
  BY <1>2
<1>4. Allowance(b) = n * x /\ Allowance(b)' = n * y
  BY <1>1 DEF Allowance
<1> QED BY <1>3, <1>4

\* A step that raises neither what is due nor what is spent.
LEMMA SpendFalls ==
    ASSUME SpendInv, AgentInv',
           \A b \in Callers : Due(agent'[b]) <= Due(agent[b]),
           spent' \in [Addresses -> Nat], \A a \in Addresses : spent'[a] <= spent[a],
           overtaken' = overtaken
    PROVE  SpendInv'
<1>1. PICK d, e, s, t : d = Calls /\ e = Calls' /\ s = spent /\ t = spent'
  OBVIOUS
<1>2. \A b \in Callers : d[b] \in Int /\ e[b] \in Int /\ e[b] <= d[b]
  <2>1. ASSUME NEW b \in Callers PROVE d[b] \in Int /\ e[b] \in Int /\ e[b] <= d[b]
    <3>1. agent[b] \in Working /\ agent'[b] \in Working
      BY DEF SpendInv, AgentInv, AgentTypeOK
    <3>2. d[b] = Due(agent[b]) /\ e[b] = Due(agent'[b])
      BY <1>1 DEF Calls
    <3> QED BY <3>1, <3>2, DueBounds
  <2> QED BY <2>1
<1>3. \A a \in Addresses : s[a] \in Int /\ t[a] \in Int /\ t[a] <= s[a]
  BY <1>1 DEF SpendInv, SpendTyped
<1>4. ASSUME NEW b \in Budgets PROVE Within(b)'
  <2>1. /\ Committed(b) = SumFunctionOnSet(s, PaidFrom(b)) + SumFunctionOnSet(d, CallersOf(b))
        /\ Committed(b)' = SumFunctionOnSet(t, PaidFrom(b)) + SumFunctionOnSet(e, CallersOf(b))
    BY <1>1 DEF Committed, Spent, Calls
  <2>2. Committed(b)' <= Committed(b) /\ Committed(b) \in Int /\ Committed(b)' \in Int
    BY <1>2, <1>3, <2>1, CommittedFalls
  <2>3. Committed(b) <= Cap(b) + Allowance(b) /\ Allowance(b)' = Allowance(b)
    BY DEF SpendInv, Within, Allowance
  <2>4. Cap(b) \in Nat /\ Allowance(b) \in Nat
    BY FinitelyMany, AllowanceGrows
  <2>5. Committed(b)' <= Cap(b) + Allowance(b)'
    BY <2>2, <2>3, <2>4
  <2> QED BY <2>5 DEF Within
<1> QED BY <1>4 DEF SpendInv, SpendTyped


\* A step of one caller that spends nothing, and after which no more is due of it.
LEMMA CallerOwesLess ==
    ASSUME SpendInv, AgentInv', NEW c \in Callers, NEW to, Move(c, to), Due(to) <= Due(agent[c]),
           spent' = spent, overtaken' = overtaken
    PROVE  SpendInv'
<1>1. \A b \in Callers : Due(agent'[b]) <= Due(agent[b])
  <2>1. ASSUME NEW b \in Callers PROVE Due(agent'[b]) <= Due(agent[b])
    <3>1. CASE b = c
      BY <3>1 DEF Move, SpendInv, AgentInv, AgentTypeOK
    <3>2. CASE b # c
      <4>1. agent'[b] = agent[b] /\ agent[b] \in Working
        BY <3>2 DEF Move, SpendInv, AgentInv, AgentTypeOK
      <4> QED BY <4>1, DueBounds
    <3> QED BY <3>1, <3>2
  <2> QED BY <2>1
<1>2. \A a \in Addresses : spent[a] \in Nat
  BY DEF SpendInv, SpendTyped
<1> QED BY <1>1, <1>2, SpendFalls DEF SpendInv, SpendTyped

\* The same, of a caller that owes nothing afterwards.
LEMMA CallerOwesNothing ==
    ASSUME SpendInv, AgentInv', NEW c \in Callers, NEW to, Move(c, to), to.at \notin {"calling", "record"},
           spent' = spent, overtaken' = overtaken
    PROVE  SpendInv'
<1>1. agent[c] \in Working /\ agent'[c] = to /\ agent'[c] \in Working
  BY DEF Move, SpendInv, AgentInv, AgentTypeOK
<1>2. Due(to) = 0 /\ Due(agent[c]) \in Nat
  BY <1>1, DueBounds
<1> QED BY <1>2, CallerOwesLess

\* The cost of a call that is recorded moves from what is due to what is spent.
LEMMA RecordKeeps ==
    ASSUME SpendInv, AgentInv', NEW c \in Callers, Record(c)
    PROVE  SpendInv'
<1>1. PICK d, e, s, t : d = Calls /\ e = Calls' /\ s = spent /\ t = spent'
  OBVIOUS
<1>2. PICK to : Move(c, to) /\ to.at \in {"next", "reserve", "over", "tool"}
  <2> DEFINE on(at) == [agent[c] EXCEPT !.at = at, !.cost = 0]
  <2>1. \/ Move(c, on("next")) \/ Move(c, on("over"))
        \/ Move(c, [on("reserve") EXCEPT !.attempt = @ + 1])
        \/ \E tool \in Tools : Move(c, [on("tool") EXCEPT !.tool = tool])
    BY DEF Record
  <2>2. ASSUME NEW at \in AgentPhases PROVE on(at) \in Working /\ on(at).at = at
    <3>1. agent[c] \in Working
      BY DEF SpendInv, AgentInv, AgentTypeOK
    <3> QED BY <3>1, FirstNumbers DEF Working
  <2>3. {"next", "reserve", "over", "tool"} \subseteq AgentPhases
    BY DEF AgentPhases
  <2> HIDE DEF on
  <2>4. CASE Move(c, on("next")) \/ Move(c, on("over"))
    BY <2>2, <2>3, <2>4
  <2>5. CASE Move(c, [on("reserve") EXCEPT !.attempt = @ + 1])
    <3>1. PICK here : here = on("reserve")
      OBVIOUS
    <3>2. [here EXCEPT !.attempt = here.attempt + 1].at = "reserve"
      BY <2>2, <2>3, <3>1 DEF Working
    <3> QED BY <2>5, <3>1, <3>2
  <2>6. ASSUME NEW tool \in Tools, Move(c, [on("tool") EXCEPT !.tool = tool])
        PROVE  \E to : Move(c, to) /\ to.at \in {"next", "reserve", "over", "tool"}
    <3>1. PICK here : here = on("tool")
      OBVIOUS
    <3>2. [here EXCEPT !.tool = tool].at = "tool"
      BY <2>2, <2>3, <3>1 DEF Working
    <3> QED BY <2>6, <3>1, <3>2
  <2> QED BY <2>1, <2>4, <2>5, <2>6
<1>3. /\ agent[c].at = "record" /\ overtaken' = overtaken
      /\ t = IF OnDemo(c) THEN [s EXCEPT ![Address[c]] = @ + agent[c].cost] ELSE s
  BY <1>1 DEF Record
<1>4. /\ agent \in [Callers -> Working] /\ agent' \in [Callers -> Working]
      /\ agent'[c] = to /\ \A b \in Callers \ {c} : agent'[b] = agent[b]
  BY <1>2 DEF Move, SpendInv, AgentInv, AgentTypeOK
<1>5. /\ \A b \in Callers : d[b] \in Nat /\ e[b] \in Nat
      /\ \A b \in Callers \ {c} : e[b] = d[b]
      /\ e[c] = 0
  <2>1. \A b \in Callers : d[b] = Due(agent[b]) /\ e[b] = Due(agent'[b])
    BY <1>1 DEF Calls
  <2>2. \A b \in Callers : Due(agent[b]) \in Nat /\ Due(agent'[b]) \in Nat
    BY <1>4, DueBounds
  <2>3. Due(to) = 0
    BY <1>2, <1>4, DueBounds
  <2> QED BY <1>4, <2>1, <2>2, <2>3
<1>6. s \in [Addresses -> Nat] /\ Address[c] \in Addresses
  BY <1>1 DEF SpendInv, SpendTyped, Addresses
<1>7. CASE ~OnDemo(c)
  <2>1. Due(to) = 0 /\ Due(agent[c]) = 0
    BY <1>2, <1>4, <1>7, DueBounds DEF OnDemo
  <2> QED BY <1>1, <1>2, <1>3, <1>7, <2>1, CallerOwesLess
<1>8. CASE OnDemo(c)
  <2>1. /\ d[c] = agent[c].cost /\ d[c] \in Nat
        /\ t \in [Addresses -> Nat] /\ t[Address[c]] = s[Address[c]] + d[c]
        /\ \A a \in Addresses \ {Address[c]} : t[a] = s[a]
    <3>1. d[c] = agent[c].cost /\ d[c] \in Nat
      BY <1>1, <1>3, <1>4, <1>5, <1>8, DueBounds DEF Calls, OnDemo
    <3> QED BY <1>3, <1>6, <1>8, <3>1
  <2>2. ASSUME NEW b \in Budgets
        PROVE  SumFunctionOnSet(t, PaidFrom(b)) + SumFunctionOnSet(e, CallersOf(b))
                  = SumFunctionOnSet(s, PaidFrom(b)) + SumFunctionOnSet(d, CallersOf(b))
    <3>1. PICK A, C : A = PaidFrom(b) /\ C = CallersOf(b)
      OBVIOUS
    <3>2. /\ IsFiniteSet(A) /\ A \subseteq Addresses /\ IsFiniteSet(C) /\ C \subseteq Callers
          /\ c \in C <=> Address[c] \in A
      BY <3>1, FinitelyMany DEF CallersOf
    <3>3. /\ SumFunctionOnSet(s, A) \in Int /\ SumFunctionOnSet(d, C) \in Int
      BY <1>5, <1>6, <3>2, SumIsNumber
    <3>4. CASE Address[c] \in A
      <4>1. SumFunctionOnSet(t, A) = SumFunctionOnSet(s, A) - s[Address[c]] + t[Address[c]]
        BY <1>6, <2>1, <3>2, <3>4, SumChange
      <4>2. SumFunctionOnSet(e, C) = SumFunctionOnSet(d, C) - d[c] + e[c]
        BY <1>5, <3>2, <3>4, SumChange
      <4> QED BY <1>5, <1>6, <2>1, <3>1, <3>3, <4>1, <4>2
    <3>5. CASE Address[c] \notin A
      <4>1. SumFunctionOnSet(t, A) = SumFunctionOnSet(s, A)
        BY <1>6, <2>1, <3>2, <3>5, SumSame
      <4>2. SumFunctionOnSet(e, C) = SumFunctionOnSet(d, C)
        BY <1>5, <3>2, <3>5, SumSame
      <4> QED BY <3>1, <4>1, <4>2
    <3> QED BY <3>4, <3>5
  <2>3. \A b \in Budgets : Committed(b)' = Committed(b)
    BY <1>1, <2>2 DEF Committed, Spent, Calls
  <2>4. \A b \in Budgets : Allowance(b)' = Allowance(b)
    BY <1>3 DEF Allowance
  <2> QED BY <1>1, <1>3, <2>1, <2>3, <2>4 DEF SpendInv, SpendTyped, Within
<1> QED BY <1>7, <1>8

\* Calls that each owe at most the dearest cost, and nothing outside R.
LEMMA DueOfSome ==
    ASSUME NEW b \in Budgets, NEW R \in SUBSET CallersOf(b), NEW e,
           \A c \in Callers : e[c] \in Int /\ e[c] <= Dearest,
           \A c \in CallersOf(b) \ R : e[c] = 0
    PROVE  /\ Cardinality(R) \in Nat /\ Cardinality(R) <= Cardinality(CallersOf(b))
           /\ SumFunctionOnSet(e, CallersOf(b)) \in Int
           /\ SumFunctionOnSet(e, CallersOf(b)) <= Cardinality(R) * Dearest
<1>1. PICK C, most : C = CallersOf(b) /\ most = [c \in Callers |-> Dearest]
  OBVIOUS
<1>2. /\ C \subseteq Callers /\ R \subseteq C /\ IsFiniteSet(C) /\ IsFiniteSet(R) /\ IsFiniteSet(C \ R)
      /\ Cardinality(R) \in Nat /\ Cardinality(R) <= Cardinality(C)
  BY <1>1, FinitelyMany, FS_Subset, FS_CardinalityType
<1>3. \A c \in Callers : most[c] = Dearest /\ most[c] \in Int /\ e[c] <= most[c]
  BY <1>1, AgentAssumption
<1>4. SumFunctionOnSet(e, C) = SumFunctionOnSet(e, R) + SumFunctionOnSet(e, C \ R)
  BY <1>2, SumParts
<1>5. SumFunctionOnSet(e, C \ R) = 0
  BY <1>1, <1>2, SumOfZeros
<1>6. SumFunctionOnSet(e, R) <= SumFunctionOnSet(most, R)
  BY <1>2, <1>3, SumOrder
<1>7. SumFunctionOnSet(most, R) = Cardinality(R) * Dearest
  BY <1>2, <1>3, SameForEach, AgentAssumption
<1>8. SumFunctionOnSet(e, R) \in Int
  BY <1>2, SumIsNumber
<1> QED BY <1>1, <1>2, <1>4, <1>5, <1>6, <1>7, <1>8

\* The budget b, that a call of caller c may be paid from, after the call is admitted.
LEMMA AdmissionFits ==
    ASSUME SpendInv, AgentInv', NEW c \in Callers, NEW b \in Budgets, c \in CallersOf(b),
           agent[c].at \notin {"calling", "record"}, \A d \in Callers \ {c} : agent'[d] = agent[d],
           spent' = spent, overtaken \subseteq overtaken', Spent(b) <= Cap(b),
           b \notin overtaken' => Hidden(b) = {} /\ Spent(b) + Reserved(b) + Estimate <= Cap(b)
    PROVE  Within(b)'
<1>1. PICK e, C, n, x : /\ e = Calls' /\ C = CallersOf(b) /\ n = Cardinality(C) /\ x = Spent(b)
  OBVIOUS
<1>2. /\ \A d \in Callers : agent[d] \in Working /\ agent'[d] \in Working
      /\ \A d \in Callers : e[d] = Due(agent'[d]) /\ e[d] \in Int /\ e[d] <= Dearest
  <2>1. \A d \in Callers : agent[d] \in Working /\ agent'[d] \in Working
    BY DEF SpendInv, AgentInv, AgentTypeOK
  <2>2. \A d \in Callers : e[d] = Due(agent'[d])
    BY <1>1 DEF Calls
  <2> QED BY <2>1, <2>2, DueBounds
<1>3. x \in Int /\ x <= Cap(b) /\ Cap(b) \in Nat /\ n \in Nat
  <2>1. SumFunctionOnSet(spent, PaidFrom(b)) \in Int
    BY FinitelyMany, SumIsNumber DEF SpendInv, SpendTyped
  <2> QED BY <1>1, <2>1, FinitelyMany DEF Spent
<1>4. Committed(b)' = x + SumFunctionOnSet(e, C)
  BY <1>1 DEF Committed, Spent, Calls
<1>5. CASE b \in overtaken'
  <2>1. SumFunctionOnSet(e, C) \in Int /\ SumFunctionOnSet(e, C) <= n * Dearest
    BY <1>1, <1>2, DueOfSome
  <2>2. PICK m : m = n * Dearest
    OBVIOUS
  <2>3. m \in Int
    BY <1>3, <2>2, AgentAssumption
  <2>4. Allowance(b)' = m
    BY <1>1, <1>5, <2>2 DEF Allowance
  <2>5. x + SumFunctionOnSet(e, C) <= Cap(b) + m
    BY <1>3, <2>1, <2>2, <2>3
  <2> QED BY <1>4, <2>4, <2>5 DEF Within
<1>6. CASE b \notin overtaken'
  <2>1. PICK R, r : R = reserved \cap C /\ r = Cardinality(R)
    OBVIOUS
  <2>2. c \notin R /\ R \subseteq C /\ c \in C /\ R \cup {c} \subseteq C
    BY <1>1, <2>1 DEF SpendInv, AgentInv, ReservedAreCalling
  <2>3. ASSUME NEW d \in C \ (R \cup {c}) PROVE e[d] = 0
    <3>1. d \in Callers /\ agent'[d] = agent[d] /\ d \notin reserved
      BY <1>1, <2>1, <2>3 DEF CallersOf
    <3>2. agent[d].at \notin {"calling", "record"} \/ agent[d].principal # DemoRole
      BY <1>1, <1>6, <3>1 DEF Hidden, OnDemo
    <3> QED BY <1>2, <3>1, <3>2, DueBounds
  <2>4. /\ Cardinality(R \cup {c}) <= n /\ SumFunctionOnSet(e, C) \in Int
        /\ SumFunctionOnSet(e, C) <= Cardinality(R \cup {c}) * Dearest
    BY <1>1, <1>2, <2>2, <2>3, DueOfSome
  <2>5. r \in Nat /\ Cardinality(R \cup {c}) = r + 1
    <3>1. IsFiniteSet(C)
      BY <1>1, FinitelyMany
    <3>2. IsFiniteSet(R)
      BY <2>2, <3>1, FS_Subset
    <3> QED BY <2>1, <2>2, <3>2, FS_AddElement, FS_CardinalityType
  <2>6. PICK D, E, y : D = Dearest /\ E = Estimate /\ y = SumFunctionOnSet(e, C)
    OBVIOUS
  <2>7. D \in Nat /\ E \in Nat /\ E <= D
    BY <2>6, AgentAssumption
  <2>8. x + E * r + E <= Cap(b)
    BY <1>1, <1>6, <2>1, <2>6 DEF Reserved
  <2>9. y <= (r + 1) * D /\ y \in Int /\ r + 1 <= n
    BY <2>4, <2>5, <2>6
  <2>10. (r + 1) * (D - E) <= n * (D - E)
    <3>1. PICK q, p : q = D - E /\ p = r + 1
      OBVIOUS
    <3>2. q \in Nat /\ p \in Nat /\ p <= n
      BY <2>5, <2>7, <2>9, <3>1
    <3>3. p * q <= n * q
      BY <1>3, <3>2
    <3> QED BY <3>1, <3>3
  <2>11. (r + 1) * D = (r + 1) * (D - E) + E * r + E
    BY <2>5, <2>7
  <2>12. x + y <= Cap(b) + n * (D - E)
    <3>1. PICK u, v, w, z : /\ u = (r + 1) * D /\ v = (r + 1) * (D - E) /\ w = n * (D - E)
                            /\ z = E * r
      OBVIOUS
    <3>2. u \in Int /\ v \in Int /\ w \in Int /\ z \in Int
      BY <1>3, <2>5, <2>7, <3>1
    <3>3. u = v + z + E /\ v <= w /\ y <= u /\ x + z + E <= Cap(b)
      BY <2>8, <2>9, <2>10, <2>11, <3>1
    <3>4. x + y <= Cap(b) + w
      BY <1>3, <2>7, <2>9, <3>2, <3>3
    <3> QED BY <3>1, <3>4
  <2>13. Allowance(b)' = n * (D - E)
    BY <1>1, <1>6, <2>6 DEF Allowance
  <2> QED BY <1>4, <2>6, <2>12, <2>13 DEF Within
<1> QED BY <1>5, <1>6

\* A call that is under way from now on, and fits the budgets it is paid from or overtakes.
LEMMA AdmissionKeeps ==
    ASSUME SpendInv, AgentInv', NEW c \in Callers, NEW to, Move(c, to),
           agent[c].at \notin {"calling", "record"}, spent' = spent,
           overtaken \subseteq overtaken', overtaken' \subseteq Budgets,
           \A b \in BudgetsOf(c) :
               /\ Spent(b) <= Cap(b)
               /\ b \notin overtaken' =>
                     Hidden(b) = {} /\ Spent(b) + Reserved(b) + Estimate <= Cap(b)
    PROVE  SpendInv'
<1>1. \A d \in Callers \ {c} : agent'[d] = agent[d]
  BY DEF Move, SpendInv, AgentInv, AgentTypeOK
<1>2. ASSUME NEW b \in Budgets PROVE Within(b)'
  <2>1. CASE c \in CallersOf(b)
    <3>1. b \in BudgetsOf(c)
      BY <2>1 DEF BudgetsOf, CallersOf, PaidFrom
    <3> QED BY <1>1, <2>1, <3>1, AdmissionFits
  <2>2. CASE c \notin CallersOf(b)
    <3>1. PICK e, C : e = Calls' /\ C = CallersOf(b)
      OBVIOUS
    <3>2. /\ C \subseteq Callers /\ IsFiniteSet(C) /\ c \notin C
          /\ IsFiniteSet(PaidFrom(b)) /\ PaidFrom(b) \subseteq Addresses
      BY <2>2, <3>1, FinitelyMany
    <3>3. \A d \in C : e[d] = Calls[d] /\ Calls[d] \in Int
      <4>1. \A d \in C : agent[d] \in Working /\ Calls[d] = Due(agent[d]) /\ e[d] = Due(agent'[d])
        BY <3>1, <3>2 DEF Calls, SpendInv, AgentInv, AgentTypeOK
      <4> QED BY <1>1, <3>2, <4>1, DueBounds
    <3>4. SumFunctionOnSet(e, C) = SumFunctionOnSet(Calls, C)
      BY <3>2, <3>3, SumSame
    <3>5. Committed(b)' = Committed(b)
      BY <3>1, <3>4 DEF Committed, Spent, Calls
    <3>6. Committed(b) \in Int
      <4>1. SumFunctionOnSet(spent, PaidFrom(b)) \in Int
        BY <3>2, SumIsNumber DEF SpendInv, SpendTyped
      <4>2. SumFunctionOnSet(Calls, C) \in Int
        BY <3>2, <3>3, SumIsNumber
      <4> QED BY <3>1, <4>1, <4>2 DEF Committed, Spent, Calls
    <3>7. Committed(b) <= Cap(b) + Allowance(b) /\ Cap(b) \in Nat
      BY FinitelyMany DEF SpendInv, Within
    <3>8. Allowance(b) \in Nat /\ Allowance(b)' \in Nat /\ Allowance(b) <= Allowance(b)'
      BY AllowanceGrows
    <3>9. Committed(b)' <= Cap(b) + Allowance(b)'
      BY <3>5, <3>6, <3>7, <3>8
    <3> QED BY <3>9 DEF Within
  <2> QED BY <2>1, <2>2
<1> QED BY <1>2 DEF SpendInv, SpendTyped

\* A call that is refused owes nothing, and one that is admitted fits.
LEMMA ReserveKeeps ==
    ASSUME SpendInv, AgentInv', NEW c \in Callers, Reserve(c)
    PROVE  SpendInv'
<1>1. agent[c] \in Working /\ agent[c].at = "reserve" /\ spent' = spent
  BY DEF SpendInv, AgentInv, AgentTypeOK, Reserve
<1>2. CASE OnDemo(c) /\ ~Fits(c)
  <2>1. PICK at : at = Ended(c)
    OBVIOUS
  <2>2. Move(c, [agent[c] EXCEPT !.at = at]) /\ overtaken' = overtaken
    BY <1>2, <2>1 DEF Reserve
  <2>3. at \in {"over", "next"}
    BY <2>1 DEF Ended
  <2>4. [agent[c] EXCEPT !.at = at].at = at
    BY <1>1 DEF Working
  <2> QED BY <1>1, <2>2, <2>3, <2>4, CallerOwesNothing
<1>3. CASE ~(OnDemo(c) /\ ~Fits(c))
  <2>1. PICK to : to = [agent[c] EXCEPT !.at = "calling"]
    OBVIOUS
  <2>2. /\ Move(c, to)
        /\ overtaken' = overtaken \cup {b \in BudgetsOf(c) : OnDemo(c) /\ Hidden(b) # {}}
    BY <1>3, <2>1 DEF Reserve
  <2>3. to \in Working /\ to.principal = agent[c].principal
    BY <1>1, <2>1 DEF Working, AgentPhases
  <2>4. CASE ~OnDemo(c)
    <3>1. Due(to) = 0 /\ Due(agent[c]) \in Nat
      BY <1>1, <2>3, <2>4, DueBounds DEF OnDemo
    <3>2. overtaken' = overtaken
      BY <2>2, <2>4
    <3> QED BY <1>1, <2>2, <3>1, <3>2, CallerOwesLess
  <2>5. CASE OnDemo(c) /\ Fits(c)
    <3>1. BudgetsOf(c) \subseteq Budgets
      BY DEF BudgetsOf, Budgets, Addresses
    <3>2. overtaken \subseteq overtaken' /\ overtaken' \subseteq Budgets
      BY <2>2, <3>1 DEF SpendInv, SpendTyped
    <3>3. ASSUME NEW b \in BudgetsOf(c)
          PROVE  /\ Spent(b) <= Cap(b)
                 /\ b \notin overtaken' =>
                       Hidden(b) = {} /\ Spent(b) + Reserved(b) + Estimate <= Cap(b)
      <4>1. Spent(b) + Reserved(b) + Estimate <= Cap(b)
        BY <2>5 DEF Fits
      <4>2. Spent(b) \in Int /\ Reserved(b) \in Nat /\ Cap(b) \in Nat /\ Estimate \in Nat
        <5>1. SumFunctionOnSet(spent, PaidFrom(b)) \in Int
          BY <3>1, FinitelyMany, SumIsNumber DEF SpendInv, SpendTyped
        <5>2. IsFiniteSet(CallersOf(b))
          BY <3>1, FinitelyMany
        <5>3. Cardinality(reserved \cap CallersOf(b)) \in Nat
          BY <5>2, FS_Subset, FS_CardinalityType
        <5> QED BY <3>1, <5>1, <5>3, FinitelyMany, AgentAssumption DEF Spent, Reserved
      <4>3. b \notin overtaken' => Hidden(b) = {}
        BY <2>2, <2>5
      <4> QED BY <4>1, <4>2, <4>3
    <3> QED BY <1>1, <2>2, <3>2, <3>3, AdmissionKeeps
  <2> QED BY <1>3, <2>4, <2>5
<1> QED BY <1>2, <1>3

\* A transcription is admitted below the caps, and overtakes what is under way.
LEMMA TranscribeKeeps ==
    ASSUME SpendInv, AgentInv', NEW c \in Callers, Transcribe(c)
    PROVE  SpendInv'
<1>1. agent[c] \in Working /\ agent[c].at = "check" /\ spent' = spent
  BY DEF SpendInv, AgentInv, AgentTypeOK, Transcribe
<1>2. CASE Move(c, [agent[c] EXCEPT !.at = "over"]) /\ overtaken' = overtaken
  <2>1. [agent[c] EXCEPT !.at = "over"].at = "over"
    BY <1>1 DEF Working
  <2> QED BY <1>1, <1>2, <2>1, CallerOwesNothing
<1>3. CASE /\ ~(OnDemo(c) /\ Exhausted(c)) /\ Move(c, [agent[c] EXCEPT !.at = "calling"])
           /\ overtaken' = overtaken \cup IF OnDemo(c) THEN BudgetsOf(c) ELSE {}
  <2>1. PICK to : to = [agent[c] EXCEPT !.at = "calling"]
    OBVIOUS
  <2>2. Move(c, to) /\ to \in Working /\ to.principal = agent[c].principal
    BY <1>1, <1>3, <2>1 DEF Working, AgentPhases
  <2>3. CASE ~OnDemo(c)
    <3>1. Due(to) = 0 /\ Due(agent[c]) \in Nat
      BY <1>1, <2>2, <2>3, DueBounds DEF OnDemo
    <3>2. overtaken' = overtaken
      BY <1>3, <2>3
    <3> QED BY <1>1, <2>2, <3>1, <3>2, CallerOwesLess
  <2>4. CASE OnDemo(c)
    <3>1. BudgetsOf(c) \subseteq Budgets
      BY DEF BudgetsOf, Budgets, Addresses
    <3>2. /\ overtaken \subseteq overtaken' /\ overtaken' \subseteq Budgets
          /\ BudgetsOf(c) \subseteq overtaken'
      BY <1>3, <2>4, <3>1 DEF SpendInv, SpendTyped
    <3>3. ASSUME NEW b \in BudgetsOf(c) PROVE Spent(b) <= Cap(b)
      <4>1. ~(Spent(b) >= Cap(b))
        BY <1>3, <2>4 DEF Exhausted
      <4>2. Spent(b) \in Int /\ Cap(b) \in Nat
        <5>1. SumFunctionOnSet(spent, PaidFrom(b)) \in Int
          BY <3>1, FinitelyMany, SumIsNumber DEF SpendInv, SpendTyped
        <5> QED BY <3>1, <5>1, FinitelyMany DEF Spent
      <4> QED BY <4>1, <4>2
    <3> QED BY <1>1, <2>2, <3>2, <3>3, AdmissionKeeps
  <2> QED BY <2>3, <2>4
<1> QED BY <1>2, <1>3 DEF Transcribe

\* A call that ends costs at most what was due of it.
LEMMA CallEndsKeeps ==
    ASSUME SpendInv, AgentInv', NEW c \in Callers,
           CallFails(c) \/ \E cost \in Costs : CallReturns(c, cost)
    PROVE  SpendInv'
<1>1. agent[c] \in Working
  BY DEF SpendInv, AgentInv, AgentTypeOK
<1>2. CASE CallFails(c)
  <2>1. PICK at : at = Ended(c)
    OBVIOUS
  <2>2. Move(c, [agent[c] EXCEPT !.at = at]) /\ spent' = spent /\ overtaken' = overtaken
    BY <1>2, <2>1 DEF CallFails
  <2>3. at \in {"over", "next"}
    BY <2>1 DEF Ended
  <2>4. [agent[c] EXCEPT !.at = at].at = at
    BY <1>1 DEF Working
  <2> QED BY <2>2, <2>3, <2>4, CallerOwesNothing
<1>3. ASSUME NEW cost \in Costs, CallReturns(c, cost) PROVE SpendInv'
  <2>1. PICK to : to = [agent[c] EXCEPT !.at = "record", !.cost = cost]
    OBVIOUS
  <2>2. Move(c, to) /\ spent' = spent /\ overtaken' = overtaken /\ agent[c].at = "calling"
    BY <1>3, <2>1 DEF CallReturns
  <2>3. cost \in 0..Dearest /\ Dearest \in Nat
    BY AgentAssumption
  <2>4. /\ to \in Working /\ to.at = "record" /\ to.cost = cost
        /\ to.principal = agent[c].principal
    BY <1>1, <2>1, <2>3 DEF Working, AgentPhases
  <2>5. Due(to) <= Due(agent[c])
    <3>1. CASE agent[c].principal = DemoRole
      <4>1. Due(to) = cost /\ Due(agent[c]) = Dearest
        BY <1>1, <2>2, <2>4, <3>1, DueBounds
      <4> QED BY <2>3, <4>1
    <3>2. CASE agent[c].principal # DemoRole
      <4>1. Due(to) = 0 /\ Due(agent[c]) = 0
        BY <1>1, <2>4, <3>2, DueBounds
      <4> QED BY <4>1
    <3> QED BY <3>1, <3>2
  <2> QED BY <2>2, <2>5, CallerOwesLess
<1> QED BY <1>2, <1>3

\* Between calls a turn owes nothing.
LEMMA BetweenCallsKeeps ==
    ASSUME SpendInv, AgentInv', NEW c \in Callers,
           \/ StartAgent(c) \/ Preflight(c) \/ RefreshPrincipal(c) \/ RunTool(c) \/ NextStep(c)
           \/ FinishAgent(c)
    PROVE  SpendInv'
<1>1. agent[c] \in Working /\ agent' \in [Callers -> Working] /\ spent' = spent /\ overtaken' = overtaken
  BY DEF SpendInv, AgentInv, AgentTypeOK, StartAgent, Preflight, RefreshPrincipal, RunTool, NextStep,
     FinishAgent
<1>2. PICK to : Move(c, to)
  BY DEF StartAgent, Preflight, RefreshPrincipal, RunTool, NextStep, FinishAgent
<1>3. agent'[c] = to /\ to \in Working
  BY <1>1, <1>2 DEF Move, SpendInv, AgentInv, AgentTypeOK
<1>4. to.at \notin {"calling", "record"}
  <2>1. CASE StartAgent(c)
    <3>1. PICK at, p : at = (IF c \in Titles THEN "reserve" ELSE "check") /\ p = role[UserOf[c]]
      OBVIOUS
    <3>2. agent' = [agent EXCEPT ![c] = [NotRunning EXCEPT !.at = at, !.principal = p]]
      BY <2>1, <3>1 DEF StartAgent, Move
    <3>3. to = [NotRunning EXCEPT !.at = at, !.principal = p]
      BY <1>3, <3>2 DEF SpendInv, AgentInv, AgentTypeOK
    <3> QED BY <3>1, <3>3 DEF NotRunning
  <2>2. CASE Preflight(c)
    <3>1. agent' = [agent EXCEPT ![c] = [agent[c] EXCEPT
              !.at = IF OnDemo(c) /\ Exhausted(c) THEN "over" ELSE "reserve"]]
      BY <2>2 DEF Preflight, Move
    <3>2. to.at = IF OnDemo(c) /\ Exhausted(c) THEN "over" ELSE "reserve"
      BY <1>1, <1>3, <3>1 DEF Working, SpendInv, AgentInv, AgentTypeOK
    <3> QED BY <3>2
  <2>3. CASE RefreshPrincipal(c)
    <3>1. PICK at, p : /\ at = (IF role[UserOf[c]] \in MayUse[agent[c].tool] THEN "run" ELSE "next")
                       /\ p = role[UserOf[c]]
      OBVIOUS
    <3>2. agent' = [agent EXCEPT ![c] =
                        [agent[c] EXCEPT !.principal = p, !.stale = FALSE, !.at = at]]
      BY <2>3, <3>1 DEF RefreshPrincipal, Move
    <3>3. to.at = at
      BY <1>1, <1>3, <3>2 DEF Working, SpendInv, AgentInv, AgentTypeOK
    <3> QED BY <3>1, <3>3
  <2>4. CASE RunTool(c)
    <3>1. \/ agent' = [agent EXCEPT ![c] = [agent[c] EXCEPT !.at = "reserve", !.attempt = 1]]
          \/ agent' = [agent EXCEPT ![c] = [agent[c] EXCEPT !.at = "next"]]
      BY <2>4 DEF RunTool, Move
    <3>2. to.at \in {"reserve", "next"}
      BY <1>1, <1>3, <3>1 DEF Working, SpendInv, AgentInv, AgentTypeOK
    <3> QED BY <3>2
  <2>5. CASE NextStep(c)
    <3>1. PICK here : here = [agent[c] EXCEPT !.tool = NoTool, !.attempt = 0]
      OBVIOUS
    <3>2. here \in Working
      BY <1>1, <3>1, FirstNumbers DEF Working
    <3>3. PICK at : /\ at \in {"tool", "check", "over", "reserve"}
                    /\ \/ \E tool \in Tools : agent' = [agent EXCEPT ![c] = [here EXCEPT !.at = at, !.tool = tool]]
                       \/ \E step : agent' = [agent EXCEPT ![c] = [here EXCEPT !.step = step, !.at = at]]
      <4>1. CASE \E tool \in Tools : Move(c, [here EXCEPT !.at = "tool", !.tool = tool])
        BY <4>1 DEF Move
      <4>2. CASE Move(c, [here EXCEPT !.step = agent[c].step + 1,
                 !.at = IF agent[c].step + 1 < MaxSteps THEN "check"
                        ELSE IF OnDemo(c) THEN "over" ELSE "reserve"])
        BY <4>2 DEF Move
      <4> QED BY <2>5, <3>1, <4>1, <4>2 DEF NextStep
    <3>4. to.at = at
      BY <1>3, <3>2, <3>3 DEF Working, SpendInv, AgentInv, AgentTypeOK
    <3> QED BY <3>3, <3>4
  <2>6. CASE FinishAgent(c)
    <3>1. agent' = [agent EXCEPT ![c] = NotRunning]
      BY <2>6 DEF FinishAgent, Move
    <3>2. to = NotRunning
      BY <1>3, <3>1 DEF SpendInv, AgentInv, AgentTypeOK
    <3> QED BY <3>2 DEF NotRunning
  <2> QED BY <2>1, <2>2, <2>3, <2>4, <2>5, <2>6
<1> QED BY <1>1, <1>2, <1>4, CallerOwesNothing

\* A change of role leaves the calls under way as they are.
LEMMA ChangeRoleKeeps ==
    ASSUME SpendInv, AgentInv', NEW u \in Users, NEW to \in Roles \cup {"none"}, ChangeRole(u, to)
    PROVE  SpendInv'
<1>1. spent' = spent /\ overtaken' = overtaken
  BY DEF ChangeRole
<1>2. ASSUME NEW b \in Callers PROVE Due(agent'[b]) <= Due(agent[b])
  <2>1. agent[b] \in Working
    BY DEF SpendInv, AgentInv, AgentTypeOK
  <2>2. CASE UserOf[b] = u /\ agent[b].at = "run"
    <3>1. agent'[b] = [agent[b] EXCEPT !.stale = TRUE]
      BY <2>2 DEF ChangeRole
    <3>2. agent'[b] \in Working /\ agent'[b].at = "run"
      BY <2>1, <2>2, <3>1 DEF Working
    <3> QED BY <2>1, <3>2, DueBounds
  <2>3. CASE ~(UserOf[b] = u /\ agent[b].at = "run")
    <3>1. agent'[b] = agent[b]
      BY <2>3 DEF ChangeRole
    <3> QED BY <2>1, <3>1, DueBounds
  <2> QED BY <2>2, <2>3
<1>3. \A a \in Addresses : spent[a] \in Nat
  BY DEF SpendInv, SpendTyped
<1> QED BY <1>1, <1>2, <1>3, SpendFalls DEF SpendInv, SpendTyped

\* Reservations that are forgotten, and costs that leave the window.
LEMMA LogMovesKeeps ==
    ASSUME SpendInv, AgentInv',
           \/ \E c \in Callers : Evict(c)
           \/ \E a \in Addresses, cost \in Costs : WindowMoves(a, cost)
           \/ UNCHANGED agentVars
    PROVE  SpendInv'
<1>1. agent' = agent /\ overtaken' = overtaken
  BY DEF Evict, WindowMoves, agentVars
<1>2. \A b \in Callers : Due(agent'[b]) <= Due(agent[b])
  <2>1. ASSUME NEW b \in Callers PROVE Due(agent'[b]) <= Due(agent[b])
    <3>1. agent[b] \in Working
      BY DEF SpendInv, AgentInv, AgentTypeOK
    <3> QED BY <1>1, <3>1, DueBounds
  <2> QED BY <2>1
<1>3. spent \in [Addresses -> Nat]
  BY DEF SpendInv, SpendTyped
<1>4. spent' \in [Addresses -> Nat] /\ \A a \in Addresses : spent'[a] <= spent[a]
  <2>1. CASE spent' = spent
    BY <1>3, <2>1
  <2>2. ASSUME NEW a \in Addresses, NEW cost \in Costs, WindowMoves(a, cost)
        PROVE  spent' \in [Addresses -> Nat] /\ \A b \in Addresses : spent'[b] <= spent[b]
    <3>1. cost \in Nat
      BY AgentAssumption
    <3> QED BY <1>3, <2>2, <3>1 DEF WindowMoves
  <2> QED BY <2>1, <2>2 DEF Evict, agentVars
<1> QED BY <1>1, <1>2, <1>4, SpendFalls DEF SpendInv, SpendTyped

\* At first nothing is spent.
LEMMA NothingSpent == ASSUME AgentInit PROVE SpendInv
<1>1. AgentInv
  BY InitialAgents
<1>2. SpendTyped
  BY DEF AgentInit, SpendTyped
<1>3. \A b \in Callers : Calls[b] = 0
  <2>1. \A b \in Callers : Calls[b] = Due(NotRunning)
    BY DEF AgentInit, Calls
  <2>2. Due(NotRunning) = 0
    BY DEF Due, NotRunning
  <2> QED BY <2>1, <2>2
<1>4. ASSUME NEW b \in Budgets PROVE Within(b)
  <2>1. /\ IsFiniteSet(PaidFrom(b)) /\ PaidFrom(b) \subseteq Addresses
        /\ IsFiniteSet(CallersOf(b)) /\ CallersOf(b) \subseteq Callers
    BY FinitelyMany
  <2>2. SumFunctionOnSet(spent, PaidFrom(b)) = 0
    BY <2>1, SumOfZeros DEF AgentInit
  <2>3. SumFunctionOnSet(Calls, CallersOf(b)) = 0
    BY <1>3, <2>1, SumOfZeros
  <2>4. Committed(b) = 0
    BY <2>2, <2>3 DEF Committed, Spent, Calls
  <2>5. Cap(b) \in Nat /\ Allowance(b) \in Nat
    <3>1. PICK n : n = Cardinality(CallersOf(b))
      OBVIOUS
    <3>2. n \in Nat /\ Dearest - Estimate \in Nat
      BY <3>1, FinitelyMany, AgentAssumption
    <3>3. Allowance(b) = n * (Dearest - Estimate)
      BY <3>1 DEF AgentInit, Allowance
    <3> QED BY <3>2, <3>3, FinitelyMany
  <2> QED BY <2>4, <2>5 DEF Within
<1> QED BY <1>1, <1>2, <1>4 DEF SpendInv

\* Every state: what the demo has spent and owes is within its caps, but for what its estimates
\* leave out and what was hidden from an admission (api/demo_limits.py).
THEOREM SpendInvariant == AgentSpec => []SpendInv
<1>1. SpendInv /\ AgentInv' /\ [AgentNext]_agentVars => SpendInv'
  BY RecordKeeps, ReserveKeeps, TranscribeKeeps, CallEndsKeeps, BetweenCallsKeeps,
     ChangeRoleKeeps, LogMovesKeeps DEF AgentNext
<1> QED BY NothingSpent, AgentInvariant, <1>1, PTL DEF AgentSpec

\* The demo passes its hourly budget, in all and per address, by at most what each call may cost
\* above its estimate, while reserve sees every call, and by at most what each may cost once it
\* does not: for any number of turns, titles and transcriptions, caps, estimate and costs.
THEOREM DemoStaysInBudget == AgentSpec => []DemoSpendBounded
<1>1. SpendInv => DemoSpendBounded
  BY DEF SpendInv, Within, Allowance, DemoSpendBounded
<1> QED BY SpendInvariant, <1>1, PTL

=============================================================================
