----------------------------- MODULE ChatTurns -----------------------------
(***************************************************************************)
(* Agent turns on chat sessions (api/chat.py, api/routers/chat_api.py).    *)
(* Any number of app processes serve browser tabs and REST callers, which  *)
(* share the rows "Chat Session" and "Chat Message".  A message claims the *)
(* turn of its session with one conditional UPDATE, stores the question,   *)
(* lets the model call tools, stores the reply and gives the turn back.    *)
(*                                                                         *)
(* A handler is what works on one request at a time: one chat of one       *)
(* connection, or one REST call.  The claim token is a fresh uuid; the     *)
(* name of the handler stands for it, as a handler has one turn at a time. *)
(* The deadline of a claim is abstracted to whether it has passed.         *)
(***************************************************************************)
EXTENDS Naturals, Sequences

CONSTANTS
    Chats,         \* rows of "Chat Session"
    Handlers,
    Processes,     \* app processes
    ProcessOf,     \* ProcessOf[h]: the process that runs handler h
    NoHandler,     \* `active_turn` IS NULL
    Outlive,       \* TRUE: a turn may take longer than TURN_LEASE_SECONDS
    MaxTurns,      \* bound: questions accepted in a behaviour
    MaxCalls       \* bound: tool calls in one turn (max_iterations)

ASSUME ChatTurnsAssumption ==
    /\ Chats # {} /\ ProcessOf \in [Handlers -> Processes]
    /\ NoHandler \notin Handlers
    /\ Outlive \in BOOLEAN
    /\ MaxTurns \in Nat /\ MaxCalls \in Nat

VARIABLES
    session,       \* session[c]: the row, its claim and whether the claim lapsed
    log,           \* log[c]: the rows of "Chat Message" in order
    job,           \* job[h]: what handler h is doing
    turns,         \* number of questions accepted so far
    awaited        \* questions stored and neither answered, failed nor lost

vars == <<session, log, job, turns, awaited>>

Kinds == {"message", "audit", "clear", "delete"}
Idle == [pc |-> "idle", kind |-> "message", chat |-> CHOOSE c \in Chats : TRUE,
         turn |-> 0, calls |-> 0]

Entry(h, role) == [turn |-> job[h].turn, audit |-> job[h].kind = "audit", role |-> role]

At(h, pc) == job[h].pc = pc
Chat(h) == job[h].chat

\* session_turn_running
Running(c) == session[c].holder # NoHandler /\ ~session[c].expired

\* The turn of h has been claimed and not yet been given back.
InTurn(h) == job[h].kind = "message"
          /\ job[h].pc \in {"save", "think", "call", "release"}

\* Event-loop code without an await runs alone in its process.  The REST route
\* that deletes a session runs in a worker thread.
OffLoop(g) == g.kind = "delete" \/ g.pc \notin {"save", "purge"}
LoopFree(h) == \A g \in Handlers \ {h} : ProcessOf[g] = ProcessOf[h] => OffLoop(job[g])

Goto(h, pc) == job' = [job EXCEPT ![h] = [@ EXCEPT !.pc = pc]]
Done(h) == job' = [job EXCEPT ![h] = Idle]

\* save_chat_message; the foreign key refuses it when the session is gone.
Store(h, role) ==
    /\ session[Chat(h)].open
    /\ log' = [log EXCEPT ![Chat(h)] = Append(@, Entry(h, role))]

-----------------------------------------------------------------------------
(* The life of a request *)

Init ==
    /\ session = [c \in Chats |-> [open |-> TRUE, holder |-> NoHandler, expired |-> FALSE]]
    /\ log = [c \in Chats |-> <<>>]
    /\ job = [h \in Handlers |-> Idle]
    /\ turns = 0
    /\ awaited = {}

\* A request arrives and finds its session (get_session, can_access_session).
\* A "message" is a chat message or a REST call that continues a session; an
\* "audit" is a stateless REST call, which claims nothing.
Request(h, c, kind) ==
    /\ At(h, "idle")
    /\ session[c].open
    /\ LoopFree(h)
    /\ IF kind = "audit" THEN turns < MaxTurns /\ turns' = turns + 1 ELSE UNCHANGED turns
    /\ job' = [job EXCEPT ![h] =
          [@ EXCEPT !.kind = kind, !.chat = c, !.turn = IF kind = "audit" THEN turns' ELSE 0,
                    !.pc = CASE kind = "message" -> "claim"
                             [] kind = "audit" -> "save"
                             [] OTHER -> "check"]]
    /\ UNCHANGED <<session, log, awaited>>

\* Faulty: only the connection's own tasks are looked at.
Claimable_Any(c) == session[c].open

\* The WHERE clause of claim_session_turn.
Claimable(c) == session[c].open /\ ~Running(c)

\* claim_session_turn
Claim(h) ==
    /\ At(h, "claim") /\ LoopFree(h)
    /\ Claimable(Chat(h))
    /\ session' = [session EXCEPT ![Chat(h)] = [@ EXCEPT !.holder = h, !.expired = FALSE]]
    /\ turns < MaxTurns /\ turns' = turns + 1
    /\ job' = [job EXCEPT ![h] = [@ EXCEPT !.pc = "save", !.turn = turns']]
    /\ UNCHANGED <<log, awaited>>

\* Another turn is running, or the session is gone.
Refuse(h) ==
    /\ \/ At(h, "claim") /\ ~Claimable(Chat(h))
       \/ At(h, "check") /\ (Running(Chat(h)) \/ ~session[Chat(h)].open)
    /\ LoopFree(h)
    /\ Done(h)
    /\ UNCHANGED <<session, log, turns, awaited>>

\* The question is stored; a task starts with the history as its context.
SaveQuestion(h) ==
    /\ At(h, "save")
    /\ Store(h, "user")
    /\ awaited' = awaited \cup {job[h].turn}
    /\ Goto(h, "think")
    /\ UNCHANGED <<session, turns>>

\* The model asks for a tool; _save_tool_trace swallows a refused insert.
CallTool(h) ==
    /\ At(h, "think") /\ LoopFree(h)
    /\ job[h].calls < MaxCalls
    /\ \/ Store(h, "tool_call")
       \/ ~session[Chat(h)].open /\ UNCHANGED log
    /\ job' = [job EXCEPT ![h] = [@ EXCEPT !.pc = "call", !.calls = job[h].calls + 1]]
    /\ UNCHANGED <<session, turns, awaited>>

\* The tool runs in a worker thread and its result is traced.
TraceResult(h) ==
    /\ At(h, "call") /\ LoopFree(h)
    /\ \/ Store(h, "tool_result")
       \/ ~session[Chat(h)].open /\ UNCHANGED log
    /\ Goto(h, "think")
    /\ UNCHANGED <<session, turns, awaited>>

\* The reply is complete and stored.
StoreReply(h) ==
    /\ At(h, "think") /\ LoopFree(h)
    /\ Store(h, "assistant")
    /\ awaited' = awaited \ {job[h].turn}
    /\ Goto(h, "release")
    /\ UNCHANGED <<session, turns>>

\* The model cannot be reached, a hook raises, or the question is not stored (its
\* session may be gone); `finally` follows.
Fail(h) ==
    /\ \/ At(h, "think") /\ LoopFree(h)
       \/ At(h, "save")
    /\ awaited' = awaited \ {job[h].turn}
    /\ Goto(h, "release")
    /\ UNCHANGED <<session, log, turns>>

\* Faulty: the claim is cleared whoever holds it.
Owner_Any(h) == InTurn(h)

\* The WHERE clause of release_session_turn; a stateless call has no token.
Owner(h) == InTurn(h) /\ session[Chat(h)].holder = h

\* release_session_turn
Release(h) ==
    /\ At(h, "release") /\ LoopFree(h)
    /\ session' = IF Owner(h)
                  THEN [session EXCEPT ![Chat(h)] =
                           [@ EXCEPT !.holder = NoHandler, !.expired = FALSE]]
                  ELSE session
    /\ Done(h)
    /\ UNCHANGED <<log, turns, awaited>>

-----------------------------------------------------------------------------
(* Clearing and deleting a chat *)

\* session_turn_running is read in a transaction of its own.
Check(h) ==
    /\ At(h, "check") /\ LoopFree(h)
    /\ session[Chat(h)].open /\ ~Running(Chat(h))
    /\ Goto(h, "purge")
    /\ UNCHANGED <<session, log, turns, awaited>>

\* clear_chat_history, delete_session: one transaction each.
Purge(h) ==
    /\ At(h, "purge")
    /\ log' = [log EXCEPT ![Chat(h)] = <<>>]
    /\ session' = IF job[h].kind = "delete"
                  THEN [session EXCEPT ![Chat(h)] =
                           [open |-> FALSE, holder |-> NoHandler, expired |-> FALSE]]
                  ELSE session
    /\ Done(h)
    /\ UNCHANGED <<turns, awaited>>

-----------------------------------------------------------------------------
(* The environment *)

\* The socket closes: its turn is detached and goes on as before (detach_turn);
\* what it sends from now on is dropped.
Disconnect(h) ==
    /\ job[h].pc \in {"think", "call"}
    /\ UNCHANGED vars

\* A process dies, or is stopped when drain_turns gives up waiting.
Crash(p) ==
    LET lost == {h \in Handlers : ProcessOf[h] = p /\ ~At(h, "idle")}
    IN  /\ lost # {}
        /\ job' = [h \in Handlers |-> IF h \in lost THEN Idle ELSE job[h]]
        /\ awaited' = awaited \ {job[h].turn : h \in lost}
        /\ UNCHANGED <<session, log, turns>>

\* Faulty: the claim has no deadline.
Lapsing_Never(c) == FALSE

\* A turn that is still running lapses only when it may outlive its lease.
Lapsing(c) ==
    /\ Running(c)
    /\ \/ Outlive
       \/ ~\E h \in Handlers : h = session[c].holder /\ InTurn(h) /\ Chat(h) = c

\* `active_turn_until` passes.
Lapse(c) ==
    /\ Lapsing(c)
    /\ session' = [session EXCEPT ![c] = [@ EXCEPT !.expired = TRUE]]
    /\ UNCHANGED <<log, job, turns, awaited>>

Step(h) ==
    \/ Claim(h) \/ Refuse(h) \/ SaveQuestion(h) \/ CallTool(h) \/ TraceResult(h)
    \/ StoreReply(h) \/ Fail(h) \/ Release(h) \/ Check(h) \/ Purge(h)

Next ==
    \/ \E h \in Handlers :
          \/ \E c \in Chats, kind \in Kinds : Request(h, c, kind)
          \/ Step(h) \/ Disconnect(h)
    \/ \E p \in Processes : Crash(p)
    \/ \E c \in Chats : Lapse(c)

Spec == Init /\ [][Next]_vars

\* The event loop and the thread pool serve every handler in turn, calls of the
\* model time out, and the clock reaches every deadline.
FairSpec ==
    /\ Spec
    /\ \A h \in Handlers : SF_vars(Step(h))
    /\ \A c \in Chats : WF_vars(Lapse(c))

-----------------------------------------------------------------------------
(* Properties *)

SessionRows == [open : BOOLEAN, holder : Handlers \cup {NoHandler}, expired : BOOLEAN]
Messages == [turn : 1..MaxTurns, audit : BOOLEAN,
             role : {"user", "tool_call", "tool_result", "assistant"}]
Jobs == [pc : {"idle", "claim", "save", "think", "call", "release", "check", "purge"},
         kind : Kinds, chat : Chats, turn : 0..MaxTurns, calls : 0..MaxCalls]

TypeOK ==
    /\ session \in [Chats -> SessionRows]
    /\ log \in [Chats -> Seq(Messages)]
    /\ job \in [Handlers -> Jobs]
    /\ turns \in 0..MaxTurns
    /\ awaited \subseteq 1..turns

\* A session runs one agent turn at a time, across tabs, REST calls and
\* processes, crashes, and chats deleted meanwhile (claim_session_turn).
OneTurnAtATime ==
    \A g, h \in Handlers :
        InTurn(g) /\ InTurn(h) /\ Chat(g) = Chat(h) => g = h

\* No message of another claimed turn falls between two messages of a turn:
\* a history reads as one exchange after the other, whatever was cleared.
TurnsContiguous ==
    \A c \in Chats : \A i, j, k \in 1..Len(log[c]) :
        /\ i < j /\ j < k
        /\ log[c][i].turn = log[c][k].turn
        /\ ~log[c][i].audit /\ ~log[c][j].audit
        => log[c][j].turn = log[c][i].turn

\* No message is left behind by the deletion of its session, whatever the turn
\* that was running on it still stores (the foreign key of "Chat Message").
NoStrayMessage == \A c \in Chats : ~session[c].open => log[c] = <<>>

\* An unexpired claim is given up by its own turn or with its session, never
\* by a turn that outlived its own lease (release_session_turn).
ClaimIsOwn ==
    [][\A c \in Chats, h \in Handlers :
          Running(c) /\ session[c].holder = h =>
              \/ session'[c].holder = h
              \/ At(h, "release") /\ Chat(h) = c /\ ~At(h, "release")'
              \/ ~session'[c].open]_vars

\* Every question gets a reply, an error, or dies with its process; a socket
\* that closes ends none (chat_websocket's finally).  And a session becomes free
\* again, also when the process of its turn died.
EveryTurnConcludes ==
    /\ \A n \in 1..MaxTurns : n \in awaited ~> n \notin awaited
    /\ \A c \in Chats : Running(c) ~> ~Running(c)
=============================================================================
