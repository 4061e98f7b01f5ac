---------------------------- MODULE MCChatTurns ----------------------------
(* Handlers of one app process (h1, h2) and of another (h3). *)
EXTENDS ChatTurns, TLC

CONSTANTS h1, h2, h3, p1, p2

MCProcessOf == [h \in Handlers |-> IF h = h3 THEN p2 ELSE p1]
=============================================================================
