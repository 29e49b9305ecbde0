---------------------------- MODULE MCChatSessions ----------------------------
(* ChatSessions for TLC: chats may be exchanged, and handlers.             *)
EXTENDS ChatSessions, TLC
CONSTANTS c1, c2, a1, o1, o2, o3, o4
Symmetry == Permutations(Chats) \cup Permutations(Ops)
=============================================================================
