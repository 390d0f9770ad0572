----------------------------- MODULE MCChatSplit -----------------------------
(* ChatSplit on small instances for TLC: alice sends, bob receives.          *)
EXTENDS ChatSplit

CONSTANTS alice, bob, s1, s2, c1, c2

\* alice sends to bob, who is at the other server; or bob has two connections, at
\* the same server or at two, and no message is sent.
Scenes == {<<c1, alice, s1>>, <<c1, bob, s1>>, <<c1, bob, s2>>, <<c2, bob, s2>>}

\* bob connects once, to either server.
Anywhere == {<<c1, alice, s1>>, <<c2, bob, s1>>, <<c2, bob, s2>>}
=============================================================================
