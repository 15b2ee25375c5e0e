---------------------------- MODULE MCConversations ----------------------------
(* Small instances of Conversations. *)
EXTENDS Conversations, TLC

CONSTANTS cleo, dan, hello, other, ann, bob, h1, h2

TwoContacts == {cleo, dan}
OneContact == {cleo}
TwoMessages == {hello, other}
Senders == hello :> cleo @@ other :> dan
TwoUsers == {ann, bob}
Volunteers == {ann}
Admins == {bob}
TwoHandlers == {h1, h2}
==============================================================================
