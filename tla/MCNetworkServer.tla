--------------------------- MODULE MCNetworkServer ---------------------------
(***************************************************************************)
(* Small instances of NetworkServer.  The messages cover, for each size    *)
(* the code compares against (8, 12, the buffer's 16 here), one below and  *)
(* one above, streams cut inside the size field, one byte short and        *)
(* complete, and bytes beyond the announced size.                          *)
(***************************************************************************)
EXTENDS NetworkServer

CONSTANTS c1, c2

Message(announced, sent, closes, magic, request) ==
  [announced |-> announced, sent |-> sent, closes |-> closes,
   magic |-> magic, request |-> request]

MCMessages ==
  {Message(12, sent, closes, TRUE, "toggle") :
     sent \in {0, 1, 10, 13, 14, 15}, closes \in BOOLEAN} \cup
  {Message(announced, 30, TRUE, TRUE, request) :
     announced \in {8, 12}, request \in {"set_boot", "get_boot", "unknown"}} \cup
  {Message(announced, 2 + announced, FALSE, magic, "sense") :
     announced \in {0, 7, 8}, magic \in BOOLEAN} \cup
  {Message(20, sent, FALSE, TRUE, "set_boot") : sent \in {17, 18, 22}}

MCClients == {c1, c2}
=============================================================================
