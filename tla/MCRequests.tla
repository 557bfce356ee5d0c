----------------------------- MODULE MCRequests -----------------------------
(* Small instances of Requests: who runs which commands.                   *)
EXTENDS Requests, TLC

CONSTANTS w1, w2

(* Calls of the client that no shipped command makes, but its handlers can. *)
OtherCalls ==
  {Tool("GET", "hid", FALSE), Tool("PUT", "system", FALSE), Tool("POST", "hid", TRUE),
   Command("hid", WithKey(Send("POST")), FALSE)}

ReaderAndAnyone ==
  (w1 :> {HidGetState, HidSendKey}) @@ (w2 :> CLICommands \cup MCPTools \cup OtherCalls)
=============================================================================
