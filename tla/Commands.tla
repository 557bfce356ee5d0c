------------------------------ MODULE Commands -------------------------------
(***************************************************************************)
(* The endpoint commands of the CLI, the endpoint tools of the MCP server  *)
(* and the calls of internal/client they make, as data: what is asked of   *)
(* the KVM, and how the client will treat it.                              *)
(*                                                                         *)
(* A request is a method and an intent.  The intent is "none" for do(),    *)
(* "read" for doRead() (a query that rides on a mutating verb) and         *)
(* "change" for doMutation() (an action that rides on GET).  "key" says it *)
(* carries an idempotency key, "cached" that its answer may come from the  *)
(* response cache and goes there, "streamed" that nothing bounds the time  *)
(* its body takes, as only the headers' does.                              *)
(***************************************************************************)

Request(method, intent) ==
  [method |-> method, intent |-> intent, key |-> FALSE, cached |-> FALSE,
   streamed |-> FALSE]

(* GetWithHeaders; without a cache for --no-cache, --dry-run and MCP, and  *)
(* for a binary answer.                                                    *)
Get == [Request("GET", "none") EXCEPT !.cached = TRUE]
Uncached(r) == [r EXCEPT !.cached = FALSE]
GetMutating == Request("GET", "change")

(* A binary answer: StreamingHTTPClient drops the client's timeout for it, *)
(* unless --timeout was given.                                             *)
GetBinary == [Request("GET", "none") EXCEPT !.streamed = TRUE]
Timed(r) == [r EXCEPT !.streamed = FALSE]

(* The families Post*, Put*, Patch* and Delete*, and their Query variants. *)
Send(method) == Request(method, "none")
Query(method) == Request(method, "read")
WithKey(r) == [r EXCEPT !.key = TRUE]

RequestSet ==
  [method : {"GET", "POST", "PUT", "PATCH", "DELETE"},
   intent : {"none", "read", "change"}, key : BOOLEAN, cached : BOOLEAN,
   streamed : BOOLEAN]

IsMutatingVerb(method) == method \in {"POST", "PUT", "PATCH", "DELETE"}

(* Not sent at all under PRINTING_PRESS_VERIFY. *)
ShortCircuits(r) == r.intent = "change" \/ (r.intent = "none" /\ IsMutatingVerb(r.method))

(* A success of it empties the cache. *)
Changes(r) == r.intent # "read" /\ (r.intent = "change" \/ r.method # "GET")

CanRetryRequest(r) ==
  \/ r.method \in {"GET", "HEAD", "OPTIONS", "PUT", "DELETE"}
  \/ r.method \in {"POST", "PATCH"} /\ r.key

(* What may be repeated after a failure that left open whether the KVM     *)
(* executed it: "a write may already have committed remotely even when its *)
(* wire method is GET".                                                    *)
CanRetryAmbiguousFailure(r) ==
  r.intent = "read" \/ (r.intent # "change" /\ CanRetryRequest(r))

-----------------------------------------------------------------------------
(* The commands of the CLI.  One that needs input prints its help, or is a *)
(* usage error, when it is called without.                                 *)

Command(resource, request, needsInput) ==
  [of |-> resource, request |-> request, needsInput |-> needsInput]

HidGetState == Command("hid", Get, FALSE)
HidReset == Command("hid", Send("POST"), FALSE)
HidSendKey == Command("hid", Send("POST"), TRUE)
HidSendMouseButton == Command("hid", Send("POST"), TRUE)
HidSendMouseMove == Command("hid", Send("POST"), TRUE)
HidSendMouseWheel == Command("hid", Send("POST"), TRUE)
HidSendShortcut == Command("hid", Send("POST"), TRUE)
InfoGet == Command("info", Get, FALSE)
AuthCheck == Command("auth", Get, FALSE)
AuthLogin == Command("auth", Send("POST"), TRUE)
AuthLogout == Command("auth", Send("POST"), FALSE)
StreamerGetSnapshot == Command("streamer", GetBinary, FALSE)
StreamerSetParams == Command("streamer", Send("POST"), FALSE)
SystemSetOtgFunctions == Command("system", Send("POST"), TRUE)

CLICommands ==
  {HidGetState, HidReset, HidSendKey, HidSendMouseButton, HidSendMouseMove,
   HidSendMouseWheel, HidSendShortcut, InfoGet, AuthCheck, AuthLogin, AuthLogout,
   StreamerGetSnapshot, StreamerSetParams, SystemSetOtgFunctions}

-----------------------------------------------------------------------------
(* The tools of the MCP server: which call of the client makeAPIHandler    *)
(* makes for a method and a tool's read-only mark.  Its client has no      *)
(* cache.                                                                  *)

ToolRequest(method, readOnly) ==
  CASE method = "GET" -> IF readOnly THEN Uncached(Get) ELSE GetMutating
    [] method \in {"POST", "PUT", "PATCH"} ->
         IF readOnly THEN Query(method) ELSE Send(method)
    [] method = "DELETE" -> Send(method)

Tool(method, resource, readOnly) ==
  Command(resource, ToolRequest(method, readOnly), FALSE)

SnapshotTool == Command("streamer", GetBinary, FALSE)

MCPTools ==
  {Tool("GET", r, TRUE) : r \in {"hid", "info", "auth"}} \cup {SnapshotTool} \cup
  {Tool("POST", r, FALSE) : r \in {"hid", "auth", "streamer", "system"}}
=============================================================================
