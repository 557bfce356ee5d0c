------------------------------ MODULE Requests -------------------------------
(***************************************************************************)
(* A command's request to the KVM (internal/client): the response cache on *)
(* disk around it, the loop that repeats it, and what an auto read does    *)
(* with the answer (internal/cli/data_source.go).                          *)
(*                                                                         *)
(* A worker is a slot for a process: it runs one command after another,    *)
(* and workers share nothing but the cache, the local store and the KVM.   *)
(* Commands says what the commands ask of the client.                      *)
(*                                                                         *)
(* The cache is the one file of one GET's key; GETs of other resources     *)
(* fill files of their own and are left out.  A mutation may be of the     *)
(* resource that GET reads or of another: its answer is a view of the      *)
(* whole KVM, here a version that every executed mutation increases.       *)
(***************************************************************************)
EXTENDS Integers, FiniteSets, Commands

CONSTANTS
  Worker,
  Offered,      \* the commands each worker may run
  Cached,       \* the resource the cached GET reads
  MaxRetries,   \* clientMaxRetries
  MaxVersion,   \* bound: mutations the KVM executes
  MaxCommands   \* bound: commands begun

NoFile == -1
Empty == -2
Mixed == -3
NoRequest == [method |-> "none", intent |-> "none", key |-> FALSE, cached |-> FALSE,
              streamed |-> FALSE]

ASSUME BoundsAssumption ==
  MaxRetries \in Nat /\ MaxVersion \in Nat /\ MaxCommands \in Nat
(* What the calls of the client can ask. *)
ASSUME OfferedAssumption ==
  \A w \in Worker : \A c \in Offered[w] : c.request \in RequestSet

VARIABLES
  pc,        \* where each worker is
  request,   \* what it asks of the KVM
  elsewhere, \* the request is of another resource than Cached
  attempt,   \* doInternal's attempt; MaxRetries stands for that and more
  late,      \* the operation's deadline has passed
  body,      \* the version its request found or made, or what it read
  linked,    \* it has the cache file open, and that file is still in place
  begun,     \* commands begun
  version,   \* the KVM's state: mutations executed
  file,      \* the cache file: NoFile, Empty, a version, or Mixed
  acked,     \* history: the newest version whose mutation reported success
  executed,  \* history: how often the KVM executed its mutation
  behind,    \* history: the file was filled with a version older than acked
  left       \* history: a removal after a mutation failed

asked == <<request, elsewhere>>
progress == <<attempt, late, body, linked>>
fills == <<behind, left>>
vars == <<pc, asked, progress, begun, version, executed, file, acked, fills>>

Filling == {"create", "write"}
Label == {"idle", "stat", "read", "send", "answer", "body", "wait", "invalidate", "clear", "use",
          "local"} \cup Filling

TypeOK ==
  /\ pc \in [Worker -> Label]
  /\ request \in [Worker -> RequestSet \cup {NoRequest}]
  /\ elsewhere \in [Worker -> BOOLEAN]
  /\ attempt \in [Worker -> 0 .. MaxRetries]
  /\ late \in [Worker -> BOOLEAN]
  /\ body \in [Worker -> {Mixed, Empty} \cup 0 .. MaxVersion]
  /\ \A w \in Worker :
       pc[w] \in {"answer", "body", "invalidate", "clear"} \cup Filling => body[w] \in 0 .. version
  /\ linked \in [Worker -> BOOLEAN]
  /\ begun \in 0 .. MaxCommands
  /\ version \in 0 .. MaxVersion
  /\ file \in {NoFile, Mixed, Empty} \cup 0 .. MaxVersion
  /\ acked \in 0 .. version
  /\ executed \in [Worker -> Nat]
  /\ behind \in BOOLEAN
  /\ left \in BOOLEAN

Init ==
  /\ pc = [w \in Worker |-> "idle"]
  /\ request = [w \in Worker |-> NoRequest]
  /\ elsewhere = [w \in Worker |-> FALSE]
  /\ attempt = [w \in Worker |-> 0]
  /\ late = [w \in Worker |-> FALSE]
  /\ body = [w \in Worker |-> 0]
  /\ linked = [w \in Worker |-> FALSE]
  /\ begun = 0
  /\ version = 0
  /\ file = NoFile
  /\ acked = 0
  /\ executed = [w \in Worker |-> 0]
  /\ behind = FALSE
  /\ left = FALSE

To(w, label) == pc' = [pc EXCEPT ![w] = label]

(* A command ends, and forgets what it had. *)
Forget(w) ==
  /\ To(w, "idle")
  /\ request' = [request EXCEPT ![w] = NoRequest]
  /\ elsewhere' = [elsewhere EXCEPT ![w] = FALSE]
  /\ attempt' = [attempt EXCEPT ![w] = 0]
  /\ late' = [late EXCEPT ![w] = FALSE]
  /\ body' = [body EXCEPT ![w] = 0]
  /\ executed' = [executed EXCEPT ![w] = 0]
  /\ UNCHANGED <<begun, version>>

Returns(w) ==
  /\ Forget(w)
  /\ UNCHANGED <<linked, file, acked, fills>>

(* newClient, which looks at --no-cache and --timeout, and the command's   *)
(* call.  Reads go through resolveRead, which with --data-source local     *)
(* asks the store alone.                                                   *)
Asked(c, noCache, timeout) ==
  LET r == IF timeout THEN Timed(c.request) ELSE c.request
  IN  IF noCache THEN Uncached(r) ELSE r

Begin(w, c, noCache, timeout, local) ==
  LET r == Asked(c, noCache, timeout)
  IN /\ pc[w] = "idle"
     /\ begun < MaxCommands
     /\ r.cached => c.of = Cached
     /\ begun' = begun + 1
     /\ request' = [request EXCEPT ![w] = r]
     /\ elsewhere' = [elsewhere EXCEPT ![w] = Changes(r) /\ c.of # Cached]
     /\ To(w, IF local /\ r.method = "GET" /\ ~Changes(r) THEN "local" ELSE IF r.cached THEN "stat" ELSE "send")
     /\ UNCHANGED <<progress, version, executed, file, acked, fills>>

(* A usage error, or help; --dry-run, which stops before the first         *)
(* request; a change under PRINTING_PRESS_VERIFY, answered by an envelope. *)
Unsent(w, c) ==
  /\ pc[w] = "idle"
  /\ begun < MaxCommands
  /\ \E how \in {"bare", "dry run", "verify"} :
       /\ how = "bare" => c.needsInput
       /\ how = "verify" => ShortCircuits(c.request)
  /\ begun' = begun + 1
  /\ UNCHANGED <<pc, asked, progress, version, executed, file, acked, fills>>

-----------------------------------------------------------------------------
(* readCacheWithHeaders: a file that is there and younger than five        *)
(* minutes is read, whatever is in it by then.  The age of a file is the   *)
(* clock's business: it may be past the limit whenever it is looked at.    *)

Stat(w) ==
  /\ pc[w] = "stat"
  /\ \/ file # NoFile /\ To(w, "read")
     \/ To(w, "send")
  /\ UNCHANGED <<asked, progress, begun, version, executed, file, acked, fills>>

ReadFile(w) ==
  /\ pc[w] = "read"
  /\ IF file = NoFile
     THEN To(w, "send") /\ UNCHANGED body
     ELSE To(w, "use") /\ body' = [body EXCEPT ![w] = file]
  /\ UNCHANGED <<asked, attempt, late, linked, begun, version, executed, file, acked, fills>>

-----------------------------------------------------------------------------
(* doInternal.  The KVM executes a request or not, and answers or not.     *)

CanRetryByMethod(w) == request[w].intent = "read" \/ CanRetryRequest(request[w])
CanRetry(w) == CanRetryAmbiguousFailure(request[w])
Left(w) == attempt[w] < MaxRetries

Execute(w) ==
  /\ pc[w] = "send"
  /\ IF Changes(request[w])
     THEN /\ version < MaxVersion
          /\ version' = version + 1
          /\ executed' = [executed EXCEPT ![w] = @ + 1]
     ELSE UNCHANGED <<version, executed>>
  /\ body' = [body EXCEPT ![w] = version']
  /\ To(w, "answer")
  /\ UNCHANGED <<asked, attempt, late, linked, begun, file, acked, fills>>

Whole(w) ==
  /\ To(w, IF Changes(request[w]) THEN "invalidate"
           ELSE IF request[w].cached THEN "clear" ELSE "use")
  /\ UNCHANGED <<asked, progress, begun, version, executed, file, acked, fills>>

(* A read that found no network looks into the local store.                *)
FallBack(w) ==
  /\ request[w].method = "GET" /\ ~Changes(request[w])
  /\ To(w, "local")
  /\ UNCHANGED <<asked, progress, begun, version, executed, file, acked, fills>>

Answer(w) ==
  /\ pc[w] = "answer"
  /\ \/ ~request[w].streamed /\ Whole(w)
     \/ /\ request[w].streamed
        /\ To(w, "body")
        /\ UNCHANGED <<asked, progress, begun, version, executed, file, acked, fills>>

(* The headers of a streamed answer are here: io.ReadAll has neither the   *)
(* client's timeout nor the operation's deadline.  An error of it is not   *)
(* tried again.                                                            *)
ReadBody(w) ==
  /\ pc[w] = "body"
  /\ Whole(w) \/ FallBack(w) \/ Returns(w)

Again(w) ==
  /\ To(w, "wait")
  /\ UNCHANGED <<asked, progress, begun, version, executed, file, acked, fills>>

(* No answer, or a status of 500 and above, or half an answer: tried again *)
(* while attempts and the retry budget last, but for the half answer.      *)
Fail(w) ==
  /\ pc[w] \in {"send", "answer"}
  /\ \/ CanRetry(w) /\ Left(w) /\ Again(w)
     \/ Returns(w)
     \/ FallBack(w)

(* Refused with a status below 500; 429 is repeated, and past the last     *)
(* attempt waits for the budget to refill as long as the operation may     *)
(* last.                                                                   *)
Refuse(w) ==
  /\ pc[w] = "send"
  /\ \/ CanRetry(w) /\ MaxRetries > 0 /\ Again(w)
     \/ Returns(w)

(* Sleeping between attempts, and in the limiters before one. *)
WaitWithCallersDeadline(w) ==
  /\ pc[w] = "wait"
  /\ attempt' = [attempt EXCEPT ![w] = IF Left(w) THEN @ + 1 ELSE @]
  /\ To(w, "send")
  /\ UNCHANGED <<asked, late, body, linked, begun, version, executed, file, acked, fills>>
Wait(w) ==
  /\ pc[w] = "wait"
  /\ \/ /\ late[w] => Left(w)
        /\ attempt' = [attempt EXCEPT ![w] = IF Left(w) THEN @ + 1 ELSE @]
        /\ To(w, "send")
        /\ UNCHANGED <<asked, late, body, linked, begun, version, executed, file, acked, fills>>
     \/ late[w] /\ Returns(w)

Deadline(w) ==
  /\ pc[w] \in {"send", "answer", "wait"}
  /\ ~late[w]
  /\ late' = [late EXCEPT ![w] = TRUE]
  /\ UNCHANGED <<pc, asked, attempt, body, linked, begun, version, executed, file, acked, fills>>

-----------------------------------------------------------------------------
(* invalidateCacheAfterMutation: every cached answer goes, and the command *)
(* reports success.  An error of the removal is dropped.                   *)

InvalidatesResource(w) == ~elsewhere[w]
Invalidates(w) == TRUE

(* The answer may still be an HTML page, which is an error.                *)
Invalidate(w) ==
  /\ pc[w] = "invalidate"
  /\ Forget(w)
  /\ \E isJSON \in BOOLEAN : acked' = IF isJSON /\ body[w] > acked THEN body[w] ELSE acked
  /\ IF Invalidates(w)
     THEN \/ /\ file' = NoFile
             /\ linked' = [x \in Worker |-> FALSE]
             /\ UNCHANGED fills
          \/ /\ file # NoFile
             /\ left' = TRUE
             /\ UNCHANGED <<file, linked, behind>>
     ELSE UNCHANGED <<file, linked, fills>>

-----------------------------------------------------------------------------
(* writeCacheWithHeaders: remove the file, create it, write into it.  None *)
(* of their errors is looked at.                                           *)

ClearFile(w) ==
  /\ pc[w] = "clear"
  /\ file' = NoFile
  /\ linked' = [x \in Worker |-> FALSE]
  /\ To(w, "create")
  /\ UNCHANGED <<asked, attempt, late, body, begun, version, executed, acked, fills>>

(* An open that truncates what is there; it fails when a mutation has      *)
(* removed the directory.                                                  *)
CreateFile(w) ==
  /\ pc[w] = "create"
  /\ \/ /\ file' = Empty
        /\ linked' = [linked EXCEPT ![w] = TRUE]
        /\ To(w, "write")
     \/ To(w, "use") /\ UNCHANGED <<file, linked>>
  /\ UNCHANGED <<asked, attempt, late, body, begun, version, executed, acked, fills>>

(* Written over another body, a shorter one leaves the other's end. *)
Over(old, new) == IF old \in {Empty, new} THEN {new} ELSE {new, Mixed}

WriteFile(w) ==
  /\ pc[w] = "write"
  /\ IF linked[w]
     THEN \/ /\ file' \in Over(file, body[w])
             /\ behind' = (body[w] < acked)
          \/ /\ file' \in {file, Mixed}
             /\ UNCHANGED behind
     ELSE UNCHANGED <<file, behind>>
  /\ linked' = [linked EXCEPT ![w] = FALSE]
  /\ To(w, "use")
  /\ UNCHANGED <<asked, attempt, late, body, begun, version, executed, acked, left>>

-----------------------------------------------------------------------------
(* resolveRead: an answer that is not JSON is an error, any other is       *)
(* written through to the local store.                                     *)

Use(w) ==
  /\ pc[w] = "use"
  /\ Returns(w)

(* The store has the row under the fingerprint of its fields and is asked  *)
(* for the last segment of the path: nothing is found, and the network     *)
(* error is returned.                                                      *)
Local(w) ==
  /\ pc[w] = "local"
  /\ Returns(w)

Crash(w) ==
  /\ pc[w] # "idle"
  /\ Forget(w)
  /\ linked' = [linked EXCEPT ![w] = FALSE]
  /\ UNCHANGED <<file, acked, fills>>

-----------------------------------------------------------------------------

Step(w) ==
  \/ Stat(w)
  \/ ReadFile(w)
  \/ Execute(w)
  \/ Answer(w)
  \/ Fail(w)
  \/ Refuse(w)
  \/ Wait(w)
  \/ Invalidate(w)
  \/ ClearFile(w)
  \/ CreateFile(w)
  \/ WriteFile(w)
  \/ Use(w)
  \/ Local(w)

Next ==
  \E w \in Worker :
    \/ \E c \in Offered[w], noCache, timeout, local \in BOOLEAN :
         Begin(w, c, noCache, timeout, local)
    \/ \E c \in Offered[w] : Unsent(w, c)
    \/ Step(w)
    \/ ReadBody(w)
    \/ Deadline(w)
    \/ Crash(w)

Spec == Init /\ [][Next]_vars

(* Calls are bounded by the client's timeout, or by the headers' where the *)
(* body is streamed, and deadlines pass.  That body may never end.         *)
Fairness == \A w \in Worker : WF_vars(Step(w)) /\ WF_vars(Deadline(w))

FairSpec == Spec /\ Fairness

-----------------------------------------------------------------------------
(* Properties. *)

(* Once a mutation has reported success, no older answer is in the cache:  *)
(* a later command sees the mutation.  It fails only when a GET that was   *)
(* answered before the mutation fills the cache after it (behind), or when *)
(* the removal failed (left).                                              *)
CacheIsCurrent == file \in Nat /\ file < acked => behind \/ left

(* "a write may already have committed remotely even when its wire method  *)
(* is GET": the KVM executes a command's mutation once, unless it is one   *)
(* that may be repeated, by its key or as a PUT or DELETE.                 *)
WrittenOnce ==
  \A w \in Worker :
    executed[w] > 1 => request[w].key \/ request[w].method \in {"PUT", "DELETE"}

(* Every request returns, also when the KVM answers 429 for ever, "bounded *)
(* by ctx / --timeout"; but for a snapshot without --timeout whose headers *)
(* have come and whose body does not end.                                  *)
EveryRequestReturns ==
  \A w \in Worker : (pc[w] # "idle" ~> pc[w] = "idle") \/ <>[](pc[w] = "body")
=============================================================================
