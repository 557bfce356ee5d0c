------------------------------ MODULE SeqExec -------------------------------
(***************************************************************************)
(* Executing an authorized plan: ExecuteAuthorized after the token has     *)
(* been taken, Executor.executeUntil, and KVMDDevice over the KVM's HID    *)
(* API (internal/sequence).                                                *)
(*                                                                         *)
(* A run is one such call.  Runs of one Executor share its mutex and its   *)
(* device; runs of different Executors are different processes and share   *)
(* only the target's keyboard and mouse.  An action is a list of primitive *)
(* calls, and every call is a step: it is delivered and answered, not      *)
(* delivered, or delivered with its answer lost.  The clock may move       *)
(* between any two steps, a context may be cancelled and a process may die *)
(* at any of them.                                                         *)
(***************************************************************************)
EXTENDS Integers, Sequences, FiniteSets

CONSTANTS
  Run,          \* calls of ExecuteAuthorized whose token has been taken
  Executor,     \* Executor objects, each with its device
  ExecutorOf,   \* the Executor of a run
  Key,          \* keys and mouse buttons of the target
  Shift,        \* ShiftLeft, which Text presses without recording it
  Plan,         \* valid plans
  PlansOf,      \* the plans a run may be given
  PlanActions,  \* a plan's actions
  MaxDuration,  \* a plan's MaxDuration
  Expiries,     \* values of ExpiresAt
  Millisecond,  \* one, in units of the clock
  HasShortcut,  \* the API has KVMDShortcut, as client.Client does
  MaxTime,      \* bound: the clock stops here unless a run is sleeping
  NoRun

ASSUME ExecutorsAssumption == ExecutorOf \in [Run -> Executor]
ASSUME PlansAssumption ==
  /\ PlansOf \in [Run -> SUBSET Plan]
  /\ DOMAIN PlanActions = Plan
  /\ MaxDuration \in [Plan -> Nat \ {0}]
ASSUME TimesAssumption ==
  /\ Expiries \subseteq Nat /\ MaxTime \in Nat
  /\ Millisecond \in Nat \ {0}
ASSUME NoRunAssumption == NoRun \notin Run
ASSUME KeysAssumption == Shift \in Key /\ HasShortcut \in BOOLEAN

(* The actions Plan.validate lets through; a plan has at least one.  The   *)
(* zero values validate and executeAction replace (a click's count) are    *)
(* already replaced.  Holds and waits are given in whole milliseconds.     *)
Character == [key : Key, kind : {"plain", "shifted", "unsupported"}]
PlanAction ==
  [type : {"key"}, key : Key]
    \cup [type : {"hold_key"}, key : Key, for : Nat \ {0}]
    \cup [type : {"text"}, chars : Seq(Character) \ {<<>>}]
    \cup [type : {"mouse_click"}, key : Key, count : Nat \ {0}]
    \cup [type : {"wait"}, for : Nat \ {0}]
    \cup [type : {"release_all", "mouse_move", "mouse_move_pct",
                  "mouse_scroll", "assert_screen"}]
ASSUME ValidPlansAssumption ==
  \A p \in Plan : PlanActions[p] \in Seq(PlanAction) \ {<<>>}

-----------------------------------------------------------------------------
(* The calls an action makes, in order.  A tracked call records its key in *)
(* KVMDDevice.held; HoldKey forgets its key even when the release fails.   *)

Down(k) == [op |-> "down", key |-> k, tracked |-> TRUE]
Up(k) == [op |-> "up", key |-> k, tracked |-> TRUE]
RawDown(k) == [op |-> "down", key |-> k, tracked |-> FALSE]
RawUp(k) == [op |-> "up", key |-> k, tracked |-> FALSE]
Forget(k) == [op |-> "forget", key |-> k, tracked |-> TRUE]
Sleep(d) == [op |-> "sleep", for |-> d]
Wait(d) == [op |-> "wait", for |-> d]
Other(op) == [op |-> op]

Press(k) == <<Down(k), Up(k)>>

CharSteps(c) ==
  CASE c.kind = "plain" -> Press(c.key)
    [] c.kind = "shifted" -> <<RawDown(Shift)>> \o Press(c.key) \o <<RawUp(Shift)>>
    [] c.kind = "unsupported" -> <<Other("unavailable")>>

TextSteps(chars) ==
  LET upTo[n \in 0 .. Len(chars)] ==
        IF n = 0 THEN <<>> ELSE upTo[n - 1] \o CharSteps(chars[n])
  IN upTo[Len(chars)]

ClickSteps(b, count) ==
  [n \in 1 .. 2 * count |-> IF n % 2 = 1 THEN RawDown(b) ELSE RawUp(b)]

Steps(a) ==
  CASE a.type = "key" -> IF HasShortcut THEN <<Other("call")>> ELSE Press(a.key)
    [] a.type = "hold_key" -> <<Down(a.key), Sleep(a.for), Forget(a.key)>>
    [] a.type = "text" -> TextSteps(a.chars)
    [] a.type = "mouse_click" -> ClickSteps(a.key, a.count)
    [] a.type = "wait" -> <<Wait(a.for)>>
    [] a.type = "release_all" -> <<Other("sweep")>>
    [] a.type \in {"mouse_move", "mouse_scroll"} -> <<Other("call")>>
    [] a.type \in {"mouse_move_pct", "assert_screen"} -> <<Other("unavailable")>>

-----------------------------------------------------------------------------

VARIABLES
  stage,       \* where each run is
  plan,        \* the bound plan of a run
  expires,     \* its authorization's ExpiresAt
  start,       \* when it locked its executor
  index,       \* the action it is at
  step,        \* the call of that action it is at
  wake,        \* when its sleep or wait ends
  err,         \* the error it will return
  releasing,   \* the keys its ReleaseAll has still to release
  cancelled,   \* its context has been cancelled
  lock,        \* Executor.mu: the run that holds it
  held,        \* KVMDDevice.held of each Executor's device
  down,        \* the keys that are down on the target
  now,         \* the clock
  clipped,     \* history: a wait of the run was cut short
  journal,     \* history: the records each run has appended
  presser,     \* history: who last pressed a key, and in which action
  failed,      \* history: keys whose last call by a run returned an error, and
               \* what that call was
  finish       \* history: when a run made its last check

local == <<plan, expires, start, wake, clipped>>
device == <<held, down, presser, failed>>
vars == <<stage, local, index, step, err, releasing, cancelled, lock, device,
          now, journal, finish>>

Stage == {"idle", "start", "lock", "loop", "record", "act", "sleep", "check",
          "release", "end", "done", "dead"}

Actions(r) == PlanActions[plan[r]]
Action(r) == Actions(r)[index[r]]
Calls(r) == Steps(Action(r))
Current(r) == Calls(r)[step[r]]
Device(r) == ExecutorOf[r]
Acting == {"loop", "record", "act", "sleep", "check", "release"}
Rec(event, i) == [event |-> event, index |-> i]
Error == {"nil", "cancelled", "expired", "deadline", "journal", "device"}
Record == [event : {"sequence_start", "action", "sequence_end"}, index : Nat]
Journals == [Run -> Seq(Record)]
Presser == (Run \X Nat) \cup {<<NoRun, 0>>}
FailedCall == [key : Key, call : {"down", "up", "forget", "release"}]

TypeOK ==
  /\ stage \in [Run -> Stage]
  /\ plan \in [Run -> Plan \cup {NoRun}]
  /\ expires \in [Run -> Nat]
  /\ start \in [Run -> Nat]
  /\ index \in [Run -> Nat]
  /\ step \in [Run -> Nat]
  /\ wake \in [Run -> Nat]
  /\ clipped \in [Run -> BOOLEAN]
  /\ err \in [Run -> Error]
  /\ releasing \in [Run -> SUBSET Key]
  /\ cancelled \in [Run -> BOOLEAN]
  /\ lock \in [Executor -> Run \cup {NoRun}]
  /\ held \in [Executor -> SUBSET Key]
  /\ down \in SUBSET Key
  /\ now \in Nat
  /\ journal \in Journals
  /\ presser \in [Key -> Presser]
  /\ failed \in [Run -> SUBSET FailedCall]
  /\ finish \in [Run -> Nat]

Init ==
  /\ stage = [r \in Run |-> "idle"]
  /\ plan = [r \in Run |-> NoRun]
  /\ expires = [r \in Run |-> 0]
  /\ start = [r \in Run |-> 0]
  /\ index = [r \in Run |-> 1]
  /\ step = [r \in Run |-> 1]
  /\ wake = [r \in Run |-> 0]
  /\ clipped = [r \in Run |-> FALSE]
  /\ err = [r \in Run |-> "nil"]
  /\ releasing = [r \in Run |-> {}]
  /\ cancelled = [r \in Run |-> FALSE]
  /\ lock = [x \in Executor |-> NoRun]
  /\ held = [x \in Executor |-> {}]
  /\ down = {}
  /\ now = 0
  /\ journal = [r \in Run |-> <<>>]
  /\ presser = [k \in Key |-> <<NoRun, 0>>]
  /\ failed = [r \in Run |-> {}]
  /\ finish = [r \in Run |-> 0]

To(r, s) == stage' = [stage EXCEPT ![r] = s]

(* A run that gives up, or ends, while it holds the lock goes to the       *)
(* deferred ReleaseAll, which takes the keys in held (here h) and empties  *)
(* held before it makes its first call.                                    *)
Cleanup(r, e, h) ==
  /\ To(r, "release")
  /\ err' = [err EXCEPT ![r] = e]
  /\ releasing' = [releasing EXCEPT ![r] = h]
  /\ held' = [held EXCEPT ![Device(r)] = {}]

-----------------------------------------------------------------------------
(* ExecuteAuthorized, up to the executor's lock.                           *)

Begin(r, p, x) ==
  /\ stage[r] = "idle"
  /\ To(r, "start")
  /\ plan' = [plan EXCEPT ![r] = p]
  /\ expires' = [expires EXCEPT ![r] = x]
  /\ UNCHANGED <<start, wake, clipped, index, step, err, releasing, cancelled, lock,
                 device, now, journal, finish>>

AppendRecord(r, rec) == journal' = [journal EXCEPT ![r] = Append(@, rec)]

JournalStart(r) ==
  /\ stage[r] = "start"
  /\ \/ /\ AppendRecord(r, Rec("sequence_start", 0))
        /\ To(r, "lock")
        /\ UNCHANGED err
     \/ /\ err' = [err EXCEPT ![r] = "journal"]
        /\ To(r, "done")
        /\ UNCHANGED journal
  /\ UNCHANGED <<local, index, step, releasing, cancelled, lock, device, now, finish>>

LockExecutorWithoutWaiting(r) ==
  /\ stage[r] = "lock"
  /\ lock' = [lock EXCEPT ![ExecutorOf[r]] = r]
  /\ start' = [start EXCEPT ![r] = now]
  /\ To(r, "loop")
  /\ UNCHANGED <<plan, expires, wake, clipped, index, step, err, releasing,
                 cancelled, device, now, journal, finish>>
LockExecutor(r) ==
  /\ stage[r] = "lock"
  /\ lock[ExecutorOf[r]] = NoRun
  /\ lock' = [lock EXCEPT ![ExecutorOf[r]] = r]
  /\ start' = [start EXCEPT ![r] = now]
  /\ To(r, "loop")
  /\ UNCHANGED <<plan, expires, wake, clipped, index, step, err, releasing,
                 cancelled, device, now, journal, finish>>

-----------------------------------------------------------------------------
(* Executor.executeUntil: check, record, act, check again.                 *)

Elapsed(r) == now - start[r]
Expired(r) == now >= expires[r]
Late(r) == Elapsed(r) >= MaxDuration[plan[r]]
AfterLast(r) == index[r] > Len(Actions(r))

OverdueUnlessExpired(r) == IF Late(r) THEN "deadline" ELSE "nil"
Overdue(r) ==
  IF Expired(r) THEN "expired" ELSE IF Late(r) THEN "deadline" ELSE "nil"

LoopChecks(r) ==
  /\ stage[r] = "loop"
  /\ LET e == IF cancelled[r] THEN "cancelled" ELSE Overdue(r) IN
     IF AfterLast(r) \/ e # "nil"
     THEN Cleanup(r, IF AfterLast(r) THEN "nil" ELSE e, held[Device(r)])
     ELSE /\ To(r, "record")
          /\ UNCHANGED <<err, releasing, held>>
  /\ UNCHANGED <<local, index, step, cancelled, lock, down, presser, failed,
                 now, journal, finish>>

JournalActionIfPossible(r) ==
  /\ stage[r] = "record"
  /\ AppendRecord(r, Rec("action", index[r])) \/ UNCHANGED journal
  /\ To(r, "act")
  /\ UNCHANGED <<local, index, step, err, releasing, cancelled, lock, device,
                 now, finish>>
JournalAction(r) ==
  /\ stage[r] = "record"
  /\ \/ /\ AppendRecord(r, Rec("action", index[r]))
        /\ To(r, "act")
        /\ UNCHANGED <<err, releasing, held>>
     \/ /\ Cleanup(r, "journal", held[Device(r)])
        /\ UNCHANGED journal
  /\ UNCHANGED <<local, index, step, cancelled, lock, down, presser, failed,
                 now, finish>>

(* The next call of the action, or the end of the action. *)
Advance(r) ==
  IF step[r] = Len(Calls(r))
  THEN To(r, "check") /\ UNCHANGED step
  ELSE step' = [step EXCEPT ![r] = @ + 1] /\ To(r, "act")

(* A call to the HID API reaches the target or not, and is answered or     *)
(* not: an error says nothing about delivery.                              *)
Deliver(r, c) ==
  IF c.op = "down"
  THEN /\ down' = down \cup {c.key}
       /\ presser' = [presser EXCEPT ![c.key] = <<r, index[r]>>]
  ELSE /\ down' = down \ {c.key}
       /\ UNCHANGED presser
LastCall(r, k, kinds) ==
  failed' = [failed EXCEPT ![r] =
    {f \in @ : f.key # k} \cup {[key |-> k, call |-> kind] : kind \in kinds}]
Answered(r, k) == LastCall(r, k, {})
Errs(r, k, kind) == LastCall(r, k, {kind})
Reaches(r, c) == Deliver(r, c) \/ UNCHANGED <<down, presser>>

(* What KVMDDevice remembers after a call. *)
HeldAfterForgettingFailures(r, c, ok) ==
  LET h == held[Device(r)] IN
  IF ~c.tracked THEN h
  ELSE CASE c.op = "down" -> IF ok THEN h \cup {c.key} ELSE h
         [] c.op \in {"up", "forget"} -> h \ {c.key}
HeldAfter(r, c, ok) ==
  LET h == held[Device(r)] IN
  IF ~c.tracked THEN h
  ELSE CASE c.op = "down" -> IF ok THEN h \cup {c.key} ELSE h
         [] c.op = "up" -> IF ok THEN h \ {c.key} ELSE h
         [] c.op = "forget" -> h \ {c.key}

KeyCall(r) ==
  LET c == Current(r) IN
  /\ stage[r] = "act"
  /\ c.op \in {"down", "up", "forget"}
  /\ \/ /\ ~cancelled[r]
        /\ Deliver(r, c)
        /\ Answered(r, c.key)
        /\ held' = [held EXCEPT ![Device(r)] = HeldAfter(r, c, TRUE)]
        /\ Advance(r)
        /\ UNCHANGED <<err, releasing>>
     \/ /\ Reaches(r, c)
        /\ Errs(r, c.key, c.op)
        /\ Cleanup(r, "device", HeldAfter(r, c, FALSE))
        /\ UNCHANGED step
  /\ UNCHANGED <<local, index, cancelled, lock, now, journal, finish>>

(* Calls that leave no key down: a shortcut, which the KVM presses and     *)
(* releases itself, a mouse movement.  Percentages and screen assertions   *)
(* are never available on a KVMDDevice.                                    *)
PlainCall(r) ==
  LET c == Current(r) IN
  /\ stage[r] = "act"
  /\ c.op \in {"call", "unavailable"}
  /\ \/ /\ c.op = "call" /\ ~cancelled[r]
        /\ Advance(r)
        /\ UNCHANGED <<err, releasing, held>>
     \/ /\ Cleanup(r, "device", held[Device(r)])
        /\ UNCHANGED step
  /\ UNCHANGED <<local, index, cancelled, lock, down, presser, failed, now,
                 journal, finish>>

(* The release_all action.  Nothing is held between two actions            *)
(* (NothingHeldBetweenActions), so its ReleaseAll has no call to make.     *)
Sweep(r) ==
  /\ stage[r] = "act"
  /\ Current(r).op = "sweep"
  /\ held' = [held EXCEPT ![Device(r)] = {}]
  /\ down' = down \ held[Device(r)]
  /\ Advance(r)
  /\ UNCHANGED <<local, index, err, releasing, cancelled, lock, presser,
                 failed, now, journal, finish>>

(* HoldKey sleeps for as long as it was asked to.  A wait is clipped to    *)
(* the whole milliseconds left of the plan and of the authorization, so    *)
(* that it may end, cut short, a little before either limit.               *)
Least(a, b) == IF a < b THEN a ELSE b
Remaining(r) == Least(MaxDuration[plan[r]] - Elapsed(r), expires[r] - now)
Whole(d) == (d \div Millisecond) * Millisecond

Clips(r, c) == c.op = "wait" /\ c.for * Millisecond > Remaining(r)
Granted(r, c) ==
  IF Clips(r, c) THEN Whole(Remaining(r)) ELSE c.for * Millisecond

FallAsleep(r) ==
  LET c == Current(r) IN
  /\ stage[r] = "act"
  /\ c.op \in {"sleep", "wait"}
  /\ IF Granted(r, c) <= 0
     THEN /\ Cleanup(r, "deadline", held[Device(r)])
          /\ UNCHANGED <<wake, clipped>>
     ELSE /\ wake' = [wake EXCEPT ![r] = now + Granted(r, c)]
          /\ clipped' = [clipped EXCEPT ![r] = @ \/ Clips(r, c)]
          /\ To(r, "sleep")
          /\ UNCHANGED <<err, releasing, held>>
  /\ UNCHANGED <<plan, expires, start, index, step, cancelled, lock, down,
                 presser, failed, now, journal, finish>>

WakeUp(r) ==
  /\ stage[r] = "sleep"
  /\ \/ /\ now >= wake[r]
        /\ Advance(r)
        /\ UNCHANGED <<err, releasing, held>>
     \/ /\ cancelled[r]
        /\ Cleanup(r, "cancelled", held[Device(r)])
        /\ UNCHANGED step
  /\ UNCHANGED <<local, index, cancelled, lock, down, presser, failed, now,
                 journal, finish>>

CheckAfter(r) ==
  /\ stage[r] = "check"
  /\ finish' = [finish EXCEPT ![r] = now]
  /\ IF Overdue(r) # "nil"
     THEN /\ Cleanup(r, Overdue(r), held[Device(r)])
          /\ UNCHANGED <<index, step>>
     ELSE /\ index' = [index EXCEPT ![r] = @ + 1]
          /\ step' = [step EXCEPT ![r] = 1]
          /\ To(r, "loop")
          /\ UNCHANGED <<err, releasing, held>>
  /\ UNCHANGED <<local, cancelled, lock, down, presser, failed, now, journal>>

-----------------------------------------------------------------------------
(* The deferred calls, last first: ReleaseAll with a fresh context, whose  *)
(* error is dropped, then Unlock; and the closing record, whose error is   *)
(* returned if there is no other.                                          *)

ReleaseKey(r) ==
  /\ stage[r] = "release"
  /\ \E k \in releasing[r] :
       /\ releasing' = [releasing EXCEPT ![r] = @ \ {k}]
       /\ \/ Deliver(r, Up(k)) /\ Answered(r, k)
          \/ Reaches(r, Up(k)) /\ Errs(r, k, "release")
  /\ UNCHANGED <<stage, local, index, step, err, cancelled, lock, held, now,
                 journal, finish>>

UnlockExecutorOnSuccess(r) ==
  /\ stage[r] = "release"
  /\ releasing[r] = {}
  /\ lock' = IF err[r] = "nil" THEN [lock EXCEPT ![ExecutorOf[r]] = NoRun] ELSE lock
  /\ To(r, "end")
  /\ UNCHANGED <<local, index, step, err, releasing, cancelled, device, now,
                 journal, finish>>
UnlockExecutor(r) ==
  /\ stage[r] = "release"
  /\ releasing[r] = {}
  /\ lock' = [lock EXCEPT ![ExecutorOf[r]] = NoRun]
  /\ To(r, "end")
  /\ UNCHANGED <<local, index, step, err, releasing, cancelled, device, now,
                 journal, finish>>

JournalEnd(r) ==
  /\ stage[r] = "end"
  /\ To(r, "done")
  /\ \/ AppendRecord(r, Rec("sequence_end", 0)) /\ UNCHANGED err
     \/ /\ err' = [err EXCEPT ![r] = IF @ = "nil" THEN "journal" ELSE @]
        /\ UNCHANGED journal
  /\ UNCHANGED <<local, index, step, releasing, cancelled, lock, device, now, finish>>

-----------------------------------------------------------------------------
(* The environment: cancellation, the death of a process, the clock.       *)

Cancel(r) ==
  /\ stage[r] \notin {"idle", "done", "dead"}
  /\ ~cancelled[r]
  /\ cancelled' = [cancelled EXCEPT ![r] = TRUE]
  /\ UNCHANGED <<stage, local, index, step, err, releasing, lock, device, now,
                 journal, finish>>

Crash(x) ==
  LET lost == {r \in Run : ExecutorOf[r] = x /\ stage[r] \notin {"idle", "done", "dead"}} IN
  /\ lost # {}
  /\ stage' = [r \in Run |-> IF r \in lost THEN "dead" ELSE stage[r]]
  /\ releasing' = [r \in Run |-> IF r \in lost THEN {} ELSE releasing[r]]
  /\ lock' = [lock EXCEPT ![x] = NoRun]
  /\ held' = [held EXCEPT ![x] = {}]
  /\ UNCHANGED <<local, index, step, err, cancelled, down, presser, failed,
                 now, journal, finish>>

Tick ==
  /\ now < MaxTime \/ \E r \in Run : stage[r] = "sleep" /\ now < wake[r]
  /\ now' = now + 1
  /\ UNCHANGED <<stage, local, index, step, err, releasing, cancelled, lock,
                 device, journal, finish>>

Advances(r) ==
  \/ JournalStart(r)
  \/ LockExecutor(r)
  \/ LoopChecks(r)
  \/ JournalAction(r)
  \/ KeyCall(r)
  \/ PlainCall(r)
  \/ Sweep(r)
  \/ FallAsleep(r)
  \/ WakeUp(r)
  \/ CheckAfter(r)
  \/ ReleaseKey(r)
  \/ UnlockExecutor(r)
  \/ JournalEnd(r)

Next ==
  \/ \E r \in Run :
       \/ \E p \in PlansOf[r], x \in Expiries : Begin(r, p, x)
       \/ Advances(r)
       \/ Cancel(r)
  \/ \E x \in Executor : Crash(x)
  \/ Tick

Spec == Init /\ [][Next]_vars

(* Every HID call has a transport timeout, so every run keeps moving; the  *)
(* executor's mutex is handed to its waiters in turn; time passes.         *)
Fairness == (\A r \in Run : SF_vars(Advances(r))) /\ WF_vars(Tick)

FairSpec == Spec /\ Fairness

-----------------------------------------------------------------------------
(* Properties. *)

(* A key can be down only because of an action whose record is already in  *)
(* the journal: when the process dies the journal accounts for everything  *)
(* that may have reached the target.  (Journal.Append does not sync, so    *)
(* this says nothing of a power cut.)                                      *)
JournalPrecedesDevice ==
  \A k \in down : LET r == presser[k][1] IN
    \E n \in 1 .. Len(journal[r]) : journal[r][n] = Rec("action", presser[k][2])

(* When a run has returned, whatever its error, a key it pressed is still  *)
(* down only if the press, HoldKey's release or the cleanup's release of   *)
(* it was the last call and returned an error, or if it is a Shift or a    *)
(* mouse button, which KVMDDevice does not track.  A failed release inside *)
(* Key is no excuse: the cleanup releases that key again.  Between two     *)
(* actions nothing is held: release_all as an action of a plan never has   *)
(* anything to do, the deferred ReleaseAll has.                            *)
Untracked == {Shift} \cup
  {k \in Key : \E p \in Plan : \E n \in 1 .. Len(PlanActions[p]) :
     PlanActions[p][n].type = "mouse_click" /\ PlanActions[p][n].key = k}
NothingHeldBetweenActions ==
  \A r \in Run : stage[r] \in {"loop", "record", "check"} => held[Device(r)] = {}
CleanupReleases ==
  /\ NothingHeldBetweenActions
  /\ \A r \in Run : stage[r] \in {"end", "done"} =>
       \A k \in down : presser[k][1] = r =>
         \/ k \in Untracked
         \/ \E f \in failed[r] : f.key = k /\ f.call # "up"

(* Runs of one Executor do not overlap on the target: none of them makes a *)
(* call while a key of an earlier one is waiting for its release.          *)
RunsDoNotOverlap ==
  \A r1, r2 \in Run :
    /\ r1 # r2 /\ ExecutorOf[r1] = ExecutorOf[r2]
    /\ stage[r1] \in Acting
    => stage[r2] \notin Acting /\ releasing[r2] = {}

(* A run that reports success came to every action, has the whole record  *)
(* of it in its journal, and was inside both limits at its last check.     *)
(* Success does not say that its waits were as long as the plan has them:  *)
(* but a run whose wait was cut short ended in the last millisecond before *)
(* a limit.                                                                *)
Limit(r) == Least(start[r] + MaxDuration[plan[r]], expires[r])
SuccessIsComplete ==
  \A r \in Run : stage[r] = "done" /\ err[r] = "nil" =>
    /\ journal[r] = <<Rec("sequence_start", 0)>>
         \o [n \in 1 .. Len(Actions(r)) |-> Rec("action", n)]
         \o <<Rec("sequence_end", 0)>>
    /\ finish[r] < Limit(r)
    /\ clipped[r] => finish[r] > Limit(r) - Millisecond

(* Every run that is not cut short by a crash returns.                     *)
EveryRunEnds == \A r \in Run : stage[r] = "start" ~> stage[r] \in {"done", "dead"}
=============================================================================
