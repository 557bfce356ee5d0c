---------------------------- MODULE TargetSelect ----------------------------
(***************************************************************************)
(* The commands that turn the KVM switch to another machine by typing its  *)
(* hotkey (Control, Control, digit, Enter) through the KVM's HID API:      *)
(*                                                                         *)
(*   "select"    machines select: Selector.Select under the lock file of   *)
(*               the device, then the save of targets.json                 *)
(*   "switch"    target-switch: the tap events of switcher.Plan            *)
(*   "semantic"  the select operation of the semantic dispatcher: re-arm   *)
(*               OTG, nudge the streamer, switcher.Execute with held keys  *)
(*   "rearm"     the rearm_otg operation: the re-arm alone                 *)
(*                                                                         *)
(* Commands of any other kind share the device with these, see the module  *)
(* DeviceCommands.  A command is a process that runs once.  Every HTTP     *)
(* call is a step: it is delivered and answered, not delivered, or         *)
(* delivered with its answer lost.  A context may end (30s in Select) and  *)
(* a process die anywhere.                                                 *)
(* Left out: Selector.Rearm and the held-key options, which no caller in   *)
(* src/ sets.                                                              *)
(***************************************************************************)
EXTENDS Integers, Sequences, FiniteSets

CONSTANTS
  Cmd,       \* commands, each a process
  Kinds,     \* who may run what: functions from Cmd to kinds
  Port,      \* the switch's ports, and the digit keys that name them
  PortOf,    \* the port of the machine a command was given
  Control,
  Enter,
  OtherKey,  \* keys and buttons that only commands of other modules press
  Button,    \* the buttons among them: the switch does not see those
  NoCmd,
  NoPort

ASSUME CommandsAssumption ==
  /\ \A f \in Kinds : DOMAIN f = Cmd
  /\ PortOf \in [Cmd -> Port]
  /\ NoCmd \notin Cmd
ASSUME KeysAssumption ==
  /\ Control # Enter
  /\ Control \notin Port /\ Enter \notin Port /\ NoPort \notin Port
  /\ Button \subseteq OtherKey
  /\ OtherKey \cap (Port \cup {Control, Enter}) = {}
  /\ {"enable", "disable", "unlock"} \cap (Port \cup OtherKey \cup {Control, Enter}) = {}

HotkeyKind == {"select", "switch", "semantic", "rearm"}
Key == Port \cup {Control, Enter} \cup OtherKey
Hotkey(c) == <<Control, Control, PortOf[c], Enter>>

VARIABLES
  kind,      \* what each command is
  pc,        \* where each command is
  tap,       \* the key of the hotkey it is at
  stopped,   \* its context has ended
  rec,       \* the SelectionState of a select
  lockFile,  \* the device's lock file: who created it, or NoCmd
  saved,     \* what targets.json names
  storage,   \* the KVM's virtual storage is enabled
  down,      \* the keys that are down on the KVM's keyboard
  recent,    \* the last three keys the switch saw go down
  port,      \* the port the switch is on
  presser,   \* history: who last pressed each key
  clean,     \* history: no key was down when a select got the lock
  failed     \* history: what a command could not do: the keys whose last call
             \* returned an error, "enable", "disable" and "unlock"

keyboard == <<down, recent, port, presser>>
vars == <<kind, pc, tap, stopped, rec, lockFile, saved, storage, keyboard, clean, failed>>

Label == {"idle", "acquire", "enable", "onWait", "disable", "disableAgain",
          "offWait", "nudge", "down", "hold", "up", "upAgain", "abandon", "gap",
          "settle", "verify", "unlock", "save", "perform", "returned", "dead"}

TypeOK ==
  /\ kind \in Kinds
  /\ pc \in [Cmd -> Label]
  /\ tap \in [Cmd -> 1 .. 4]
  /\ stopped \in [Cmd -> BOOLEAN]
  /\ rec \in [Cmd -> {"unknown", "selected_unverified", "verified", "verify_failed"}]
  /\ lockFile \in Cmd \cup {NoCmd}
  /\ saved \in Port \cup {NoPort}
  /\ storage \in BOOLEAN
  /\ down \in SUBSET Key
  /\ recent \in Seq(Key) /\ Len(recent) <= 3
  /\ port \in Port
  /\ presser \in [Key -> Cmd \cup {NoCmd}]
  /\ clean \in [Cmd -> BOOLEAN]
  /\ failed \in [Cmd -> SUBSET (Key \cup {"enable", "disable", "unlock"})]

Init ==
  /\ kind \in Kinds
  /\ pc = [c \in Cmd |-> "idle"]
  /\ tap = [c \in Cmd |-> 1]
  /\ stopped = [c \in Cmd |-> FALSE]
  /\ rec = [c \in Cmd |-> "unknown"]
  /\ lockFile = NoCmd
  /\ saved = NoPort
  /\ storage = FALSE
  /\ down = {}
  /\ recent = <<>>
  /\ port \in Port
  /\ presser = [k \in Key |-> NoCmd]
  /\ clean = [c \in Cmd |-> FALSE]
  /\ failed = [c \in Cmd |-> {}]

To(c, label) == pc' = [pc EXCEPT ![c] = label]

(* A command that has nothing more to type: Select's deferred Release is   *)
(* left, the others return.                                                *)
Finish(c) == To(c, IF kind[c] = "select" THEN "unlock" ELSE "returned")

-----------------------------------------------------------------------------
(* The KVM's keyboard and the switch that listens to it.  The switch sees  *)
(* a key go down only if it was up.                                        *)

LastThree(s) == IF Len(s) > 3 THEN SubSeq(s, Len(s) - 2, Len(s)) ELSE s

PressReaches(c, k) ==
  /\ down' = down \cup {k}
  /\ presser' = [presser EXCEPT ![k] = c]
  /\ IF k \in down \cup Button
     THEN UNCHANGED <<recent, port>>
     ELSE /\ recent' = LastThree(Append(recent, k))
          /\ port' = IF k = Enter /\ \E p \in Port : recent = <<Control, Control, p>>
                     THEN recent[3]
                     ELSE port

ReleaseReaches(k) ==
  /\ down' = down \ {k}
  /\ UNCHANGED <<recent, port, presser>>

Answered(c, what) == failed' = [failed EXCEPT ![c] = @ \ {what}]
Errs(c, what) == failed' = [failed EXCEPT ![c] = @ \cup {what}]

-----------------------------------------------------------------------------
(* The start of each command. *)

Begin(c) ==
  /\ pc[c] = "idle"
  /\ kind[c] \in HotkeyKind
  /\ To(c, CASE kind[c] = "select" -> "acquire"
             [] kind[c] = "switch" -> "down"
             [] kind[c] \in {"semantic", "rearm"} -> "enable")
  /\ UNCHANGED <<kind, tap, stopped, rec, lockFile, saved, storage, keyboard, clean, failed>>

(* fileLock.Acquire: create the file exclusively, or try again every 10ms  *)
(* until the context ends.                                                 *)
FileOpened(c) == TRUE
FileCreated(c) == lockFile = NoCmd

Acquire(c) ==
  /\ pc[c] = "acquire"
  /\ FileCreated(c)
  /\ lockFile' = c
  /\ rec' = [rec EXCEPT ![c] = "selected_unverified"]
  /\ clean' = [clean EXCEPT ![c] = down = {}]
  /\ To(c, "down")
  /\ UNCHANGED <<kind, tap, stopped, saved, storage, keyboard, failed>>

GiveUp(c) ==
  /\ pc[c] = "acquire"
  /\ stopped[c] /\ lockFile # NoCmd
  /\ To(c, "returned")
  /\ UNCHANGED <<kind, tap, stopped, rec, lockFile, saved, storage, keyboard, clean, failed>>

(* Client.KVMDRearmOTG: enable the virtual storage, wait, disable it.  The *)
(* calls after a cancelled wait or a failed disable have a context of      *)
(* their own, and their error is dropped.                                  *)
AfterRearm(c) == To(c, IF kind[c] = "rearm" THEN "returned" ELSE "nudge")

EnableStorage(c) ==
  /\ pc[c] = "enable"
  /\ \/ /\ ~stopped[c]
        /\ storage' = TRUE
        /\ To(c, "onWait")
        /\ UNCHANGED failed
     \/ /\ storage' \in {storage, TRUE}
        /\ Errs(c, "enable")
        /\ To(c, "returned")
  /\ UNCHANGED <<kind, tap, stopped, rec, lockFile, saved, keyboard, clean>>

OnWaitLeavingStorage(c) ==
  /\ pc[c] = "onWait"
  /\ \/ To(c, "disable")
     \/ stopped[c] /\ To(c, "returned")
  /\ UNCHANGED <<kind, tap, stopped, rec, lockFile, saved, storage, keyboard, clean, failed>>
OnWait(c) ==
  /\ pc[c] = "onWait"
  /\ \/ To(c, "disable")
     \/ stopped[c] /\ To(c, "disableAgain")
  /\ UNCHANGED <<kind, tap, stopped, rec, lockFile, saved, storage, keyboard, clean, failed>>

DisableStorage(c) ==
  /\ pc[c] \in {"disable", "disableAgain"}
  /\ \/ /\ pc[c] = "disable" => ~stopped[c]
        /\ storage' = FALSE
        /\ Answered(c, "disable")
        /\ To(c, IF pc[c] = "disable" THEN "offWait" ELSE "returned")
     \/ /\ storage' \in {storage, FALSE}
        /\ Errs(c, "disable")
        /\ To(c, IF pc[c] = "disable" THEN "disableAgain" ELSE "returned")
  /\ UNCHANGED <<kind, tap, stopped, rec, lockFile, saved, keyboard, clean>>

OffWait(c) ==
  /\ pc[c] = "offWait"
  /\ \/ AfterRearm(c)
     \/ stopped[c] /\ To(c, "returned")
  /\ UNCHANGED <<kind, tap, stopped, rec, lockFile, saved, storage, keyboard, clean, failed>>

NudgeStreamer(c) ==
  /\ pc[c] = "nudge"
  /\ \/ ~stopped[c] /\ To(c, "down")
     \/ To(c, "returned")
  /\ UNCHANGED <<kind, tap, stopped, rec, lockFile, saved, storage, keyboard, clean, failed>>

-----------------------------------------------------------------------------
(* Typing the hotkey: press, hold, release, gap, for each of its keys.     *)

Tapped(c) == Hotkey(c)[tap[c]]

(* A press that fails ends every command: nobody releases its key. *)
PressKey(c) ==
  LET k == Tapped(c) IN
  /\ pc[c] = "down"
  /\ \/ /\ ~stopped[c]
        /\ PressReaches(c, k)
        /\ Answered(c, k)
        /\ To(c, "hold")
     \/ /\ PressReaches(c, k) \/ UNCHANGED keyboard
        /\ Errs(c, k)
        /\ Finish(c)
  /\ UNCHANGED <<kind, tap, stopped, rec, lockFile, saved, storage, clean>>

(* target-switch sleeps through a cancellation; the others stop holding    *)
(* and release the key.                                                    *)
Sleeping(c) == kind[c] = "switch"

HoldKeyAndForget(c) ==
  /\ pc[c] = "hold"
  /\ \/ To(c, "up")
     \/ stopped[c] /\ ~Sleeping(c) /\ Finish(c)
  /\ UNCHANGED <<kind, tap, stopped, rec, lockFile, saved, storage, keyboard, clean, failed>>
HoldKey(c) ==
  /\ pc[c] = "hold"
  /\ \/ To(c, "up")
     \/ stopped[c] /\ ~Sleeping(c) /\ To(c, "abandon")
  /\ UNCHANGED <<kind, tap, stopped, rec, lockFile, saved, storage, keyboard, clean, failed>>

(* A release, or Select's one retry of it, or the release after a broken   *)
(* hold: the last two have a context of their own and drop their error.    *)
ReleaseKey(c) ==
  LET k == Tapped(c) IN
  /\ pc[c] \in {"up", "upAgain", "abandon"}
  /\ \/ /\ pc[c] = "up" => ~stopped[c]
        /\ ReleaseReaches(k)
        /\ Answered(c, k)
        /\ IF pc[c] = "up" THEN To(c, "gap") ELSE Finish(c)
     \/ /\ ReleaseReaches(k) \/ UNCHANGED keyboard
        /\ Errs(c, k)
        /\ IF pc[c] = "up" /\ kind[c] = "select" THEN To(c, "upAgain") ELSE Finish(c)
  /\ UNCHANGED <<kind, tap, stopped, rec, lockFile, saved, storage, clean>>

Gap(c) ==
  /\ pc[c] = "gap"
  /\ \/ /\ IF tap[c] < 4
           THEN tap' = [tap EXCEPT ![c] = @ + 1] /\ To(c, "down")
           ELSE UNCHANGED tap /\ To(c, "settle")
     \/ stopped[c] /\ ~Sleeping(c) /\ Finish(c) /\ UNCHANGED tap
  /\ UNCHANGED <<kind, stopped, rec, lockFile, saved, storage, keyboard, clean, failed>>

Settle(c) ==
  /\ pc[c] = "settle"
  /\ \/ To(c, IF kind[c] = "select" THEN "verify" ELSE "returned")
     \/ stopped[c] /\ ~Sleeping(c) /\ Finish(c)
  /\ UNCHANGED <<kind, tap, stopped, rec, lockFile, saved, storage, keyboard, clean, failed>>

-----------------------------------------------------------------------------
(* The end of a select: Verify asks for a snapshot and takes any that is   *)
(* not empty, fresh or from the response cache; Release removes the lock   *)
(* file; and only then targets.json is saved, if the selection succeeded.  *)

Verify(c) ==
  /\ pc[c] = "verify"
  /\ \E state \in {"verified", "verify_failed"} : rec' = [rec EXCEPT ![c] = state]
  /\ To(c, "unlock")
  /\ UNCHANGED <<kind, tap, stopped, lockFile, saved, storage, keyboard, clean, failed>>

AfterUnlock(c) == To(c, IF rec[c] = "verified" THEN "save" ELSE "returned")

UnlockIfVerified(c) ==
  /\ pc[c] = "unlock"
  /\ lockFile' = IF rec[c] = "verified" THEN NoCmd ELSE lockFile
  /\ AfterUnlock(c)
  /\ UNCHANGED <<kind, tap, stopped, rec, saved, storage, keyboard, clean, failed>>
Unlock(c) ==
  /\ pc[c] = "unlock"
  /\ \/ lockFile' = NoCmd /\ UNCHANGED failed
     \/ Errs(c, "unlock") /\ UNCHANGED lockFile
  /\ AfterUnlock(c)
  /\ UNCHANGED <<kind, tap, stopped, rec, saved, storage, keyboard, clean>>

Save(c) ==
  /\ pc[c] = "save"
  /\ saved' \in {PortOf[c], saved}
  /\ To(c, "returned")
  /\ UNCHANGED <<kind, tap, stopped, rec, lockFile, storage, keyboard, clean, failed>>

-----------------------------------------------------------------------------

Running(c) == pc[c] \notin {"idle", "returned", "dead"}

Stop(c) ==
  /\ Running(c)
  /\ ~stopped[c]
  /\ stopped' = [stopped EXCEPT ![c] = TRUE]
  /\ UNCHANGED <<kind, pc, tap, rec, lockFile, saved, storage, keyboard, clean, failed>>

(* The lock file of a process that dies stays. *)
Crash(c) ==
  /\ Running(c)
  /\ To(c, "dead")
  /\ UNCHANGED <<kind, tap, stopped, rec, lockFile, saved, storage, keyboard, clean, failed>>

Step(c) ==
  \/ Acquire(c)
  \/ GiveUp(c)
  \/ EnableStorage(c)
  \/ OnWait(c)
  \/ DisableStorage(c)
  \/ OffWait(c)
  \/ NudgeStreamer(c)
  \/ PressKey(c)
  \/ HoldKey(c)
  \/ ReleaseKey(c)
  \/ Gap(c)
  \/ Settle(c)
  \/ Verify(c)
  \/ Unlock(c)
  \/ Save(c)

Next == \E c \in Cmd : Begin(c) \/ Step(c) \/ Stop(c) \/ Crash(c)

Spec == Init /\ [][Next]_vars

(* Calls and sleeps end, and the 30s of a select run out. *)
Fairness ==
  \A c \in Cmd : /\ WF_vars(Step(c))
                 /\ WF_vars(kind[c] = "select" /\ Stop(c))

FairSpec == Spec /\ Fairness

-----------------------------------------------------------------------------
(* Properties. *)

Typing(c) == pc[c] \in {"down", "hold", "up", "upAgain", "abandon", "gap", "settle"}

(* "shared directory used to serialize physical device actions": two       *)
(* commands do not type on one device at the same time.  False of          *)
(* target-switch and the semantic select, which do not look for the lock   *)
(* file.                                                                   *)
OneTypist == \A c, d \in Cmd : Typing(c) /\ Typing(d) => c = d

(* True of selections, which share the lock file.                          *)
OneSelection ==
  \A c, d \in Cmd :
    Typing(c) /\ Typing(d) /\ kind[c] = "select" /\ kind[d] = "select" => c = d

(* A selection that reports "verified" has moved the switch to its port,   *)
(* although Verify looks at no identity: every call was answered, the      *)
(* lock kept other selections' keys out, and no key was down to begin      *)
(* with.  A key left down by an earlier command breaks it (clean), and so  *)
(* does a command that types without the lock.                             *)
Unlocked(c) == kind[c] \notin {"select", "rearm"} /\ pc[c] # "idle"
VerifiedIsOnTarget ==
  \A c \in Cmd : rec[c] = "verified" /\ pc[c] = "unlock" /\ clean[c] =>
    port = PortOf[c] \/ \E d \in Cmd : Unlocked(d)

(* A selection that returned does not keep the device locked, unless the   *)
(* removal of the lock file itself failed.                                 *)
LockFreed ==
  \A c \in Cmd : pc[c] = "returned" /\ lockFile = c => "unlock" \in failed[c]

(* "without leaving virtual storage enabled": when nobody is at it any     *)
(* more it is on only if a call of the re-arm failed; no cancellation      *)
(* leaves it on.  A lost answer to the enabling call is such a failure:    *)
(* the re-arm then returns without the call that disables it.              *)
StorageOnMeansError ==
  (\A c \in Cmd : pc[c] \in {"idle", "returned"}) /\ storage =>
    \E c \in Cmd : {"enable", "disable"} \cap failed[c] # {}
=============================================================================
