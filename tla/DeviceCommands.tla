--------------------------- MODULE DeviceCommands ---------------------------
(***************************************************************************)
(* The other commands that act on the device TargetSelect's commands turn: *)
(* the keyboard and mouse commands, the operations of the semantic         *)
(* dispatcher, and the OCR loop (observe, act, verify).  Each of them is a *)
(* program: the calls it makes, one after another, until one of them fails *)
(* or nothing is left.  None of them looks for the lock file.              *)
(*                                                                         *)
(* A screen is a picture; its observation ID derives from the image, so    *)
(* the picture stands for its ID too.  The machine on every port has its   *)
(* picture and its pointer, and the KVM shows and moves those of the port  *)
(* the switch is on.  Each process has a store of the observations it made *)
(* in the last 60s; one that is evicted by 64 others counts as expired.    *)
(***************************************************************************)
EXTENDS TargetSelect

CONSTANTS
  Picture,    \* what a machine's screen may show
  Readable,   \* the pictures on which OCR finds the wanted text, once
  Blank,      \* the picture every machine starts with
  Letter,     \* a key that types a letter
  Shift,
  Left        \* the left mouse button

ASSUME PicturesAssumption ==
  /\ Readable \subseteq Picture /\ Blank \in Picture
  /\ {Letter, Shift, Left} \subseteq OtherKey
  /\ Left \in Button /\ Letter \notin Button /\ Shift \notin Button

VARIABLES
  step,       \* the call of its program each command is at
  picture,    \* the picture of each port's machine
  pointer,    \* what the pointer of each port's machine is on: the text of
              \* a picture, or "elsewhere"
  store,      \* the observations each process made and still has
  returned,   \* the observations some command has returned to its caller
  asked,      \* the observation_id each action was given
  seen,       \* the last picture each command captured
  disturbed   \* history: the actions that found their screen unchanged, and
              \* had it, the port or the pointer changed by others since

screens == <<picture, pointer>>
loop == <<store, returned, asked, seen>>
own == <<step, screens, loop>>
allVars == <<vars, own, disturbed>>

NoPicture == "none"

-----------------------------------------------------------------------------
(* The programs, under the names of the commands and operations. *)

Tap(k) == << <<"press", k>>, <<"release", k>> >>

(* captureObservation: a fresh snapshot, its OCR, and the store.           *)
Observe == << <<"capture">> >>
VerifyText == Observe
OCRScreenshot == Observe

(* requiredFreshObservation: the ID must be in the store, and the screen   *)
(* still give the same one.                                                *)
Check == << <<"recall">>, <<"recheck">> >>
ClickText == Check \o << <<"find">>, <<"move", "text">> >> \o Tap(Left) \o Observe
PressKeyOp == Check \o Tap(Letter) \o Observe

MouseMove == << <<"move", "elsewhere">> >>
MouseClick == Tap(Left)
MouseButton == << <<"press", Left>> >>
KeyboardKey == Tap(Enter)
KeyboardHold == Tap(Letter)
KeyboardText == << <<"press", Shift>> >> \o Tap(Letter) \o << <<"release", Shift>> >>
KeyboardChord == << <<"chord">> >>
ReleaseAll == << <<"release", Control>>, <<"release", Enter>> >>

(* A call that changes nothing here: a read, a turn of the wheel. *)
OtherCall == << <<"call">> >>
Status == OtherCall
Capabilities == OtherCall
Screenshot == OtherCall
ScreenshotToFile == OtherCall
MouseScroll == OtherCall

(* Operations that make no call: their runner is not configured, or they   *)
(* only check and answer.  kvm_mouse_move_pct says it moved the pointer.   *)
HostOps == {"verify", "host_probe", "host_reboot"}
TypingOps == {"kvm_send_text", "kvm_send_keys", "kvm_hold_key", "kvm_release_all"}
OtherOps == {"kvm_ocr_click", "exec_command"}
SequenceOps == {"kvm_sequence_plan", "kvm_sequence_authorize", "kvm_sequence_execute"}
WorkflowOps == {"kvm_workflow_list", "kvm_workflow_inspect", "kvm_workflow_authorize",
                "kvm_workflow_execute"}
Unconfigured ==
  {"hid_reset", "kvm_mouse_move_pct"}
    \cup HostOps \cup TypingOps \cup OtherOps \cup SequenceOps \cup WorkflowOps

Reads == {"snapshot", "ocr", "kvm_status", "mouse_wheel"}

(* act_ is the command, a process of its own; mcp_ is a session of the MCP *)
(* server that observes and then acts.                                     *)
Named ==
  [observe |-> Observe, verify_text |-> VerifyText, kvm_ocr_screenshot |-> OCRScreenshot,
   act_click |-> ClickText, mcp_click |-> Observe \o ClickText,
   act_press |-> PressKeyOp, mcp_press |-> Observe \o PressKeyOp,
   status |-> Status, capabilities |-> Capabilities, screenshot |-> Screenshot,
   kvm_screenshot_to_file |-> ScreenshotToFile, kvm_mouse_scroll |-> MouseScroll,
   kvm_mouse_move |-> MouseMove, mouse_move |-> MouseMove,
   kvm_mouse_click |-> MouseClick, mouse_button |-> MouseButton,
   keyboard_key |-> KeyboardKey, keyboard_hold |-> KeyboardHold,
   keyboard_text |-> KeyboardText, keyboard_chord |-> KeyboardChord,
   keyboard_release_all |-> ReleaseAll]

Program ==
  [k \in Unconfigured \cup Reads \cup DOMAIN Named |->
     IF k \in Unconfigured THEN <<>> ELSE IF k \in Reads THEN OtherCall ELSE Named[k]]

ASSUME ProgramsAssumption ==
  \A f \in Kinds : \A c \in Cmd : f[c] \in HotkeyKind \cup DOMAIN Program

Calls(c) == Program[kind[c]]
At(c, call) == pc[c] = "perform" /\ Calls(c)[step[c]][1] = call
Operand(c) == Calls(c)[step[c]][2]

Shown == picture[port]

-----------------------------------------------------------------------------

OwnTypeOK ==
  /\ step \in [Cmd -> 1 .. 9]
  /\ picture \in [Port -> Picture]
  /\ pointer \in [Port -> Picture \cup {"elsewhere"}]
  /\ store \in [Cmd -> SUBSET Picture]
  /\ returned \in SUBSET Picture
  /\ asked \in [Cmd -> Picture \cup {NoPicture}]
  /\ seen \in [Cmd -> Picture \cup {NoPicture}]
  /\ disturbed \in SUBSET Cmd
  /\ \A c \in Cmd : pc[c] = "perform" => step[c] \in DOMAIN Calls(c)

OwnInit ==
  /\ step = [c \in Cmd |-> 1]
  /\ picture = [p \in Port |-> Blank]
  /\ pointer = [p \in Port |-> "elsewhere"]
  /\ store = [c \in Cmd |-> {}]
  /\ returned = {}
  /\ asked = [c \in Cmd |-> NoPicture]
  /\ seen = [c \in Cmd |-> NoPicture]
  /\ disturbed = {}

(* After a call: the next one, or the end. *)
Advance(c) ==
  IF step[c] < Len(Calls(c))
  THEN step' = [step EXCEPT ![c] = @ + 1] /\ UNCHANGED pc
  ELSE To(c, "returned") /\ UNCHANGED step
Abort(c) == To(c, "returned") /\ UNCHANGED step

rest == <<kind, tap, stopped, rec, lockFile, saved, storage, clean>>

(* An action is given an observation that some command has returned.       *)
Start(c) ==
  /\ pc[c] = "idle"
  /\ kind[c] \notin HotkeyKind
  /\ kind[c] \in {"act_click", "act_press"} => returned # {}
  /\ To(c, IF Calls(c) = <<>> THEN "returned" ELSE "perform")
  /\ UNCHANGED <<rest, keyboard, failed, own>>

(* Calls that move the device.  One that fails may have reached it. *)
Press(c) ==
  /\ At(c, "press")
  /\ \/ ~stopped[c] /\ PressReaches(c, Operand(c)) /\ Answered(c, Operand(c)) /\ Advance(c)
     \/ /\ PressReaches(c, Operand(c)) \/ UNCHANGED keyboard
        /\ Errs(c, Operand(c))
        /\ Abort(c)
  /\ UNCHANGED <<rest, screens, loop>>

Release(c) ==
  /\ At(c, "release")
  /\ \/ ~stopped[c] /\ ReleaseReaches(Operand(c)) /\ Answered(c, Operand(c)) /\ Advance(c)
     \/ /\ ReleaseReaches(Operand(c)) \/ UNCHANGED keyboard
        /\ Errs(c, Operand(c))
        /\ Abort(c)
  /\ UNCHANGED <<rest, screens, loop>>

(* send_shortcut: the KVM itself presses and releases the keys. *)
ChordReaches ==
  /\ recent' = LastThree(recent \o <<Shift, Letter>>)
  /\ UNCHANGED <<down, port, presser>>
Chord(c) ==
  /\ At(c, "chord")
  /\ \/ ~stopped[c] /\ ChordReaches /\ Advance(c)
     \/ (ChordReaches \/ UNCHANGED keyboard) /\ Abort(c)
  /\ UNCHANGED <<rest, failed, screens, loop>>

MoveReaches(c) ==
  pointer' = [pointer EXCEPT ![port] = IF Operand(c) = "text" THEN seen[c] ELSE "elsewhere"]
Move(c) ==
  /\ At(c, "move")
  /\ \/ ~stopped[c] /\ MoveReaches(c) /\ Advance(c)
     \/ (MoveReaches(c) \/ UNCHANGED pointer) /\ Abort(c)
  /\ UNCHANGED <<rest, keyboard, failed, picture, loop>>

Call(c) ==
  /\ At(c, "call")
  /\ Advance(c) \/ Abort(c)
  /\ UNCHANGED <<rest, keyboard, failed, screens, loop>>

-----------------------------------------------------------------------------
(* The OCR loop. *)

(* KVMDSnapshot goes around the response cache, up to nine times, and the  *)
(* picture is that of its last request.                                    *)
CachedSnapshot(c) == UNION {store[d] : d \in Cmd} \cup {Shown}
Snapshot(c) == {Shown}

Taken(c, p) ==
  /\ seen' = [seen EXCEPT ![c] = p]
  /\ store' = [store EXCEPT ![c] = @ \cup {p}]

Capture(c) ==
  /\ At(c, "capture")
  /\ \/ /\ ~stopped[c]
        /\ \E p \in Snapshot(c) : Taken(c, p) /\ returned' = returned \cup {p}
        /\ Advance(c)
     \/ Abort(c) /\ UNCHANGED <<seen, store, returned>>
  /\ UNCHANGED <<rest, keyboard, failed, screens, asked>>

(* The caller names an observation that observe, or a verification, or the *)
(* action before this one, returned to it.                                 *)
Recall(c) ==
  /\ At(c, "recall")
  /\ \E id \in returned :
       /\ asked' = [asked EXCEPT ![c] = id]
       /\ IF id \in store[c] THEN Advance(c) ELSE Abort(c)
  /\ UNCHANGED <<rest, keyboard, failed, screens, store, returned, seen>>

Recheck(c) ==
  /\ At(c, "recheck")
  /\ \/ /\ ~stopped[c]
        /\ \E p \in Snapshot(c) :
             Taken(c, p) /\ IF p = asked[c] THEN Advance(c) ELSE Abort(c)
     \/ Abort(c) /\ UNCHANGED <<seen, store>>
  /\ UNCHANGED <<rest, keyboard, failed, screens, returned, asked>>

Find(c) ==
  /\ At(c, "find")
  /\ IF seen[c] \in Readable THEN Advance(c) ELSE Abort(c)
  /\ UNCHANGED <<rest, keyboard, failed, screens, loop>>

(* Sixty seconds after its capture an observation is gone. *)
Expire(c) ==
  /\ pc[c] = "perform"
  /\ \E id \in store[c] : store' = [store EXCEPT ![c] = @ \ {id}]
  /\ UNCHANGED <<pc, rest, keyboard, failed, step, screens, returned, asked, seen>>

(* A machine draws another picture; one nobody observes is left alone.    *)
InLoop(c) == pc[c] = "perform" /\ \E n \in DOMAIN Calls(c) : Calls(c)[n][1] = "capture"
Redraw(p) ==
  /\ \E c \in Cmd : InLoop(c)
  /\ picture' \in {[picture EXCEPT ![p] = i] : i \in Picture \ {picture[p]}}
  /\ UNCHANGED <<pc, rest, keyboard, failed, step, pointer, loop>>

-----------------------------------------------------------------------------

Perform(c) ==
  \/ Press(c)
  \/ Release(c)
  \/ Chord(c)
  \/ Move(c)
  \/ Call(c)
  \/ Capture(c)
  \/ Recall(c)
  \/ Recheck(c)
  \/ Find(c)

(* An action is licensed from its recheck to the press it makes.           *)
Licensed(c) ==
  /\ pc[c] = "perform"
  /\ \E n \in 1 .. step[c] - 1 : Calls(c)[n][1] = "recheck"
  /\ \E n \in step[c] .. Len(Calls(c)) : Calls(c)[n][1] = "press"
Scene == <<port, Shown, pointer[port]>>
Watch ==
  disturbed' = {c \in Cmd :
    /\ Licensed(c) /\ Licensed(c)'
    /\ c \in disturbed \/ (Scene' # Scene /\ step'[c] = step[c])}

HotkeyStep == Next /\ UNCHANGED own
OwnStep ==
  \/ \E c \in Cmd : Start(c) \/ Perform(c) \/ Expire(c)
  \/ \E p \in Port : Redraw(p)

AllNext == (HotkeyStep \/ OwnStep) /\ Watch
AllInit == Init /\ OwnInit

(* A snapshot, whose body StreamingHTTPClient lets take any time, for ever *)
(* too, unless --timeout was given.                                        *)
Streams(c) == At(c, "capture") \/ At(c, "recheck")

(* Other calls end, and the agent that runs a loop asks for its next       *)
(* action, for which it has an observation.                                *)
AllFairness ==
  \A c \in Cmd : /\ WF_allVars(((Step(c) /\ UNCHANGED own) \/ (Perform(c) /\ ~Streams(c))) /\ Watch)
                 /\ WF_allVars(kind[c] = "select" /\ Stop(c) /\ UNCHANGED own /\ Watch)

AllSpec == AllInit /\ [][AllNext]_allVars
AllFairSpec == AllSpec /\ AllFairness

-----------------------------------------------------------------------------
(* Properties. *)

TypesOK == TypeOK /\ OwnTypeOK

(* A command that returned left a key or a button down only if its last    *)
(* call about it returned an error: for a select's release, the retry.     *)
(* Two commands are different: mouse button is told to set the state, and  *)
(* keyboard text returns from a letter that failed without lifting Shift.  *)
KeysReleased ==
  \A c \in Cmd : pc[c] = "returned" =>
    \A k \in down : presser[k] = c =>
      \/ k \in failed[c]
      \/ kind[c] = "mouse_button"
      \/ kind[c] = "keyboard_text" /\ k = Shift /\ Letter \in failed[c]

(* What a command took of the device it gives back: the keys, the button   *)
(* and the lock file, on every path through its calls.                     *)
GivenBack == KeysReleased /\ LockFreed

(* "the semantic core captures the screen again and refuses a stale [...]  *)
(* observation": what a click or a key of the OCR loop is about to act on  *)
(* is the screen whose observation it was given, with the pointer on the   *)
(* text of that screen, unless the switch was turned, the machine drew     *)
(* something else or another command moved the pointer after the recheck.  *)
ActsOnWhatWasAsked ==
  \A c \in Cmd : At(c, "press") /\ Licensed(c) /\ c \notin disturbed =>
    /\ Shown = asked[c]
    /\ Operand(c) = Left => pointer[port] = asked[c]


(* "observe returns the OCR observation ID. Both actions require that      *)
(* exact --observation value": an action whose observation is less than    *)
(* 60s old is not turned away as unknown.  False of the commands, each of  *)
(* which is a process of its own with a store of its own.                  *)
FreshIsKnown ==
  [][\A c, d \in Cmd : At(c, "recall") /\ asked'[c] # asked[c] /\ asked'[c] \in store[d]
       => pc'[c] # "returned"]_allVars
=============================================================================
