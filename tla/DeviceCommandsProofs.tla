------------------------- MODULE DeviceCommandsProofs --------------------------
(***************************************************************************)
(* What TargetSelect and DeviceCommands satisfy for every number of        *)
(* commands, of whatever kinds, ports, keys and pictures.                  *)
(***************************************************************************)
EXTENDS DeviceCommands, TLAPS, SequenceTheorems

-----------------------------------------------------------------------------
(* Types. *)

(* What the switch remembers of the keys it saw.                           *)
LEMMA LastThreeTypes ==
  ASSUME NEW S, NEW s \in Seq(S)
  PROVE  LastThree(s) \in Seq(S) /\ Len(LastThree(s)) <= 3
<1>1. CASE Len(s) > 3
  <2>1. Len(s) - 2 \in 1 .. Len(s) + 1 /\ Len(s) \in Len(s) - 2 - 1 .. Len(s)
    BY <1>1
  <2>2. SubSeq(s, Len(s) - 2, Len(s)) \in Seq(S) /\ Len(SubSeq(s, Len(s) - 2, Len(s))) = 3
    BY <1>1, <2>1, SubSeqProperties
  <2> QED
    BY <1>1, <2>2 DEF LastThree
<1>2. CASE ~ (Len(s) > 3)
  BY <1>2 DEF LastThree
<1> QED
  BY <1>1, <1>2

(* What a press leaves keeps its type.                                     *)
LEMMA PressTypes ==
  ASSUME TypeOK, NEW c \in Cmd, NEW k \in Key, PressReaches(c, k)
  PROVE  /\ down' \in SUBSET Key
         /\ recent' \in Seq(Key) /\ Len(recent') <= 3
         /\ port' \in Port
         /\ presser' \in [Key -> Cmd \cup {NoCmd}]
<1>1. Append(recent, k) \in Seq(Key)
  BY DEF TypeOK
<1>2. recent' \in Seq(Key) /\ Len(recent') <= 3
  BY <1>1, LastThreeTypes DEF TypeOK, PressReaches
<1>3. port' \in Port
  <2>1. ASSUME NEW p \in Port, recent = <<Control, Control, p>> PROVE recent[3] \in Port
    BY <2>1
  <2> QED
    BY <2>1 DEF PressReaches, TypeOK
<1> QED
  BY <1>2, <1>3 DEF PressReaches, TypeOK

(* So does what a release leaves.                                          *)
LEMMA ReleaseTypes ==
  ASSUME TypeOK, NEW k \in Key, ReleaseReaches(k)
  PROVE  down' \in SUBSET Key /\ UNCHANGED <<recent, port, presser>>
BY DEF TypeOK, ReleaseReaches

(* The keys of the hotkey.                                                 *)
LEMMA TappedIsKey == ASSUME TypeOK, NEW c \in Cmd PROVE Tapped(c) \in Key
<1>1. tap[c] \in 1 .. 4 /\ PortOf[c] \in Port
  BY CommandsAssumption DEF TypeOK
<1> QED
  BY <1>1 DEF Tapped, Hotkey, Key

Keyboard ==
  /\ down \in SUBSET Key
  /\ recent \in Seq(Key) /\ Len(recent) <= 3
  /\ port \in Port
  /\ presser \in [Key -> Cmd \cup {NoCmd}]

(* The keyboard's part of TargetSelect's types.                            *)
LEMMA KeyboardTypes == TypeOK => Keyboard
BY DEF TypeOK, Keyboard

(* What a call that errs, or is answered, makes of the failed calls.       *)
LEMMA ErrsTypes ==
  ASSUME TypeOK, NEW c \in Cmd, NEW what \in Key \cup {"enable", "disable", "unlock"},
         Errs(c, what) \/ Answered(c, what)
  PROVE  failed' \in [Cmd -> SUBSET (Key \cup {"enable", "disable", "unlock"})]
<1>1. failed \in [Cmd -> SUBSET (Key \cup {"enable", "disable", "unlock"})]
  BY DEF TypeOK
<1>2. CASE Errs(c, what)
  BY <1>1, <1>2 DEF Errs
<1>3. CASE Answered(c, what)
  BY <1>1, <1>3 DEF Answered
<1> QED
  BY <1>2, <1>3

(* Every step of TargetSelect keeps its types.                             *)
LEMMA HotkeyTypes == TypeOK /\ [Next]_vars => TypeOK'
<1> SUFFICES ASSUME TypeOK, [Next]_vars PROVE TypeOK'
  OBVIOUS
<1>1. ASSUME NEW c \in Cmd, Begin(c)
      PROVE  TypeOK'
  <2>1. PICK l \in {"acquire", "down", "enable"} : pc' = [pc EXCEPT ![c] = l]
    BY <1>1 DEF Begin, HotkeyKind, To
  <2> QED
    BY <1>1, <2>1 DEF Begin, Label, TypeOK, keyboard
<1>2. ASSUME NEW c \in Cmd, Acquire(c)
      PROVE  TypeOK'
  BY <1>2 DEF Acquire, FileCreated, To, Label, TypeOK, keyboard
<1>3. ASSUME NEW c \in Cmd, GiveUp(c)
      PROVE  TypeOK'
  BY <1>3 DEF GiveUp, To, Label, TypeOK, keyboard
<1>4. ASSUME NEW c \in Cmd, EnableStorage(c)
      PROVE  TypeOK'
  <2>1. storage' \in BOOLEAN
    BY <1>4 DEF EnableStorage, TypeOK
  <2>2. failed' \in [Cmd -> SUBSET (Key \cup {"enable", "disable", "unlock"})]
    BY <1>4, ErrsTypes DEF EnableStorage, TypeOK
  <2>3. PICK l \in {"onWait", "returned"} : pc' = [pc EXCEPT ![c] = l]
    BY <1>4 DEF EnableStorage, To
  <2>4. pc' \in [Cmd -> Label]
    BY <2>3 DEF Label, TypeOK
  <2> QED
    BY <1>4, <2>1, <2>2, <2>4 DEF EnableStorage, TypeOK, keyboard
<1>5. ASSUME NEW c \in Cmd, OnWait(c)
      PROVE  TypeOK'
  BY <1>5 DEF OnWait, To, Label, TypeOK, keyboard
<1>6. ASSUME NEW c \in Cmd, DisableStorage(c)
      PROVE  TypeOK'
  <2>1. storage' \in BOOLEAN /\ failed' \in [Cmd -> SUBSET (Key \cup {"enable", "disable", "unlock"})]
    <3>1. storage' \in BOOLEAN
      BY <1>6 DEF DisableStorage, TypeOK
    <3>2. Errs(c, "disable") \/ Answered(c, "disable")
      BY <1>6 DEF DisableStorage
    <3> QED
      BY <3>1, <3>2, ErrsTypes
  <2>2. \E l \in {"offWait", "returned", "disableAgain"} : pc' = [pc EXCEPT ![c] = l]
    BY <1>6 DEF DisableStorage, To
  <2>3. pc' \in [Cmd -> Label]
    BY <2>2 DEF Label, TypeOK
  <2> QED
    BY <1>6, <2>1, <2>3 DEF DisableStorage, TypeOK, keyboard
<1>7. ASSUME NEW c \in Cmd, OffWait(c)
      PROVE  TypeOK'
  BY <1>7 DEF OffWait, AfterRearm, To, Label, TypeOK, keyboard
<1>8. ASSUME NEW c \in Cmd, NudgeStreamer(c)
      PROVE  TypeOK'
  BY <1>8 DEF NudgeStreamer, To, Label, TypeOK, keyboard
<1>9. ASSUME NEW c \in Cmd, PressKey(c)
      PROVE  TypeOK'
  <2>1. Keyboard'
    BY <1>9, TappedIsKey, KeyboardTypes, PressTypes DEF PressKey, Keyboard, keyboard
  <2>2. failed' \in [Cmd -> SUBSET (Key \cup {"enable", "disable", "unlock"})]
    BY <1>9, TappedIsKey DEF PressKey, Errs, Answered, TypeOK
  <2>3. pc' \in [Cmd -> Label]
    BY <1>9 DEF PressKey, To, Finish, TypeOK, Label
  <2> QED
    BY <1>9, <2>1, <2>2, <2>3 DEF PressKey, TypeOK, Keyboard
<1>10. ASSUME NEW c \in Cmd, HoldKey(c)
      PROVE  TypeOK'
  BY <1>10 DEF HoldKey, To, Label, TypeOK, keyboard
<1>11. ASSUME NEW c \in Cmd, ReleaseKey(c)
      PROVE  TypeOK'
  <2>1. Keyboard'
    BY <1>11, TappedIsKey, KeyboardTypes, ReleaseTypes DEF ReleaseKey, Keyboard, keyboard
  <2>2. failed' \in [Cmd -> SUBSET (Key \cup {"enable", "disable", "unlock"})]
    BY <1>11, TappedIsKey DEF ReleaseKey, Errs, Answered, TypeOK
  <2>3. pc' \in [Cmd -> Label]
    BY <1>11 DEF ReleaseKey, To, Finish, TypeOK, Label
  <2> QED
    BY <1>11, <2>1, <2>2, <2>3 DEF ReleaseKey, TypeOK, Keyboard
<1>12. ASSUME NEW c \in Cmd, Gap(c)
      PROVE  TypeOK'
  BY <1>12 DEF Gap, Finish, To, Label, TypeOK, keyboard
<1>13. ASSUME NEW c \in Cmd, Settle(c)
      PROVE  TypeOK'
  BY <1>13 DEF Settle, Finish, To, Label, TypeOK, keyboard
<1>14. ASSUME NEW c \in Cmd, Verify(c)
      PROVE  TypeOK'
  BY <1>14 DEF Verify, To, Label, TypeOK, keyboard
<1>15. ASSUME NEW c \in Cmd, Unlock(c)
      PROVE  TypeOK'
  BY <1>15 DEF Unlock, Errs, AfterUnlock, To, Label, TypeOK, keyboard
<1>16. ASSUME NEW c \in Cmd, Save(c)
      PROVE  TypeOK'
  <2>1. saved' \in Port \cup {NoPort}
    BY <1>16, CommandsAssumption DEF Save, TypeOK
  <2> QED
    BY <1>16, <2>1 DEF Save, To, Label, TypeOK, keyboard
<1>17. ASSUME NEW c \in Cmd, Stop(c)
      PROVE  TypeOK'
  BY <1>17 DEF Stop, To, Label, TypeOK, keyboard
<1>18. ASSUME NEW c \in Cmd, Crash(c)
      PROVE  TypeOK'
  BY <1>18 DEF Crash, To, Label, TypeOK, keyboard
<1>19. CASE UNCHANGED vars
  BY <1>19 DEF vars, keyboard, Label, TypeOK
<1> QED
  BY <1>1, <1>2, <1>3, <1>4, <1>5, <1>6, <1>7, <1>8, <1>9, <1>10, <1>11,
     <1>12, <1>13, <1>14, <1>15, <1>16, <1>17, <1>18, <1>19 DEF Next, Step
-----------------------------------------------------------------------------
(* The programs: what each call is of, which keys are down between two of  *)
(* them, and what lies between a recheck and the press it licenses.        *)

CallSet ==
  {<<"capture">>, <<"recall">>, <<"recheck">>, <<"find">>, <<"chord">>, <<"call">>,
   <<"move", "text">>, <<"move", "elsewhere">>} \cup ({"press", "release"} \X Key)

(* The keys a program has pressed before its call n and not released.      *)
Pending(S, n) ==
  {k \in Key : \E m \in 1 .. n - 1 :
     /\ S[m] = <<"press", k>>
     /\ \A j \in m + 1 .. n - 1 : S[j] # <<"release", k>>}

(* A call made while a key is pending is about that key, or about the      *)
(* letter of a text that is typed with Shift.                              *)
Balanced(S, name) ==
  /\ name # "mouse_button" => Pending(S, Len(S) + 1) = {}
  /\ \A n \in 1 .. Len(S) : \A k \in Pending(S, n) :
       \/ S[n] \in {<<"press", k>>, <<"release", k>>}
       \/ /\ name = "keyboard_text" /\ k = Shift
          /\ S[n] \in {<<"press", Letter>>, <<"release", Letter>>}

Rechecked(S, n) == \E m \in 1 .. n - 1 : S[m][1] = "recheck"
ToPress(S, n) == \E m \in n .. Len(S) : S[m][1] = "press"

(* Between a recheck and the press are only the search of the text and the *)
(* move to it, and a click has made that move; there is no such move       *)
(* without a recheck.                                                      *)
Guarded(S) ==
  \A n \in 1 .. Len(S) :
    /\ S[n] = <<"move", "text">> => Rechecked(S, n)
    /\ S[n] = <<"recheck">> => \A m \in 1 .. n : S[m][1] # "move"
    /\ Rechecked(S, n) /\ ToPress(S, n) =>
         \/ S[n] \in {<<"find">>, <<"move", "text">>}
         \/ /\ S[n][1] = "press" /\ ~ ToPress(S, n + 1)
            /\ S[n][2] = Left => \E m \in 1 .. n - 1 : S[m] = <<"move", "text">>

WellBehaved(S, name) ==
  S \in Seq(CallSet) /\ Len(S) <= 8 /\ Balanced(S, name) /\ Guarded(S)

(* The keys that the programs name are keys.                               *)
LEMMA KeysOfPrograms == {Letter, Shift, Left, Control, Enter} \subseteq Key
BY PicturesAssumption DEF Key

(* The first element of a call tells the calls apart.                      *)
LEMMA CallKinds ==
  ASSUME NEW call \in CallSet
  PROVE  /\ call[1] \in {"capture", "recall", "recheck", "find", "chord", "call", "move",
                         "press", "release"}
         /\ call[1] \in {"press", "release"} => call[2] \in Key /\ call = <<call[1], call[2]>>
         /\ call[1] = "move" => call[2] \in {"text", "elsewhere"}
         /\ call[1] = "move" => call \in {<<"move", "text">>, <<"move", "elsewhere">>}
BY DEF CallSet

(* Without a press nothing is pending, and nothing is licensed.            *)
LEMMA QuietPrograms ==
  ASSUME NEW S \in Seq(CallSet), Len(S) <= 8, NEW name,
         \A n \in 1 .. Len(S) :
           S[n][1] \notin {"press", "recheck"} /\ S[n] # <<"move", "text">>
  PROVE  WellBehaved(S, name)
<1>1. ASSUME NEW n \in 1 .. Len(S) + 1 PROVE Pending(S, n) = {}
  <2> SUFFICES ASSUME NEW k \in Pending(S, n) PROVE FALSE
    OBVIOUS
  <2>1. PICK m \in 1 .. n - 1 : S[m] = <<"press", k>>
    BY DEF Pending
  <2> QED
    BY <2>1
<1>2. \A n \in 1 .. Len(S) :
        ~ ToPress(S, n) /\ S[n] # <<"recheck">> /\ S[n] # <<"move", "text">>
  BY DEF ToPress
<1>3. Len(S) + 1 \in 1 .. Len(S) + 1 /\ \A n \in 1 .. Len(S) : n \in 1 .. Len(S) + 1
  OBVIOUS
<1> QED
  BY <1>1, <1>2, <1>3 DEF WellBehaved, Balanced, Guarded

(* One key, tapped.                                                        *)
LEMMA TapBalanced ==
  ASSUME NEW S \in Seq(CallSet), NEW name, NEW i \in 1 .. Len(S) - 1, NEW key \in Key,
         S[i] = <<"press", key>>, S[i + 1] = <<"release", key>>,
         \A n \in 1 .. Len(S) : n # i => S[n][1] # "press"
  PROVE  Balanced(S, name)
<1>1. ASSUME NEW n \in 1 .. Len(S) + 1, NEW k \in Pending(S, n) PROVE n = i + 1 /\ k = key
  <2>1. PICK m \in 1 .. n - 1 :
          S[m] = <<"press", k>> /\ \A j \in m + 1 .. n - 1 : S[j] # <<"release", k>>
    BY DEF Pending
  <2>2. m \in 1 .. Len(S) /\ S[m][1] = "press" /\ S[m][2] = k
    BY <2>1
  <2>3. m = i
    BY <2>2
  <2>4. k = key
    BY <2>2, <2>3
  <2> QED
    BY <2>1, <2>3, <2>4
<1>2. Len(S) \in Nat /\ Len(S) + 1 \in 1 .. Len(S) + 1 /\ Len(S) + 1 # i + 1
  OBVIOUS
<1>3. Pending(S, Len(S) + 1) = {}
  BY <1>1, <1>2
<1>4. ASSUME NEW n \in 1 .. Len(S), NEW k \in Pending(S, n)
      PROVE  S[n] = <<"release", k>>
  <2>1. n \in 1 .. Len(S) + 1
    OBVIOUS
  <2>2. n = i + 1 /\ k = key
    BY <1>1, <2>1
  <2> QED
    BY <2>2
<1> QED
  BY <1>3, <1>4 DEF Balanced

(* Without a recheck nothing is licensed.                                  *)
LEMMA UncheckedGuarded ==
  ASSUME NEW S \in Seq(CallSet),
         \A n \in 1 .. Len(S) : S[n][1] # "recheck" /\ S[n] # <<"move", "text">>
  PROVE  Guarded(S)
BY DEF Guarded, Rechecked

(* A command of the HID API.                                               *)
LEMMA TapPrograms ==
  ASSUME NEW k \in Key, NEW name
  PROVE  WellBehaved(Tap(k), name)
<1> DEFINE S == Tap(k)
<1>1. S \in Seq(CallSet) /\ Len(S) = 2 /\ S[1] = <<"press", k>> /\ S[2] = <<"release", k>>
  BY DEF Tap, CallSet
<1> HIDE DEF S
<1>2. Balanced(S, name)
  <2>1. \A n \in 1 .. Len(S) : n # 1 => S[n][1] # "press"
    BY <1>1
  <2> QED
    BY <1>1, <2>1, TapBalanced
<1>3. Guarded(S)
  <2>1. \A n \in 1 .. Len(S) : S[n][1] # "recheck" /\ S[n] # <<"move", "text">>
    BY <1>1
  <2> QED
    BY <1>1, <2>1, UncheckedGuarded
<1> QED
  BY <1>1, <1>2, <1>3 DEF WellBehaved, S

(* A text with a capital letter.                                           *)
LEMMA TextProgram == WellBehaved(KeyboardText, "keyboard_text")
<1> DEFINE S == KeyboardText
<1>1. /\ S \in Seq(CallSet) /\ Len(S) = 4
      /\ S[1] = <<"press", Shift>> /\ S[2] = <<"press", Letter>>
      /\ S[3] = <<"release", Letter>> /\ S[4] = <<"release", Shift>>
  BY KeysOfPrograms DEF KeyboardText, Tap, CallSet
<1> HIDE DEF S
<1>2. ASSUME NEW n \in 1 .. 5, NEW k \in Pending(S, n)
      PROVE  \/ k = Shift /\ n \in {2, 3, 4}
             \/ k = Letter /\ n = 3
  <2>1. PICK m \in 1 .. n - 1 :
          S[m] = <<"press", k>> /\ \A j \in m + 1 .. n - 1 : S[j] # <<"release", k>>
    BY DEF Pending
  <2>2. m \in {1, 2, 3, 4} /\ S[m][1] = "press" /\ S[m][2] = k
    BY <2>1
  <2>3. (m = 1 /\ k = Shift) \/ (m = 2 /\ k = Letter)
    BY <1>1, <2>2
  <2>4. CASE m = 1 /\ k = Shift
    <3>1. n # 5
      <4>1. n = 5 => 4 \in m + 1 .. n - 1
        BY <2>4
      <4> QED
        BY <1>1, <2>1, <2>4, <4>1
    <3> QED
      BY <2>1, <2>4, <3>1
  <2>5. CASE m = 2 /\ k = Letter
    <3>1. n \notin {4, 5}
      <4>1. n \in {4, 5} => 3 \in m + 1 .. n - 1
        BY <2>5
      <4> QED
        BY <1>1, <2>1, <2>5, <4>1
    <3> QED
      BY <2>1, <2>5, <3>1
  <2> QED
    BY <2>3, <2>4, <2>5
<1>3. Balanced(S, "keyboard_text")
  <2>1. Pending(S, Len(S) + 1) = {}
    <3>1. Len(S) + 1 = 5 /\ 5 \in 1 .. 5
      BY <1>1
    <3> QED
      BY <1>2, <3>1
  <2>2. ASSUME NEW n \in 1 .. 4, NEW k \in Pending(S, n)
        PROVE  \/ S[n] \in {<<"press", k>>, <<"release", k>>}
               \/ k = Shift /\ S[n] \in {<<"press", Letter>>, <<"release", Letter>>}
    <3>1. n \in 1 .. 5
      OBVIOUS
    <3>2. (k = Shift /\ n \in {2, 3, 4}) \/ (k = Letter /\ n = 3)
      BY <1>2, <3>1
    <3> QED
      BY <1>1, <3>2
  <2> QED
    BY <1>1, <2>1, <2>2 DEF Balanced
<1>4. Guarded(S)
  <2>1. \A n \in 1 .. Len(S) : S[n][1] # "recheck" /\ S[n] # <<"move", "text">>
    BY <1>1
  <2> QED
    BY <1>1, <2>1, UncheckedGuarded
<1> QED
  BY <1>1, <1>3, <1>4 DEF WellBehaved, S

(* mouse button, which leaves the button as it was told.                   *)
LEMMA ButtonProgram == WellBehaved(MouseButton, "mouse_button")
<1> DEFINE S == MouseButton
<1>1. S \in Seq(CallSet) /\ Len(S) = 1 /\ S[1] = <<"press", Left>>
  BY KeysOfPrograms DEF MouseButton, CallSet
<1> HIDE DEF S
<1>2. Balanced(S, "mouse_button")
  <2>1. Pending(S, 1) = {}
    BY DEF Pending
  <2> QED
    BY <1>1, <2>1 DEF Balanced
<1>3. Guarded(S)
  <2>1. \A n \in 1 .. Len(S) : S[n][1] # "recheck" /\ S[n] # <<"move", "text">>
    BY <1>1
  <2> QED
    BY <1>1, <2>1, UncheckedGuarded
<1> QED
  BY <1>1, <1>2, <1>3 DEF WellBehaved, S

(* The OCR loop's actions, alone or after an observation.                  *)
LEMMA ClickPrograms ==
  ASSUME NEW S \in {ClickText, Observe \o ClickText}, NEW name
  PROVE  WellBehaved(S, name)
<1>1. PICK o \in {0, 1} :
        /\ S \in Seq(CallSet) /\ Len(S) = 7 + o
        /\ \A n \in 1 .. o : S[n] = <<"capture">>
        /\ S[1 + o] = <<"recall">> /\ S[2 + o] = <<"recheck">> /\ S[3 + o] = <<"find">>
        /\ S[4 + o] = <<"move", "text">> /\ S[5 + o] = <<"press", Left>>
        /\ S[6 + o] = <<"release", Left>> /\ S[7 + o] = <<"capture">>
  <2>1. CASE S = ClickText
    BY <2>1, KeysOfPrograms DEF ClickText, Check, Tap, Observe, CallSet
  <2>2. CASE S = Observe \o ClickText
    BY <2>2, KeysOfPrograms DEF ClickText, Check, Tap, Observe, CallSet
  <2> QED
    BY <2>1, <2>2
<1>2. \A n \in 1 .. Len(S) : n # 5 + o => S[n][1] # "press"
  BY <1>1
<1>3. Balanced(S, name)
  <2>1. 5 + o \in 1 .. Len(S) - 1 /\ 5 + o + 1 = 6 + o
    BY <1>1
  <2> QED
    BY <1>1, <1>2, <2>1, TapBalanced, KeysOfPrograms
<1>4. ASSUME NEW n \in 1 .. Len(S), S[n] = <<"recheck">>, NEW m \in 1 .. n PROVE S[m][1] # "move"
  <2>1. n = 2 + o
    BY <1>1, <1>4
  <2> QED
    BY <1>1, <1>4, <2>1
<1>5. ASSUME NEW n \in 1 .. Len(S), Rechecked(S, n), ToPress(S, n)
      PROVE  n \in {3 + o, 4 + o, 5 + o}
  <2>1. PICK m \in 1 .. n - 1 : S[m][1] = "recheck"
    BY <1>5 DEF Rechecked
  <2>2. m = 2 + o
    BY <1>1, <1>5, <2>1
  <2>3. n <= 5 + o
    BY <1>1, <1>2, <1>5 DEF ToPress
  <2> QED
    BY <1>1, <2>1, <2>2, <2>3
<1>6. ~ ToPress(S, 6 + o)
  BY <1>1, <1>2 DEF ToPress
<1>8. ASSUME NEW n \in 1 .. Len(S), S[n] = <<"move", "text">> PROVE Rechecked(S, n)
  <2>1. n = 4 + o /\ 2 + o \in 1 .. n - 1
    BY <1>1, <1>8
  <2> QED
    BY <1>1, <2>1 DEF Rechecked
<1>7. Guarded(S)
  <2> SUFFICES ASSUME NEW n \in 1 .. Len(S), Rechecked(S, n), ToPress(S, n)
               PROVE  \/ S[n] \in {<<"find">>, <<"move", "text">>}
                      \/ /\ S[n][1] = "press" /\ ~ ToPress(S, n + 1)
                         /\ S[n][2] = Left => \E m \in 1 .. n - 1 : S[m] = <<"move", "text">>
    BY <1>4, <1>8 DEF Guarded
  <2>1. n \in {3 + o, 4 + o, 5 + o}
    BY <1>5
  <2>2. CASE n = 5 + o
    <3>1. n + 1 = 6 + o /\ 4 + o \in 1 .. n - 1
      BY <1>1, <2>2
    <3> QED
      BY <1>1, <1>6, <2>2, <3>1
  <2> QED
    BY <1>1, <2>1, <2>2
<1> QED
  BY <1>1, <1>3, <1>7 DEF WellBehaved

(* A press and its release, and nothing else.                              *)
LEMMA PressPrograms ==
  ASSUME NEW S \in {PressKeyOp, Observe \o PressKeyOp}, NEW name
  PROVE  WellBehaved(S, name)
<1>1. PICK o \in {0, 1} :
        /\ S \in Seq(CallSet) /\ Len(S) = 5 + o
        /\ \A n \in 1 .. o : S[n] = <<"capture">>
        /\ S[1 + o] = <<"recall">> /\ S[2 + o] = <<"recheck">>
        /\ S[3 + o] = <<"press", Letter>> /\ S[4 + o] = <<"release", Letter>>
        /\ S[5 + o] = <<"capture">>
  <2>1. CASE S = PressKeyOp
    BY <2>1, KeysOfPrograms DEF PressKeyOp, Check, Tap, Observe, CallSet
  <2>2. CASE S = Observe \o PressKeyOp
    BY <2>2, KeysOfPrograms DEF PressKeyOp, Check, Tap, Observe, CallSet
  <2> QED
    BY <2>1, <2>2
<1>2. \A n \in 1 .. Len(S) : n # 3 + o => S[n][1] # "press"
  BY <1>1
<1>3. Balanced(S, name)
  <2>1. 3 + o \in 1 .. Len(S) - 1 /\ 3 + o + 1 = 4 + o
    BY <1>1
  <2> QED
    BY <1>1, <1>2, <2>1, TapBalanced, KeysOfPrograms
<1>4. \A n \in 1 .. Len(S) : S[n][1] # "move"
  BY <1>1
<1>5. ASSUME NEW n \in 1 .. Len(S), Rechecked(S, n), ToPress(S, n)
      PROVE  n = 3 + o
  <2>1. PICK m \in 1 .. n - 1 : S[m][1] = "recheck"
    BY <1>5 DEF Rechecked
  <2>2. m = 2 + o
    BY <1>1, <1>5, <2>1
  <2>3. n <= 3 + o
    BY <1>1, <1>2, <1>5 DEF ToPress
  <2> QED
    BY <1>1, <2>1, <2>2, <2>3
<1>6. ~ ToPress(S, 4 + o)
  BY <1>1, <1>2 DEF ToPress
<1>7. Guarded(S)
  <2> SUFFICES ASSUME NEW n \in 1 .. Len(S), Rechecked(S, n), ToPress(S, n)
               PROVE  S[n][1] = "press" /\ ~ ToPress(S, n + 1) /\ S[n][2] # Left
    BY <1>4 DEF Guarded
  <2>1. n = 3 + o
    BY <1>5
  <2>2. n + 1 = 4 + o
    BY <2>1
  <2>3. Letter # Left
    BY PicturesAssumption
  <2> QED
    BY <1>1, <1>6, <2>1, <2>2, <2>3
<1> QED
  BY <1>1, <1>3, <1>7 DEF WellBehaved

(* Every command of the CLI and every operation of the dispatcher.         *)
LEMMA ProgramsWellBehaved ==
  ASSUME NEW name \in DOMAIN Program
  PROVE  WellBehaved(Program[name], name)
<1> {Letter, Shift, Left, Control, Enter} \subseteq Key
  BY KeysOfPrograms
<1>1. WellBehaved(<<>>, name)
  <2>1. <<>> \in Seq(CallSet) /\ Len(<<>>) <= 8
    OBVIOUS
  <2>2. \A n \in 1 .. Len(<<>>) :
          <<>>[n][1] \notin {"press", "recheck"} /\ <<>>[n] # <<"move", "text">>
    OBVIOUS
  <2> QED
    BY <2>1, <2>2, QuietPrograms
<1>2. \A S \in {Observe, OtherCall, KeyboardChord, MouseMove} : WellBehaved(S, name)
  <2> TAKE S \in {Observe, OtherCall, KeyboardChord, MouseMove}
  <2>1. PICK call \in CallSet :
          S = <<call>> /\ call[1] \notin {"press", "recheck"} /\ call # <<"move", "text">>
    <3>1. CASE S = Observe
      BY <3>1 DEF Observe, CallSet
    <3>2. CASE S = OtherCall
      BY <3>2 DEF OtherCall, CallSet
    <3>3. CASE S = KeyboardChord
      BY <3>3 DEF KeyboardChord, CallSet
    <3>4. CASE S = MouseMove
      BY <3>4 DEF MouseMove, CallSet
    <3> QED
      BY <3>1, <3>2, <3>3, <3>4
  <2>2. S \in Seq(CallSet) /\ Len(S) <= 8
    BY <2>1
  <2>3. \A n \in 1 .. Len(S) :
          S[n][1] \notin {"press", "recheck"} /\ S[n] # <<"move", "text">>
    BY <2>1
  <2> QED
    BY <2>2, <2>3, QuietPrograms
<1>3. WellBehaved(ReleaseAll, name)
  <2>1. /\ ReleaseAll \in Seq(CallSet) /\ Len(ReleaseAll) = 2 /\ Len(ReleaseAll) <= 8
        /\ ReleaseAll[1][1] = "release" /\ ReleaseAll[2][1] = "release"
    BY DEF ReleaseAll, CallSet
  <2>2. \A n \in 1 .. Len(ReleaseAll) :
          ReleaseAll[n][1] \notin {"press", "recheck"} /\ ReleaseAll[n] # <<"move", "text">>
    BY <2>1
  <2> QED
    BY <2>1, <2>2, QuietPrograms
<1>4. name \in Unconfigured \/ name \in Reads \/ name \in DOMAIN Named
  BY DEF Program
<1>5. CASE name \in Unconfigured
  BY <1>1, <1>5 DEF Program
<1>6. CASE name \in Reads /\ name \notin Unconfigured
  BY <1>2, <1>6 DEF Program
<1>7. CASE name \in DOMAIN Named /\ name \notin Reads /\ name \notin Unconfigured
  <2>1. Program[name] = Named[name]
    BY <1>7 DEF Program
  <2>2. CASE name \in {"observe", "verify_text", "kvm_ocr_screenshot", "status", "capabilities",
                       "screenshot", "kvm_screenshot_to_file", "kvm_mouse_scroll",
                       "kvm_mouse_move", "mouse_move", "keyboard_chord"}
    <3>1. Named[name] \in {Observe, OtherCall, KeyboardChord, MouseMove}
      BY <2>2 DEF Named, VerifyText, OCRScreenshot, Status, Capabilities, Screenshot,
                  ScreenshotToFile, MouseScroll
    <3> QED
      BY <1>2, <2>1, <3>1
  <2>3. CASE name \in {"kvm_mouse_click", "keyboard_key", "keyboard_hold"}
    <3>1. Named[name] \in {Tap(Left), Tap(Enter), Tap(Letter)}
      BY <2>3 DEF Named, MouseClick, KeyboardKey, KeyboardHold
    <3> QED
      BY <2>1, <3>1, TapPrograms
  <2>4. CASE name \in {"act_click", "mcp_click"}
    <3>1. Named[name] \in {ClickText, Observe \o ClickText}
      BY <2>4 DEF Named
    <3> QED
      BY <2>1, <3>1, ClickPrograms
  <2>5. CASE name \in {"act_press", "mcp_press"}
    <3>1. Named[name] \in {PressKeyOp, Observe \o PressKeyOp}
      BY <2>5 DEF Named
    <3> QED
      BY <2>1, <3>1, PressPrograms
  <2>6. CASE name = "mouse_button"
    BY <2>1, <2>6, ButtonProgram DEF Named
  <2>7. CASE name = "keyboard_text"
    BY <2>1, <2>7, TextProgram DEF Named
  <2>8. CASE name = "keyboard_release_all"
    BY <1>3, <2>1, <2>8 DEF Named
  <2> QED
    BY <1>7, <2>2, <2>3, <2>4, <2>5, <2>6, <2>7, <2>8 DEF Named
<1> QED
  BY <1>4, <1>5, <1>6, <1>7

-----------------------------------------------------------------------------
(* Where each command may be, and the types of the other commands.         *)

Placed ==
  \A c \in Cmd :
    /\ pc[c] \in {"acquire", "upAgain", "verify", "unlock", "save"} => kind[c] = "select"
    /\ pc[c] \in {"enable", "onWait", "disable", "disableAgain", "offWait"} =>
         kind[c] \in {"semantic", "rearm"}
    /\ pc[c] = "nudge" => kind[c] = "semantic"
    /\ Typing(c) => kind[c] \in {"select", "switch", "semantic"}
    /\ pc[c] = "perform" => kind[c] \in DOMAIN Program
    /\ pc[c] = "idle" => step[c] = 1

(* A command that has rechecked its screen has seen one.                   *)
Looked ==
  \A c \in Cmd : pc[c] = "perform" /\ Rechecked(Calls(c), step[c]) => seen[c] \in Picture

Typed == TypeOK /\ OwnTypeOK /\ Placed /\ Looked

(* The kinds that select a port have no program: TargetSelect moves them.  *)
LEMMA HotkeysHaveNoProgram == HotkeyKind \cap DOMAIN Program = {}
BY DEF HotkeyKind, Program, Named, Unconfigured, Reads, HostOps, TypingOps, OtherOps,
       SequenceOps, WorkflowOps

(* Every step of TargetSelect leaves every command where its kind goes.    *)
LEMMA HotkeyPlaces == ASSUME TypeOK, Placed, [Next]_vars, step' = step PROVE Placed' /\ kind' = kind
<1>1. ASSUME NEW c \in Cmd, Begin(c)
      PROVE  Placed' /\ kind' = kind
  <2>1. PICK l \in {"acquire", "down", "enable"} :
          /\ pc' = [pc EXCEPT ![c] = l] /\ kind' = kind
          /\ l = "acquire" => kind[c] = "select"
          /\ l = "enable" => kind[c] \in {"semantic", "rearm"}
          /\ l = "down" => kind[c] = "switch"
    BY <1>1 DEF Begin, HotkeyKind, To
  <2> QED
    BY <2>1 DEF Placed, Typing, TypeOK
<1>2. ASSUME NEW c \in Cmd, Acquire(c)
      PROVE  Placed' /\ kind' = kind
  BY <1>2 DEF Acquire, FileCreated, To, TypeOK, Placed, Typing, HotkeyKind
<1>3. ASSUME NEW c \in Cmd, GiveUp(c)
      PROVE  Placed' /\ kind' = kind
  BY <1>3 DEF GiveUp, To, TypeOK, Placed, Typing, HotkeyKind
<1>4. ASSUME NEW c \in Cmd, EnableStorage(c)
      PROVE  Placed' /\ kind' = kind
  <2>1. PICK l \in {"onWait", "returned"} : pc' = [pc EXCEPT ![c] = l]
    BY <1>4 DEF EnableStorage, To
  <2>2. pc[c] = "enable" /\ kind' = kind
    BY <1>4 DEF EnableStorage
  <2> QED
    BY <2>1, <2>2 DEF TypeOK, Placed, Typing
<1>5. ASSUME NEW c \in Cmd, OnWait(c)
      PROVE  Placed' /\ kind' = kind
  BY <1>5 DEF OnWait, To, TypeOK, Placed, Typing, HotkeyKind
<1>6. ASSUME NEW c \in Cmd, DisableStorage(c)
      PROVE  Placed' /\ kind' = kind
  <2>1. PICK l \in {"offWait", "returned", "disableAgain"} :
          /\ pc' = [pc EXCEPT ![c] = l] /\ kind' = kind
          /\ pc[c] \in {"disable", "disableAgain"}
    BY <1>6 DEF DisableStorage, To
  <2> QED
    BY <2>1 DEF Placed, Typing, TypeOK
<1>7. ASSUME NEW c \in Cmd, OffWait(c)
      PROVE  Placed' /\ kind' = kind
  BY <1>7 DEF OffWait, AfterRearm, To, TypeOK, Placed, Typing, HotkeyKind
<1>8. ASSUME NEW c \in Cmd, NudgeStreamer(c)
      PROVE  Placed' /\ kind' = kind
  BY <1>8 DEF NudgeStreamer, To, TypeOK, Placed, Typing, HotkeyKind
<1>9. ASSUME NEW c \in Cmd, PressKey(c)
      PROVE  Placed' /\ kind' = kind
  BY <1>9 DEF PressKey, Errs, Answered, Finish, To, TypeOK, Placed, Typing,
     HotkeyKind
<1>10. ASSUME NEW c \in Cmd, HoldKey(c)
      PROVE  Placed' /\ kind' = kind
  BY <1>10 DEF HoldKey, To, TypeOK, Placed, Typing, HotkeyKind
<1>11. ASSUME NEW c \in Cmd, ReleaseKey(c)
      PROVE  Placed' /\ kind' = kind
  BY <1>11 DEF ReleaseKey, Errs, Answered, Finish, To, TypeOK, Placed,
     Typing, HotkeyKind
<1>12. ASSUME NEW c \in Cmd, Gap(c)
      PROVE  Placed' /\ kind' = kind
  BY <1>12 DEF Gap, Finish, To, TypeOK, Placed, Typing, HotkeyKind
<1>13. ASSUME NEW c \in Cmd, Settle(c)
      PROVE  Placed' /\ kind' = kind
  BY <1>13 DEF Settle, Finish, To, TypeOK, Placed, Typing, HotkeyKind
<1>14. ASSUME NEW c \in Cmd, Verify(c)
      PROVE  Placed' /\ kind' = kind
  BY <1>14 DEF Verify, To, TypeOK, Placed, Typing, HotkeyKind
<1>15. ASSUME NEW c \in Cmd, Unlock(c)
      PROVE  Placed' /\ kind' = kind
  BY <1>15 DEF Unlock, Errs, AfterUnlock, To, TypeOK, Placed, Typing,
     HotkeyKind
<1>16. ASSUME NEW c \in Cmd, Save(c)
      PROVE  Placed' /\ kind' = kind
  BY <1>16 DEF Save, To, TypeOK, Placed, Typing, HotkeyKind
<1>17. ASSUME NEW c \in Cmd, Stop(c)
      PROVE  Placed' /\ kind' = kind
  BY <1>17 DEF Stop, To, TypeOK, Placed, Typing, HotkeyKind
<1>18. ASSUME NEW c \in Cmd, Crash(c)
      PROVE  Placed' /\ kind' = kind
  BY <1>18 DEF Crash, To, TypeOK, Placed, Typing, HotkeyKind
<1>19. CASE UNCHANGED vars
  BY <1>19 DEF vars, TypeOK, Placed, Typing, HotkeyKind
<1> QED
  BY <1>1, <1>2, <1>3, <1>4, <1>5, <1>6, <1>7, <1>8, <1>9, <1>10, <1>11,
     <1>12, <1>13, <1>14, <1>15, <1>16, <1>17, <1>18, <1>19 DEF Next, Step

(* They start no program and change none.                                  *)
LEMMA HotkeyQuiet ==
  ASSUME TypeOK, Placed, [Next]_vars
  PROVE  \A d \in Cmd : pc'[d] \in {"idle", "perform"} => pc[d] = pc'[d]
<1>1. ASSUME NEW c \in Cmd, Begin(c)
      PROVE  \A d \in Cmd : pc'[d] \in {"idle", "perform"} => pc[d] = pc'[d]
  <2>1. PICK l \in {"acquire", "down", "enable"} : pc' = [pc EXCEPT ![c] = l]
    BY <1>1 DEF Begin, HotkeyKind, To
  <2> QED
    BY <2>1 DEF TypeOK
<1>2. ASSUME NEW c \in Cmd, Acquire(c)
      PROVE  \A d \in Cmd : pc'[d] \in {"idle", "perform"} => pc[d] = pc'[d]
  BY <1>2 DEF Acquire, FileCreated, To, TypeOK
<1>3. ASSUME NEW c \in Cmd, GiveUp(c)
      PROVE  \A d \in Cmd : pc'[d] \in {"idle", "perform"} => pc[d] = pc'[d]
  BY <1>3 DEF GiveUp, To, TypeOK
<1>4. ASSUME NEW c \in Cmd, EnableStorage(c)
      PROVE  \A d \in Cmd : pc'[d] \in {"idle", "perform"} => pc[d] = pc'[d]
  BY <1>4 DEF EnableStorage, Errs, To, TypeOK
<1>5. ASSUME NEW c \in Cmd, OnWait(c)
      PROVE  \A d \in Cmd : pc'[d] \in {"idle", "perform"} => pc[d] = pc'[d]
  BY <1>5 DEF OnWait, To, TypeOK
<1>6. ASSUME NEW c \in Cmd, DisableStorage(c)
      PROVE  \A d \in Cmd : pc'[d] \in {"idle", "perform"} => pc[d] = pc'[d]
  <2>1. \E l \in {"offWait", "returned", "disableAgain"} : pc' = [pc EXCEPT ![c] = l]
    BY <1>6 DEF DisableStorage, To
  <2> QED
    BY <2>1 DEF TypeOK
<1>7. ASSUME NEW c \in Cmd, OffWait(c)
      PROVE  \A d \in Cmd : pc'[d] \in {"idle", "perform"} => pc[d] = pc'[d]
  BY <1>7 DEF OffWait, AfterRearm, To, TypeOK
<1>8. ASSUME NEW c \in Cmd, NudgeStreamer(c)
      PROVE  \A d \in Cmd : pc'[d] \in {"idle", "perform"} => pc[d] = pc'[d]
  BY <1>8 DEF NudgeStreamer, To, TypeOK
<1>9. ASSUME NEW c \in Cmd, PressKey(c)
      PROVE  \A d \in Cmd : pc'[d] \in {"idle", "perform"} => pc[d] = pc'[d]
  BY <1>9 DEF PressKey, Errs, Answered, Finish, To, TypeOK
<1>10. ASSUME NEW c \in Cmd, HoldKey(c)
      PROVE  \A d \in Cmd : pc'[d] \in {"idle", "perform"} => pc[d] = pc'[d]
  BY <1>10 DEF HoldKey, To, TypeOK
<1>11. ASSUME NEW c \in Cmd, ReleaseKey(c)
      PROVE  \A d \in Cmd : pc'[d] \in {"idle", "perform"} => pc[d] = pc'[d]
  BY <1>11 DEF ReleaseKey, Errs, Answered, Finish, To, TypeOK
<1>12. ASSUME NEW c \in Cmd, Gap(c)
      PROVE  \A d \in Cmd : pc'[d] \in {"idle", "perform"} => pc[d] = pc'[d]
  BY <1>12 DEF Gap, Finish, To, TypeOK
<1>13. ASSUME NEW c \in Cmd, Settle(c)
      PROVE  \A d \in Cmd : pc'[d] \in {"idle", "perform"} => pc[d] = pc'[d]
  BY <1>13 DEF Settle, Finish, To, TypeOK
<1>14. ASSUME NEW c \in Cmd, Verify(c)
      PROVE  \A d \in Cmd : pc'[d] \in {"idle", "perform"} => pc[d] = pc'[d]
  BY <1>14 DEF Verify, To, TypeOK
<1>15. ASSUME NEW c \in Cmd, Unlock(c)
      PROVE  \A d \in Cmd : pc'[d] \in {"idle", "perform"} => pc[d] = pc'[d]
  BY <1>15 DEF Unlock, Errs, AfterUnlock, To, TypeOK
<1>16. ASSUME NEW c \in Cmd, Save(c)
      PROVE  \A d \in Cmd : pc'[d] \in {"idle", "perform"} => pc[d] = pc'[d]
  BY <1>16 DEF Save, To, TypeOK
<1>17. ASSUME NEW c \in Cmd, Stop(c)
      PROVE  \A d \in Cmd : pc'[d] \in {"idle", "perform"} => pc[d] = pc'[d]
  BY <1>17 DEF Stop, To, TypeOK
<1>18. ASSUME NEW c \in Cmd, Crash(c)
      PROVE  \A d \in Cmd : pc'[d] \in {"idle", "perform"} => pc[d] = pc'[d]
  BY <1>18 DEF Crash, To, TypeOK
<1>19. CASE UNCHANGED vars
  BY <1>19 DEF vars, TypeOK
<1> QED
  BY <1>1, <1>2, <1>3, <1>4, <1>5, <1>6, <1>7, <1>8, <1>9, <1>10, <1>11,
     <1>12, <1>13, <1>14, <1>15, <1>16, <1>17, <1>18, <1>19 DEF Next, Step

(* What a command that performs its program is about to do.                *)
LEMMA NextCall ==
  ASSUME Typed, NEW c \in Cmd, pc[c] = "perform"
  PROVE  /\ kind[c] \notin HotkeyKind
         /\ WellBehaved(Calls(c), kind[c])
         /\ Calls(c) \in Seq(CallSet) /\ Len(Calls(c)) <= 8
         /\ step[c] \in 1 .. Len(Calls(c))
         /\ Calls(c)[step[c]] \in CallSet
<1>1. kind[c] \in DOMAIN Program /\ kind[c] \notin HotkeyKind
  BY HotkeysHaveNoProgram DEF Typed, Placed
<1>2. WellBehaved(Calls(c), kind[c])
  BY <1>1, ProgramsWellBehaved DEF Calls
<1>3. Calls(c) \in Seq(CallSet) /\ Len(Calls(c)) <= 8
  BY <1>2 DEF WellBehaved
<1>4. step[c] \in 1 .. Len(Calls(c))
  BY <1>3 DEF Typed, OwnTypeOK
<1> QED
  BY <1>1, <1>2, <1>3, <1>4

(* Whatever a command finds or presses is a key of the keyboard.           *)
LEMMA OperandIsKey ==
  ASSUME Typed, NEW c \in Cmd, At(c, "press") \/ At(c, "release")
  PROVE  Operand(c) \in Key /\ Calls(c)[step[c]] = <<Calls(c)[step[c]][1], Operand(c)>>
<1>1. pc[c] = "perform" /\ Calls(c)[step[c]][1] \in {"press", "release"}
  BY DEF At
<1>2. Calls(c)[step[c]] \in CallSet
  BY <1>1, NextCall
<1> QED
  BY <1>1, <1>2, CallKinds DEF Operand

(* A command goes to its next call or ends.                                *)
Proceeds(c) ==
  \/ step[c] < Len(Calls(c)) /\ step' = [step EXCEPT ![c] = @ + 1] /\ pc' = pc
  \/ pc' = [pc EXCEPT ![c] = "returned"] /\ step' = step

(* After a call a command goes on or returns.                              *)
LEMMA AdvanceOrAbort ==
  ASSUME NEW c \in Cmd, Advance(c) \/ Abort(c) PROVE Proceeds(c)
BY DEF Advance, Abort, Proceeds, To

(* Going on stays inside the command's program, and starts nothing.        *)
LEMMA ProceedingTypes ==
  ASSUME Typed, NEW c \in Cmd, pc[c] = "perform", Proceeds(c), kind' = kind
  PROVE  /\ pc' \in [Cmd -> Label]
         /\ step' \in [Cmd -> 1 .. 9]
         /\ \A d \in Cmd : pc'[d] = "perform" => step'[d] \in DOMAIN Calls(d)'
         /\ \A d \in Cmd : pc'[d] = "perform" => pc[d] = "perform"
         /\ \A d \in Cmd : pc'[d] = pc[d] \/ pc'[d] = "returned"
<1>1. /\ Calls(c) \in Seq(CallSet) /\ Len(Calls(c)) <= 8
      /\ step[c] \in 1 .. Len(Calls(c))
  BY NextCall
<1>2. \A d \in Cmd : Calls(d)' = Calls(d)
  BY DEF Calls
<1>3. /\ pc \in [Cmd -> Label] /\ step \in [Cmd -> 1 .. 9]
      /\ \A d \in Cmd : pc[d] = "perform" => step[d] \in DOMAIN Calls(d)
  BY DEF Typed, TypeOK, OwnTypeOK
<1>4. CASE step[c] < Len(Calls(c)) /\ step' = [step EXCEPT ![c] = @ + 1] /\ pc' = pc
  <2>1. step[c] + 1 \in 1 .. 9 /\ step[c] + 1 \in DOMAIN Calls(c)
    BY <1>1, <1>4
  <2>2. step' \in [Cmd -> 1 .. 9]
    BY <1>3, <1>4, <2>1
  <2>3. ASSUME NEW d \in Cmd, pc'[d] = "perform" PROVE step'[d] \in DOMAIN Calls(d)'
    <3>1. CASE d = c
      BY <1>2, <1>3, <1>4, <2>1, <3>1
    <3>2. CASE d # c
      BY <1>2, <1>3, <1>4, <2>3, <3>2
    <3> QED
      BY <3>1, <3>2
  <2> QED
    BY <1>3, <1>4, <2>2, <2>3
<1>5. CASE pc' = [pc EXCEPT ![c] = "returned"] /\ step' = step
  <2>1. pc' \in [Cmd -> Label] /\ \A d \in Cmd : pc'[d] = pc[d] \/ pc'[d] = "returned"
    BY <1>3, <1>5 DEF Label
  <2> QED
    BY <1>2, <1>3, <1>5, <2>1
<1> QED
  BY <1>4, <1>5 DEF Proceeds

(* Going on keeps what the command saw of the screen.                      *)
LEMMA ProceedingLooks ==
  ASSUME Typed, NEW c \in Cmd, pc[c] = "perform", Proceeds(c), kind' = kind,
         \A d \in Cmd : seen'[d] \in {seen[d]} \cup Picture,
         At(c, "recheck") => pc'[c] = "returned" \/ seen'[c] \in Picture
  PROVE  Looked'
<1> SUFFICES ASSUME NEW d \in Cmd, pc'[d] = "perform", Rechecked(Calls(d)', step'[d])
             PROVE  seen'[d] \in Picture
  BY DEF Looked
<1>1. /\ pc \in [Cmd -> Label] /\ step \in [Cmd -> 1 .. 9] /\ Looked
      /\ Calls(d)' = Calls(d) /\ pc[d] = "perform"
  BY ProceedingTypes DEF Typed, TypeOK, OwnTypeOK, Calls
<1>2. CASE step'[d] = step[d]
  BY <1>1, <1>2 DEF Looked
<1>3. CASE step'[d] # step[d]
  <2>1. d = c /\ step'[d] = step[c] + 1
    BY <1>1, <1>3 DEF Proceeds
  <2>2. PICK m \in 1 .. step[c] : Calls(c)[m][1] = "recheck"
    BY <1>1, <2>1 DEF Rechecked
  <2>3. CASE m = step[c]
    BY <1>1, <2>1, <2>2, <2>3 DEF At
  <2>4. CASE m # step[c]
    <3>1. m \in 1 .. step[c] - 1
      BY <1>1, <2>4
    <3>2. Rechecked(Calls(c), step[c])
      BY <2>2, <3>1 DEF Rechecked
    <3> QED
      BY <1>1, <2>1, <3>2 DEF Looked
  <2> QED
    BY <2>3, <2>4
<1> QED
  BY <1>2, <1>3

(* What every step of the other commands keeps.                            *)
LEMMA OwnTypes ==
  ASSUME Typed, NEW c \in Cmd, Start(c) \/ Perform(c) \/ Expire(c), disturbed' \in SUBSET Cmd
  PROVE  Typed' /\ UNCHANGED rest
<1> DEFINE Goal == Typed' /\ UNCHANGED rest
<1>0. /\ TypeOK /\ OwnTypeOK /\ Placed /\ Keyboard
      /\ failed \in [Cmd -> SUBSET (Key \cup {"enable", "disable", "unlock"})]
  BY KeyboardTypes DEF Typed, TypeOK
<1>1. ASSUME UNCHANGED rest, Keyboard',
             failed' \in [Cmd -> SUBSET (Key \cup {"enable", "disable", "unlock"})],
             pc' \in [Cmd -> Label],
             \A d \in Cmd : pc'[d] = "idle" => pc[d] = "idle" /\ step'[d] = step[d],
             \A d \in Cmd :
               \/ pc'[d] \in {pc[d], "returned"}
               \/ pc'[d] = "perform" /\ kind[d] \in DOMAIN Program
      PROVE  TypeOK' /\ Placed'
  <2>1. TypeOK'
    BY <1>0, <1>1 DEF TypeOK, Keyboard, rest
  <2>2. kind' = kind
    BY <1>1 DEF rest
  <2>3. Placed'
    BY <1>0, <1>1, <2>2 DEF Placed, Typing
  <2> QED
    BY <2>1, <2>3
<1>2. ASSUME pc[c] = "perform", Proceeds(c), UNCHANGED rest, Keyboard',
             failed' \in [Cmd -> SUBSET (Key \cup {"enable", "disable", "unlock"})],
             picture' \in [Port -> Picture],
             pointer' \in [Port -> Picture \cup {"elsewhere"}],
             store' \in [Cmd -> SUBSET Picture],
             returned' \in SUBSET Picture,
             asked' \in [Cmd -> Picture \cup {NoPicture}],
             seen' \in [Cmd -> Picture \cup {NoPicture}],
             \A d \in Cmd : seen'[d] \in {seen[d]} \cup Picture,
             At(c, "recheck") => pc'[c] = "returned" \/ seen'[c] \in Picture
      PROVE  Goal
  <2>1. /\ pc' \in [Cmd -> Label] /\ step' \in [Cmd -> 1 .. 9]
        /\ \A d \in Cmd : pc'[d] = "perform" => step'[d] \in DOMAIN Calls(d)'
        /\ \A d \in Cmd : pc'[d] = pc[d] \/ pc'[d] = "returned"
    BY <1>2, ProceedingTypes DEF rest
  <2>2. TypeOK' /\ Placed'
    <3>1. \A d \in Cmd : pc'[d] = "idle" => pc[d] = "idle" /\ step'[d] = step[d]
      BY <1>0, <1>2, <2>1 DEF Proceeds, TypeOK, OwnTypeOK
    <3> QED
      BY <1>1, <1>2, <2>1, <3>1
  <2>3. OwnTypeOK'
    BY <1>2, <2>1 DEF OwnTypeOK
  <2>4. Looked'
    BY <1>2, ProceedingLooks DEF rest
  <2> QED
    BY <1>2, <2>2, <2>3, <2>4 DEF Typed
<1>3. CASE Start(c)
  <2>1. pc' \in [Cmd -> Label] /\ pc'[c] \in {"returned", "perform"} /\ pc[c] = "idle"
        /\ \A d \in Cmd : d # c => pc'[d] = pc[d]
    BY <1>3, <1>0 DEF Start, To, TypeOK, Label
  <2>2. kind[c] \in DOMAIN Program
    BY <1>3, <1>0, ProgramsAssumption DEF Start, TypeOK
  <2>3. UNCHANGED <<rest, keyboard, failed, own>>
    BY <1>3 DEF Start
  <2>4. TypeOK' /\ Placed'
    BY <1>0, <1>1, <2>1, <2>2, <2>3 DEF keyboard, Keyboard, own
  <2>5. Calls(c) \in Seq(CallSet) /\ step[c] = 1
    BY <1>0, <2>1, <2>2, ProgramsWellBehaved DEF WellBehaved, Placed, Calls
  <2>6. pc'[c] = "perform" => Calls(c) # <<>>
    BY <1>3, <1>0 DEF Start, To, TypeOK
  <2>7. \A d \in Cmd : Calls(d)' = Calls(d)
    BY <2>3 DEF Calls, rest
  <2>8. \A d \in Cmd : pc'[d] = "perform" => step'[d] \in DOMAIN Calls(d)'
    BY <1>0, <2>1, <2>3, <2>5, <2>6, <2>7 DEF own, OwnTypeOK
  <2>9. OwnTypeOK'
    BY <1>0, <2>3, <2>8 DEF own, OwnTypeOK, screens, loop
  <2>10. Looked'
    <3> SUFFICES ASSUME NEW d \in Cmd, pc'[d] = "perform", Rechecked(Calls(d)', step'[d])
                 PROVE  seen'[d] \in Picture
      BY DEF Looked
    <3>1. ~ Rechecked(Calls(c), step[c])
      BY <2>5 DEF Rechecked
    <3> QED
      BY <2>1, <2>3, <2>7, <3>1 DEF Typed, Looked, own, loop
  <2> QED
    BY <2>3, <2>4, <2>9, <2>10 DEF Typed
<1>4. CASE Press(c)
  <2>1. pc[c] = "perform" /\ Proceeds(c) /\ UNCHANGED <<rest, screens, loop>>
    BY <1>4, AdvanceOrAbort DEF Press, At
  <2>2. Operand(c) \in Key
    BY <1>4, OperandIsKey DEF Press
  <2>3. Keyboard'
    BY <1>4, <1>0, <2>2, PressTypes DEF Press, Keyboard, keyboard
  <2>4. failed' \in [Cmd -> SUBSET (Key \cup {"enable", "disable", "unlock"})]
    BY <1>4, <1>0, <2>2 DEF Press, Errs, Answered
  <2>5. ~ At(c, "recheck")
    BY <1>4 DEF Press, At
  <2> QED
    BY <1>0, <1>2, <2>1, <2>3, <2>4, <2>5 DEF OwnTypeOK, screens, loop
<1>5. CASE Release(c)
  <2>1. pc[c] = "perform" /\ Proceeds(c) /\ UNCHANGED <<rest, screens, loop>>
    BY <1>5, AdvanceOrAbort DEF Release, At
  <2>2. Operand(c) \in Key
    BY <1>5, OperandIsKey DEF Release
  <2>3. Keyboard'
    BY <1>5, <1>0, <2>2, ReleaseTypes DEF Release, Keyboard, keyboard
  <2>4. failed' \in [Cmd -> SUBSET (Key \cup {"enable", "disable", "unlock"})]
    BY <1>5, <1>0, <2>2 DEF Release, Errs, Answered
  <2>5. ~ At(c, "recheck")
    BY <1>5 DEF Release, At
  <2> QED
    BY <1>0, <1>2, <2>1, <2>3, <2>4, <2>5 DEF OwnTypeOK, screens, loop
<1>6. CASE Chord(c)
  <2>1. pc[c] = "perform" /\ Proceeds(c) /\ UNCHANGED <<rest, failed, screens, loop>>
    BY <1>6, AdvanceOrAbort DEF Chord, At
  <2>2. <<Shift, Letter>> \in Seq(Key)
    BY KeysOfPrograms
  <2>3. recent \o <<Shift, Letter>> \in Seq(Key)
    BY <1>0, <2>2 DEF Keyboard
  <2>4. Keyboard'
    BY <1>6, <1>0, <2>3, LastThreeTypes DEF Chord, ChordReaches, Keyboard, keyboard
  <2>9. ~ At(c, "recheck")
    BY <1>6 DEF Chord, At
  <2> QED
    BY <1>0, <1>2, <2>1, <2>4, <2>9 DEF OwnTypeOK, screens, loop
<1>7. CASE Move(c)
  <2>1. pc[c] = "perform" /\ Proceeds(c)
        /\ UNCHANGED <<rest, keyboard, failed, picture, loop>>
    BY <1>7, AdvanceOrAbort DEF Move, At
  <2>3. Operand(c) = "text" => seen[c] \in Picture
    <3>1. /\ Calls(c)[step[c]] \in CallSet /\ Calls(c)[step[c]][1] = "move"
          /\ step[c] \in 1 .. Len(Calls(c)) /\ WellBehaved(Calls(c), kind[c])
      BY <1>7, <2>1, NextCall DEF Move, At
    <3>2. Operand(c) = "text" => Calls(c)[step[c]] = <<"move", "text">>
      BY <3>1, CallKinds DEF Operand
    <3> QED
      BY <2>1, <3>1, <3>2 DEF WellBehaved, Guarded, Typed, Looked
  <2>2. pointer' \in [Port -> Picture \cup {"elsewhere"}]
    BY <1>7, <1>0, <2>3 DEF Move, MoveReaches, OwnTypeOK
  <2>9. ~ At(c, "recheck")
    BY <1>7 DEF Move, At
  <2> QED
    BY <1>0, <1>2, <2>1, <2>2, <2>9 DEF OwnTypeOK, Keyboard, keyboard, loop
<1>8. CASE Call(c)
  <2>1. pc[c] = "perform" /\ Proceeds(c) /\ UNCHANGED <<rest, keyboard, failed, screens, loop>>
    BY <1>8, AdvanceOrAbort DEF Call, At
  <2>9. ~ At(c, "recheck")
    BY <1>8 DEF Call, At
  <2> QED
    BY <1>0, <1>2, <2>1, <2>9 DEF OwnTypeOK, Keyboard, keyboard, screens, loop
<1>9. CASE Capture(c)
  <2>1. pc[c] = "perform" /\ Proceeds(c) /\ UNCHANGED <<rest, keyboard, failed, screens, asked>>
    BY <1>9, AdvanceOrAbort DEF Capture, At
  <2>2. Shown \in Picture
    BY <1>0 DEF OwnTypeOK, Shown, Keyboard
  <2>3. /\ seen' \in [Cmd -> Picture \cup {NoPicture}]
        /\ store' \in [Cmd -> SUBSET Picture]
        /\ returned' \in SUBSET Picture
        /\ \A d \in Cmd : seen'[d] \in {seen[d]} \cup Picture
    BY <1>9, <1>0, <2>2 DEF Capture, Snapshot, Taken, OwnTypeOK
  <2>9. ~ At(c, "recheck")
    BY <1>9 DEF Capture, At
  <2> QED
    BY <1>0, <1>2, <2>1, <2>3, <2>9 DEF OwnTypeOK, Keyboard, keyboard, screens
<1>10. CASE Recall(c)
  <2>1. pc[c] = "perform" /\ Proceeds(c)
        /\ UNCHANGED <<rest, keyboard, failed, screens, store, returned, seen>>
    BY <1>10, AdvanceOrAbort DEF Recall, At
  <2>2. asked' \in [Cmd -> Picture \cup {NoPicture}]
    BY <1>10, <1>0 DEF Recall, OwnTypeOK
  <2>9. ~ At(c, "recheck")
    BY <1>10 DEF Recall, At
  <2> QED
    BY <1>0, <1>2, <2>1, <2>2, <2>9 DEF OwnTypeOK, Keyboard, keyboard, screens
<1>11. CASE Recheck(c)
  <2>1. pc[c] = "perform" /\ Proceeds(c)
        /\ UNCHANGED <<rest, keyboard, failed, screens, returned, asked>>
    BY <1>11, AdvanceOrAbort DEF Recheck, At
  <2>2. Shown \in Picture
    BY <1>0 DEF OwnTypeOK, Shown, Keyboard
  <2>3. /\ seen' \in [Cmd -> Picture \cup {NoPicture}]
        /\ store' \in [Cmd -> SUBSET Picture]
        /\ returned' \in SUBSET Picture
        /\ \A d \in Cmd : seen'[d] \in {seen[d]} \cup Picture
    BY <1>11, <1>0, <2>2 DEF Recheck, Snapshot, Taken, OwnTypeOK
  <2>4. pc'[c] = "returned" \/ seen'[c] \in Picture
    BY <1>11, <1>0, <2>2 DEF Recheck, Snapshot, Taken, OwnTypeOK, Abort, To, TypeOK
  <2> QED
    BY <1>0, <1>2, <2>1, <2>3, <2>4 DEF OwnTypeOK, Keyboard, keyboard, screens
<1>12. CASE Find(c)
  <2>1. pc[c] = "perform" /\ Proceeds(c)
        /\ UNCHANGED <<rest, keyboard, failed, screens, loop>>
    BY <1>12, AdvanceOrAbort DEF Find, At
  <2>9. ~ At(c, "recheck")
    BY <1>12 DEF Find, At
  <2> QED
    BY <1>0, <1>2, <2>1, <2>9 DEF OwnTypeOK, Keyboard, keyboard, screens, loop
<1>13. CASE Expire(c)
  <2>1. /\ UNCHANGED <<pc, rest, keyboard, failed, step, screens, returned, asked, seen>>
        /\ store' \in [Cmd -> SUBSET Picture]
    BY <1>13, <1>0 DEF Expire, OwnTypeOK
  <2>2. TypeOK' /\ Placed'
    BY <1>0, <1>1, <2>1 DEF keyboard, Keyboard, TypeOK
  <2>3. OwnTypeOK'
    BY <1>0, <2>1 DEF OwnTypeOK, screens, Calls, rest
  <2>4. Looked'
    BY <2>1 DEF Typed, Looked, Calls, rest
  <2> QED
    BY <2>1, <2>2, <2>3, <2>4 DEF Typed
<1> QED
  BY <1>3, <1>4, <1>5, <1>6, <1>7, <1>8, <1>9, <1>10, <1>11, <1>12, <1>13
     DEF Perform

(* A redraw touches none of the commands.                                  *)
LEMMA RedrawTypes ==
  ASSUME Typed, NEW p \in Port, Redraw(p), disturbed' \in SUBSET Cmd
  PROVE  Typed' /\ UNCHANGED <<vars, step, seen>>
<1>1. UNCHANGED <<pc, rest, keyboard, failed, step, pointer, loop>> /\ UNCHANGED vars
  BY DEF Redraw, vars, rest
<1>2. picture' \in [Port -> Picture]
  BY DEF Redraw, Typed, OwnTypeOK
<1>3. TypeOK'
  BY <1>1 DEF Typed, TypeOK, vars, keyboard
<1>4. \A d \in Cmd : Calls(d)' = Calls(d)
  BY <1>1 DEF Calls, rest
<1>5. OwnTypeOK'
  BY <1>1, <1>2, <1>4 DEF Typed, OwnTypeOK, loop
<1>6. Placed' /\ Looked'
  BY <1>1, <1>4 DEF Typed, Placed, Looked, Typing, rest, loop
<1> QED
  BY <1>1, <1>3, <1>5, <1>6 DEF Typed, loop

(* The steps of the hotkey's commands keep the types and the places.       *)
LEMMA HotkeyKeepsTyped ==
  ASSUME Typed, [Next]_vars, UNCHANGED own, disturbed' \in SUBSET Cmd
  PROVE  Typed'
<1>1. TypeOK' /\ Placed' /\ kind' = kind
  BY HotkeyTypes, HotkeyPlaces DEF Typed, own
<1>2. \A d \in Cmd : pc'[d] = "perform" => pc[d] = "perform"
  BY HotkeyQuiet DEF Typed
<1>3. \A d \in Cmd : Calls(d)' = Calls(d)
  BY <1>1 DEF Calls
<1>4. OwnTypeOK'
  BY <1>2, <1>3 DEF Typed, OwnTypeOK, own, screens, loop
<1>5. Looked'
  BY <1>2, <1>3 DEF Typed, Looked, own, loop
<1> QED
  BY <1>1, <1>4, <1>5 DEF Typed

(* A step of the system is one of TargetSelect's commands, one of another  *)
(* command, or a machine that draws.                                       *)
LEMMA AllSteps ==
  ASSUME [AllNext]_allVars
  PROVE  \/ [Next]_vars /\ UNCHANGED own
         \/ \E c \in Cmd : Start(c) \/ Perform(c) \/ Expire(c)
         \/ \E p \in Port : Redraw(p)
BY DEF AllNext, HotkeyStep, OwnStep, allVars

(* Every step keeps the types and the places.                              *)
LEMMA TypedStep == Typed /\ [AllNext]_allVars => Typed'
<1> SUFFICES ASSUME Typed, [AllNext]_allVars PROVE Typed'
  OBVIOUS
<1>1. disturbed' \in SUBSET Cmd
  BY DEF AllNext, Watch, allVars, Typed, OwnTypeOK
<1> QED
  BY <1>1, AllSteps, HotkeyKeepsTyped, OwnTypes, RedrawTypes

(* They hold when no command has begun,                                    *)
LEMMA TypedInit == AllInit => Typed
<1> SUFFICES ASSUME AllInit PROVE Typed
  OBVIOUS
<1>1. Init /\ OwnInit
  BY DEF AllInit
<1>2. TypeOK
  <2>1. recent \in Seq(Key) /\ Len(recent) <= 3
    BY <1>1 DEF Init
  <2>2. failed \in [Cmd -> SUBSET (Key \cup {"enable", "disable", "unlock"})]
    BY <1>1 DEF Init
  <2>3. presser \in [Key -> Cmd \cup {NoCmd}] /\ down \in SUBSET Key
    BY <1>1 DEF Init
  <2>4. /\ tap \in [Cmd -> 1 .. 4] /\ pc \in [Cmd -> Label]
        /\ rec \in [Cmd -> {"unknown", "selected_unverified", "verified", "verify_failed"}]
    BY <1>1 DEF Init, Label
  <2>5. stopped \in [Cmd -> BOOLEAN] /\ clean \in [Cmd -> BOOLEAN] /\ storage \in BOOLEAN
    BY <1>1 DEF Init
  <2>6. /\ kind \in Kinds /\ port \in Port
        /\ lockFile \in Cmd \cup {NoCmd} /\ saved \in Port \cup {NoPort}
    BY <1>1 DEF Init
  <2> QED
    BY <2>1, <2>2, <2>3, <2>4, <2>5, <2>6 DEF TypeOK
<1>3. \A c \in Cmd : pc[c] = "idle"
  BY <1>1 DEF Init
<1>4. OwnTypeOK
  BY <1>1, <1>3, PicturesAssumption DEF OwnInit, OwnTypeOK
<1>5. Placed /\ Looked
  BY <1>1, <1>3 DEF Placed, Looked, Typing, OwnInit
<1> QED
  BY <1>2, <1>4, <1>5 DEF Typed

(* and so for ever.                                                        *)
LEMMA AlwaysTyped == AllSpec => []Typed
<1>1. AllInit => Typed
  BY TypedInit
<1>2. Typed /\ [AllNext]_allVars => Typed'
  BY TypedStep
<1> QED
  BY <1>1, <1>2, PTL DEF AllSpec

(* The variables of every command, screen and observation are of their     *)
(* types, and a command that performs its program is at one of its calls.  *)
THEOREM TypeCorrect == AllSpec => []TypesOK
<1>1. Typed => TypesOK
  BY DEF Typed, TypesOK
<1> QED
  BY <1>1, AlwaysTyped, PTL

-----------------------------------------------------------------------------
(* What the steps of a kind leave alone.                                   *)

(* The names of a failed call are not keys.                                *)
LEMMA NamesAreNoKeys ==
  ASSUME NEW k \in Key PROVE k \notin {"enable", "disable", "unlock"}
BY KeysAssumption DEF Key

(* A command with a program moves itself alone, and forgets no failure.    *)
LEMMA OwnFrame ==
  ASSUME Typed, NEW c \in Cmd, Start(c) \/ Perform(c) \/ Expire(c)
  PROVE  /\ kind[c] \notin HotkeyKind /\ pc'[c] # "idle"
         /\ \A d \in Cmd :
              /\ \/ pc'[d] = pc[d]
                 \/ d = c /\ pc[c] \in {"idle", "perform"} /\ pc'[c] \in {"perform", "returned"}
              /\ \A x \in {"enable", "disable", "unlock"} : x \in failed[d] => x \in failed'[d]
<1> DEFINE Goal ==
      /\ kind[c] \notin HotkeyKind /\ pc'[c] # "idle"
      /\ \A d \in Cmd :
           /\ \/ pc'[d] = pc[d]
              \/ d = c /\ pc[c] \in {"idle", "perform"} /\ pc'[c] \in {"perform", "returned"}
           /\ \A x \in {"enable", "disable", "unlock"} : x \in failed[d] => x \in failed'[d]
<1>0. /\ pc \in [Cmd -> Label] /\ step \in [Cmd -> 1 .. 9]
      /\ failed \in [Cmd -> SUBSET (Key \cup {"enable", "disable", "unlock"})]
  BY DEF Typed, TypeOK, OwnTypeOK
<1>a. ASSUME pc[c] = "perform", Proceeds(c), failed' = failed
      PROVE  Goal
  BY <1>0, <1>a, NextCall DEF Proceeds
<1>b. ASSUME pc[c] = "perform", Proceeds(c), NEW k \in Key,
             Answered(c, k) \/ Errs(c, k)
      PROVE  Goal
  <2>1. k \notin {"enable", "disable", "unlock"}
    BY NamesAreNoKeys
  <2>2. \A d \in Cmd : \A x \in {"enable", "disable", "unlock"} :
          x \in failed[d] => x \in failed'[d]
    BY <1>0, <1>b, <2>1 DEF Answered, Errs
  <2> QED
    BY <1>0, <1>b, <2>2, NextCall DEF Proceeds
<1>1. CASE Start(c)
  BY <1>1, <1>0 DEF Start, To
<1>2. CASE Press(c)
  <2>1. Operand(c) \in Key
    BY <1>2, OperandIsKey DEF Press
  <2>2. pc[c] = "perform" /\ Proceeds(c)
    BY <1>2, AdvanceOrAbort DEF Press, At
  <2>3. Answered(c, Operand(c)) \/ Errs(c, Operand(c))
    BY <1>2 DEF Press
  <2> QED
    BY <1>b, <2>1, <2>2, <2>3
<1>3. CASE Release(c)
  <2>1. Operand(c) \in Key
    BY <1>3, OperandIsKey DEF Release
  <2>2. pc[c] = "perform" /\ Proceeds(c)
    BY <1>3, AdvanceOrAbort DEF Release, At
  <2>3. Answered(c, Operand(c)) \/ Errs(c, Operand(c))
    BY <1>3 DEF Release
  <2> QED
    BY <1>b, <2>1, <2>2, <2>3
<1>4. CASE Chord(c)
  BY <1>4, <1>a, AdvanceOrAbort DEF Chord, At
<1>5. CASE Move(c)
  BY <1>5, <1>a, AdvanceOrAbort DEF Move, At
<1>6. CASE Call(c)
  BY <1>6, <1>a, AdvanceOrAbort DEF Call, At
<1>7. CASE Capture(c)
  BY <1>7, <1>a, AdvanceOrAbort DEF Capture, At
<1>8. CASE Recall(c)
  BY <1>8, <1>a, AdvanceOrAbort DEF Recall, At
<1>9. CASE Recheck(c)
  BY <1>9, <1>a, AdvanceOrAbort DEF Recheck, At
<1>10. CASE Find(c)
  BY <1>10, <1>a, AdvanceOrAbort DEF Find, At
<1>11. CASE Expire(c)
  BY <1>11, <1>0, NextCall DEF Expire
<1> QED
  BY <1>1, <1>2, <1>3, <1>4, <1>5, <1>6, <1>7, <1>8, <1>9, <1>10, <1>11 DEF
     Perform

-----------------------------------------------------------------------------
(* The lock file. *)

(* A select that types, verifies or unlocks created the lock file that is  *)
(* there.                                                                  *)
Locked ==
  \A c \in Cmd :
    kind[c] = "select" /\ (Typing(c) \/ pc[c] \in {"verify", "unlock"}) => lockFile = c

(* TargetSelect's steps keep the lock with who types.                      *)
LEMMA Locks ==
  ASSUME TypeOK, Placed, Locked, [Next]_vars
  PROVE  Locked'
<1>1. ASSUME NEW c \in Cmd, Begin(c)
      PROVE  Locked'
  <2>1. PICK l \in {"acquire", "down", "enable"} :
          /\ pc' = [pc EXCEPT ![c] = l] /\ UNCHANGED <<kind, lockFile>>
          /\ l = "down" => kind[c] = "switch"
    BY <1>1 DEF Begin, HotkeyKind, To
  <2> QED
    BY <2>1 DEF Locked, Typing, TypeOK
<1>2. ASSUME NEW c \in Cmd, Acquire(c)
      PROVE  Locked'
  BY <1>2, CommandsAssumption DEF Acquire, FileCreated, To, TypeOK, Placed,
     Locked, Typing
<1>3. ASSUME NEW c \in Cmd, GiveUp(c)
      PROVE  Locked'
  BY <1>3, CommandsAssumption DEF GiveUp, To, TypeOK, Placed, Locked, Typing
<1>4. ASSUME NEW c \in Cmd, EnableStorage(c)
      PROVE  Locked'
  <2>1. PICK l \in {"onWait", "offWait", "returned", "disableAgain"} :
          pc' = [pc EXCEPT ![c] = l] /\ UNCHANGED <<kind, lockFile>>
    BY <1>4 DEF EnableStorage, To
  <2> QED
    BY <2>1 DEF Locked, Typing, TypeOK
<1>5. ASSUME NEW c \in Cmd, OnWait(c)
      PROVE  Locked'
  BY <1>5, CommandsAssumption DEF OnWait, To, TypeOK, Placed, Locked, Typing
<1>6. ASSUME NEW c \in Cmd, DisableStorage(c)
      PROVE  Locked'
  <2>1. PICK l \in {"onWait", "offWait", "returned", "disableAgain"} :
          pc' = [pc EXCEPT ![c] = l] /\ UNCHANGED <<kind, lockFile>>
    BY <1>6 DEF DisableStorage, To
  <2> QED
    BY <2>1 DEF Locked, Typing, TypeOK
<1>7. ASSUME NEW c \in Cmd, OffWait(c)
      PROVE  Locked'
  BY <1>7, CommandsAssumption DEF OffWait, AfterRearm, To, TypeOK, Placed,
     Locked, Typing
<1>8. ASSUME NEW c \in Cmd, NudgeStreamer(c)
      PROVE  Locked'
  BY <1>8, CommandsAssumption DEF NudgeStreamer, To, TypeOK, Placed, Locked,
     Typing
<1>9. ASSUME NEW c \in Cmd, PressKey(c)
      PROVE  Locked'
  BY <1>9, CommandsAssumption DEF PressKey, Errs, Answered, Finish, To,
     TypeOK, Placed, Locked, Typing
<1>10. ASSUME NEW c \in Cmd, HoldKey(c)
      PROVE  Locked'
  BY <1>10, CommandsAssumption DEF HoldKey, To, TypeOK, Placed, Locked,
     Typing
<1>11. ASSUME NEW c \in Cmd, ReleaseKey(c)
      PROVE  Locked'
  BY <1>11, CommandsAssumption DEF ReleaseKey, Errs, Answered, Finish, To,
     TypeOK, Placed, Locked, Typing
<1>12. ASSUME NEW c \in Cmd, Gap(c)
      PROVE  Locked'
  BY <1>12, CommandsAssumption DEF Gap, Finish, To, TypeOK, Placed, Locked,
     Typing
<1>13. ASSUME NEW c \in Cmd, Settle(c)
      PROVE  Locked'
  BY <1>13, CommandsAssumption DEF Settle, Finish, To, TypeOK, Placed,
     Locked, Typing
<1>14. ASSUME NEW c \in Cmd, Verify(c)
      PROVE  Locked'
  BY <1>14, CommandsAssumption DEF Verify, To, TypeOK, Placed, Locked,
     Typing
<1>15. ASSUME NEW c \in Cmd, Unlock(c)
      PROVE  Locked'
  <2>1. /\ kind[c] = "select" /\ lockFile = c /\ lockFile' \in {NoCmd, c} /\ kind' = kind
        /\ \A d \in Cmd : d # c => pc'[d] = pc[d]
    BY <1>15 DEF Unlock, AfterUnlock, To, TypeOK, Placed, Locked
  <2>2. pc'[c] \in {"save", "returned"}
    BY <1>15 DEF Unlock, AfterUnlock, To, TypeOK
  <2> QED
    BY <2>1, <2>2 DEF Locked, Typing
<1>16. ASSUME NEW c \in Cmd, Save(c)
      PROVE  Locked'
  BY <1>16, CommandsAssumption DEF Save, To, TypeOK, Placed, Locked, Typing
<1>17. ASSUME NEW c \in Cmd, Stop(c)
      PROVE  Locked'
  BY <1>17, CommandsAssumption DEF Stop, To, TypeOK, Placed, Locked, Typing
<1>18. ASSUME NEW c \in Cmd, Crash(c)
      PROVE  Locked'
  BY <1>18, CommandsAssumption DEF Crash, To, TypeOK, Placed, Locked, Typing
<1>19. CASE UNCHANGED vars
  BY <1>19, CommandsAssumption DEF vars, TypeOK, Placed, Locked, Typing
<1> QED
  BY <1>1, <1>2, <1>3, <1>4, <1>5, <1>6, <1>7, <1>8, <1>9, <1>10, <1>11,
     <1>12, <1>13, <1>14, <1>15, <1>16, <1>17, <1>18, <1>19 DEF Next, Step

(* A lock file belongs to a select that is past acquire, and outlives its  *)
(* unlock only by an error.                                                *)
Freed ==
  \A c \in Cmd : lockFile = c =>
    /\ kind[c] = "select" /\ pc[c] \notin {"idle", "acquire"}
    /\ pc[c] \in {"save", "returned"} => "unlock" \in failed[c]

(* The commands that select keep Freed.                                    *)
LEMMA Frees ==
  ASSUME TypeOK, Placed, Locked, Freed, [Next]_vars
  PROVE  Freed'
<1>1. ASSUME NEW c \in Cmd, Begin(c)
      PROVE  Freed'
  <2>1. PICK l \in {"acquire", "down", "enable"} :
          /\ pc' = [pc EXCEPT ![c] = l] /\ UNCHANGED <<kind, lockFile, failed>>
          /\ pc[c] = "idle"
    BY <1>1 DEF Begin, HotkeyKind, To
  <2> QED
    BY <2>1 DEF Freed, TypeOK
<1>2. ASSUME NEW c \in Cmd, Acquire(c)
      PROVE  Freed'
  BY <1>2, CommandsAssumption DEF Acquire, FileCreated, To, TypeOK, Placed,
     Freed, Typing
<1>3. ASSUME NEW c \in Cmd, GiveUp(c)
      PROVE  Freed'
  BY <1>3, CommandsAssumption DEF GiveUp, To, TypeOK, Placed, Freed, Typing
<1>4. ASSUME NEW c \in Cmd, EnableStorage(c)
      PROVE  Freed'
  <2>1. PICK l \in {"onWait", "returned"} : pc' = [pc EXCEPT ![c] = l]
    BY <1>4 DEF EnableStorage, To
  <2>2. kind[c] # "select" /\ UNCHANGED <<kind, lockFile>>
    BY <1>4 DEF EnableStorage, Placed
  <2>3. \A d \in Cmd \ {c} : failed'[d] = failed[d]
    BY <1>4 DEF EnableStorage, Errs, TypeOK
  <2> QED
    BY <2>1, <2>2, <2>3 DEF TypeOK, Freed
<1>5. ASSUME NEW c \in Cmd, OnWait(c)
      PROVE  Freed'
  BY <1>5, CommandsAssumption DEF OnWait, To, TypeOK, Placed, Freed, Typing
<1>6. ASSUME NEW c \in Cmd, DisableStorage(c)
      PROVE  Freed'
  <2>1. PICK l \in {"offWait", "returned", "disableAgain"} :
          pc' = [pc EXCEPT ![c] = l] /\ UNCHANGED <<kind, lockFile>>
    BY <1>6 DEF DisableStorage, To
  <2>2. kind[c] # "select"
    BY <1>6 DEF DisableStorage, Placed
  <2>3. \A d \in Cmd : d # c => failed'[d] = failed[d]
    BY <1>6 DEF DisableStorage, Answered, Errs, TypeOK
  <2> QED
    BY <2>1, <2>2, <2>3 DEF Freed, TypeOK
<1>7. ASSUME NEW c \in Cmd, OffWait(c)
      PROVE  Freed'
  BY <1>7, CommandsAssumption DEF OffWait, AfterRearm, To, TypeOK, Placed,
     Freed, Typing
<1>8. ASSUME NEW c \in Cmd, NudgeStreamer(c)
      PROVE  Freed'
  BY <1>8, CommandsAssumption DEF NudgeStreamer, To, TypeOK, Placed, Freed,
     Typing
<1>9. ASSUME NEW c \in Cmd, PressKey(c)
      PROVE  Freed'
  <2>1. \E l \in {"hold", "gap", "upAgain", "unlock", "returned"} :
          /\ pc' = [pc EXCEPT ![c] = l] /\ UNCHANGED <<kind, lockFile>>
          /\ l = "returned" => kind[c] # "select"
    BY <1>9 DEF PressKey, To, Finish
  <2>2. Tapped(c) # "unlock"
    BY TappedIsKey, NamesAreNoKeys
  <2>3. \A d \in Cmd : "unlock" \in failed[d] => "unlock" \in failed'[d]
    BY <1>9, <2>2 DEF PressKey, Answered, Errs, TypeOK
  <2> QED
    BY <2>1, <2>3 DEF Freed, TypeOK
<1>10. ASSUME NEW c \in Cmd, HoldKey(c)
      PROVE  Freed'
  BY <1>10, CommandsAssumption DEF HoldKey, To, TypeOK, Placed, Freed,
     Typing
<1>11. ASSUME NEW c \in Cmd, ReleaseKey(c)
      PROVE  Freed'
  <2>1. \E l \in {"hold", "gap", "upAgain", "unlock", "returned"} :
          /\ pc' = [pc EXCEPT ![c] = l] /\ UNCHANGED <<kind, lockFile>>
          /\ l = "returned" => kind[c] # "select"
    BY <1>11 DEF ReleaseKey, To, Finish
  <2>2. Tapped(c) # "unlock"
    BY TappedIsKey, NamesAreNoKeys
  <2>3. \A d \in Cmd : "unlock" \in failed[d] => "unlock" \in failed'[d]
    BY <1>11, <2>2 DEF ReleaseKey, Answered, Errs, TypeOK
  <2> QED
    BY <2>1, <2>3 DEF Freed, TypeOK
<1>12. ASSUME NEW c \in Cmd, Gap(c)
      PROVE  Freed'
  BY <1>12, CommandsAssumption DEF Gap, Finish, To, TypeOK, Placed, Freed,
     Typing
<1>13. ASSUME NEW c \in Cmd, Settle(c)
      PROVE  Freed'
  BY <1>13, CommandsAssumption DEF Settle, Finish, To, TypeOK, Placed,
     Freed, Typing
<1>14. ASSUME NEW c \in Cmd, Verify(c)
      PROVE  Freed'
  BY <1>14, CommandsAssumption DEF Verify, To, TypeOK, Placed, Freed, Typing
<1>15. ASSUME NEW c \in Cmd, Unlock(c)
      PROVE  Freed'
  BY <1>15, CommandsAssumption DEF Unlock, Errs, AfterUnlock, To, TypeOK,
     Placed, Freed, Typing
<1>16. ASSUME NEW c \in Cmd, Save(c)
      PROVE  Freed'
  BY <1>16, CommandsAssumption DEF Save, To, TypeOK, Placed, Freed, Typing
<1>17. ASSUME NEW c \in Cmd, Stop(c)
      PROVE  Freed'
  BY <1>17, CommandsAssumption DEF Stop, To, TypeOK, Placed, Freed, Typing
<1>18. ASSUME NEW c \in Cmd, Crash(c)
      PROVE  Freed'
  BY <1>18, CommandsAssumption DEF Crash, To, TypeOK, Placed, Freed, Typing
<1>19. CASE UNCHANGED vars
  BY <1>19, CommandsAssumption DEF vars, TypeOK, Placed, Freed, Typing
<1> QED
  BY <1>1, <1>2, <1>3, <1>4, <1>5, <1>6, <1>7, <1>8, <1>9, <1>10, <1>11,
     <1>12, <1>13, <1>14, <1>15, <1>16, <1>17, <1>18, <1>19 DEF Next, Step

(* The other commands do not look for it.                                  *)
LEMMA OwnLocks ==
  ASSUME Typed, Locked, Freed, NEW c \in Cmd, Start(c) \/ Perform(c) \/ Expire(c), UNCHANGED rest
  PROVE  Locked' /\ Freed'
<1>1. /\ kind[c] \notin HotkeyKind /\ kind' = kind /\ lockFile' = lockFile
      /\ \A d \in Cmd : d # c => pc'[d] = pc[d]
      /\ \A d \in Cmd : "unlock" \in failed[d] => "unlock" \in failed'[d]
  BY OwnFrame DEF rest
<1> QED
  BY <1>1 DEF Locked, Freed, Typing, HotkeyKind

(* Every step keeps Locked and Freed.                                      *)
LEMMA LockStep ==
  ASSUME Typed, Locked, Freed, [AllNext]_allVars
  PROVE  Locked' /\ Freed'
<1>1. disturbed' \in SUBSET Cmd
  BY DEF AllNext, Watch, allVars, Typed, OwnTypeOK
<1>2. CASE [Next]_vars
  BY <1>2, Locks, Frees DEF Typed
<1>3. ASSUME NEW c \in Cmd, Start(c) \/ Perform(c) \/ Expire(c) PROVE Locked' /\ Freed'
  BY <1>1, <1>3, OwnTypes, OwnLocks
<1>4. ASSUME NEW p \in Port, Redraw(p) PROVE Locked' /\ Freed'
  <2>1. [Next]_vars
    BY <1>1, <1>4, RedrawTypes
  <2> QED
    BY <1>2, <2>1
<1> QED
  BY <1>2, <1>3, <1>4, AllSteps

(* Locked and Freed hold for ever.                                         *)
LEMMA AlwaysLocked == AllSpec => [](Typed /\ Locked /\ Freed)
<1>1. AllInit => Typed /\ Locked /\ Freed
  BY TypedInit, CommandsAssumption DEF AllInit, Init, Locked, Freed, Typing
<1>2. Typed /\ Locked /\ Freed /\ [AllNext]_allVars => (Typed /\ Locked /\ Freed)'
  BY TypedStep, LockStep
<1> QED
  BY <1>1, <1>2, PTL DEF AllSpec

(* Two selections never type on one device: the lock file, created         *)
(* exclusively, is with the one that types.                                *)
THEOREM SelectionsNeverOverlap == AllSpec => []OneSelection
<1>1. Locked => OneSelection
  BY DEF Locked, OneSelection
<1> QED
  BY <1>1, AlwaysLocked, PTL

-----------------------------------------------------------------------------
(* Turning the switch. *)

(* The switch has seen n keys of the hotkey.                               *)
HasSeen(c, n) ==
  /\ n = 1 => Len(recent) >= 1 /\ recent[Len(recent)] = Control
  /\ n = 2 => /\ Len(recent) >= 2 /\ recent[Len(recent)] = Control
              /\ recent[Len(recent) - 1] = Control
  /\ n = 3 => recent = <<Control, Control, PortOf[c]>>
  /\ n = 4 => port = PortOf[c]

(* Where the keyboard and the switch are while a select types its hotkey.  *)
Turning(c) ==
  /\ pc[c] \in {"idle", "acquire"} => tap[c] = 1
  /\ kind[c] = "select" /\ Typing(c) => rec[c] # "verified"
  /\ kind[c] = "select" /\ clean[c] =>
       /\ pc[c] = "down" => down = {} /\ HasSeen(c, tap[c] - 1)
       /\ pc[c] \in {"hold", "up"} => down = {Tapped(c)} /\ HasSeen(c, tap[c])
       /\ pc[c] = "gap" => down = {} /\ HasSeen(c, tap[c])
       /\ pc[c] \in {"settle", "verify"} => port = PortOf[c]
       /\ pc[c] = "unlock" /\ rec[c] = "verified" => port = PortOf[c]
Turned == (\E d \in Cmd : Unlocked(d)) \/ \A c \in Cmd : Turning(c)

(* Arithmetic, in the form the provers find it.                            *)
LEMMA ExactlyThree ==
  ASSUME NEW S, NEW s \in Seq(S), Len(s) >= 3, Len(s) <= 3 PROVE Len(s) = 3
<1>1. PICK n \in Nat : n = Len(s)
  BY LenProperties
<1>2. n >= 3 /\ n <= 3
  BY <1>1
<1>3. n = 3
  BY <1>2, SMT
<1> QED
  BY <1>1, <1>3, Zenon

(* What the switch remembers when it sees a fourth key.                    *)
LEMMA LastThreeOf ==
  ASSUME NEW S, NEW a \in Seq(S)
  PROVE  /\ Len(a) <= 3 => LastThree(a) = a
         /\ Len(a) >= 4 /\ Len(a) <= 4 =>
              /\ LastThree(a) \in Seq(S) /\ Len(LastThree(a)) >= 3
              /\ LastThree(a)[1] = a[2] /\ LastThree(a)[2] = a[3]
              /\ LastThree(a)[3] = a[4]
<1>1. CASE Len(a) >= 4 /\ Len(a) <= 4
  <2>1. PICK n \in Nat : n = Len(a)
    BY LenProperties
  <2>2. n = 4
    <3>1. n >= 4 /\ n <= 4
      BY <1>1, <2>1
    <3> QED
      BY <3>1, SMT
  <2>3. Len(a) > 3 /\ Len(a) - 2 = 2 /\ Len(a) = 4
    BY <2>1, <2>2
  <2>4. LastThree(a) = SubSeq(a, 2, 4)
    BY <2>3, Zenon DEF LastThree
  <2>5. \A i \in 2 .. 4 : a[i] \in S
    BY <1>1
  <2>6. /\ SubSeq(a, 2, 4) \in Seq(S) /\ Len(SubSeq(a, 2, 4)) = 3
        /\ \A i \in 1 .. 3 : SubSeq(a, 2, 4)[i] = a[2 + i - 1]
    BY <2>5, SubSeqProperties
  <2>7. /\ SubSeq(a, 2, 4)[1] = a[2] /\ SubSeq(a, 2, 4)[2] = a[3]
        /\ SubSeq(a, 2, 4)[3] = a[4]
    BY <2>6
  <2>8. Len(SubSeq(a, 2, 4)) >= 3
    BY <2>6
  <2> QED
    BY <1>1, <2>4, <2>6, <2>7, <2>8
<1>2. CASE Len(a) <= 3
  BY <1>2 DEF LastThree
<1> QED
  BY <1>1, <1>2

(* The last keys the switch saw, after one more.                           *)
LEMMA NewKeyRemembered ==
  ASSUME recent \in Seq(Key), Len(recent) <= 3, NEW k \in Key,
         recent' = LastThree(Append(recent, k))
  PROVE  /\ recent' \in Seq(Key) /\ Len(recent') <= 3
         /\ Len(recent') >= 1 /\ recent'[Len(recent')] = k
         /\ Len(recent) >= 1 =>
              Len(recent') >= 2 /\ recent'[Len(recent') - 1] = recent[Len(recent)]
         /\ Len(recent) >= 2 =>
              Len(recent') >= 3 /\ recent'[Len(recent') - 2] = recent[Len(recent) - 1]
<1> DEFINE a == Append(recent, k)
<1>1. /\ a \in Seq(Key) /\ Len(a) = Len(recent) + 1 /\ Len(recent) \in Nat
      /\ \A i \in 1 .. Len(recent) : a[i] = recent[i]
      /\ a[Len(recent) + 1] = k
  OBVIOUS
<1>2. recent' = LastThree(a)
  OBVIOUS
<1>3. recent' \in Seq(Key) /\ Len(recent') <= 3
  BY <1>1, <1>2, LastThreeTypes
<1> HIDE DEF a
<1>4. CASE Len(recent) >= 3
  <2>1. PICK n \in Nat : n = Len(recent)
    BY <1>1
  <2>2. n = 3
    <3>1. n >= 3 /\ n <= 3
      BY <1>4, <2>1
    <3> QED
      BY <3>1, SMT
  <2>3. Len(recent) = 3 /\ Len(recent) \in 1 .. 3
    BY <2>1, <2>2
  <2>4. Len(a) >= 4 /\ Len(a) <= 4
    BY <1>1, <2>3
  <2>5. a[2] = recent[2] /\ a[3] = recent[3] /\ a[4] = k
    BY <1>1, <2>3
  <2>6. /\ Len(recent') >= 3
        /\ recent'[1] = a[2] /\ recent'[2] = a[3] /\ recent'[3] = a[4]
    BY <1>1, <1>2, <2>4, LastThreeOf
  <2>7. Len(recent') = 3
    BY <1>3, <2>6, ExactlyThree
  <2> QED
    BY <1>3, <2>3, <2>5, <2>6, <2>7
<1>5. CASE Len(recent) < 3
  <2>1. Len(a) <= 3
    BY <1>1, <1>5
  <2>2. recent' = a
    BY <1>1, <1>2, <2>1, LastThreeOf
  <2> QED
    BY <1>1, <1>3, <1>5, <2>2
<1> QED
  BY <1>1, <1>4, <1>5

(* A key of the hotkey that was up, pressed, is the next the switch sees.  *)
LEMMA KeySeen ==
  ASSUME TypeOK, NEW c \in Cmd, NEW n \in 1 .. 4, NEW k, k = Hotkey(c)[n],
         k \notin down, HasSeen(c, n - 1), PressReaches(c, k)
  PROVE  HasSeen(c, n)' /\ down' = down \cup {k}
<1>1. /\ PortOf[c] \in Port
      /\ k \in Key /\ k \notin Button
      /\ (n = 1 \/ n = 2) => k = Control
      /\ n = 3 => k = PortOf[c]
      /\ n = 4 => k = Enter
  BY CommandsAssumption, KeysAssumption DEF Hotkey, Key
<1>2. /\ recent' = LastThree(Append(recent, k))
      /\ port' = IF k = Enter /\ \E p \in Port : recent = <<Control, Control, p>>
                 THEN recent[3] ELSE port
      /\ down' = down \cup {k}
  BY <1>1 DEF PressReaches
<1>3. recent \in Seq(Key) /\ Len(recent) <= 3
  BY DEF TypeOK
<1>4. /\ recent' \in Seq(Key) /\ Len(recent') <= 3
      /\ Len(recent') >= 1 /\ recent'[Len(recent')] = k
      /\ Len(recent) >= 1 =>
           Len(recent') >= 2 /\ recent'[Len(recent') - 1] = recent[Len(recent)]
      /\ Len(recent) >= 2 =>
           Len(recent') >= 3 /\ recent'[Len(recent') - 2] = recent[Len(recent) - 1]
  BY <1>1, <1>2, <1>3, NewKeyRemembered
<1>5. n = 1 => Len(recent') >= 1 /\ recent'[Len(recent')] = Control
  BY <1>1, <1>4
<1>6. ASSUME n = 2
      PROVE  /\ Len(recent') >= 2 /\ recent'[Len(recent')] = Control
             /\ recent'[Len(recent') - 1] = Control
  <2>1. Len(recent) >= 1 /\ recent[Len(recent)] = Control
    BY <1>6 DEF HasSeen
  <2> QED
    BY <1>1, <1>4, <1>6, <2>1
<1>7. ASSUME n = 3
      PROVE  recent' = <<Control, Control, PortOf[c]>>
  <2>1. Len(recent) >= 2 /\ recent[Len(recent)] = Control /\ recent[Len(recent) - 1] = Control
    BY <1>7 DEF HasSeen
  <2>2. Len(recent) >= 1
    BY <1>3, <2>1, LenProperties
  <2>3. Len(recent') = 3
    BY <1>4, <2>1, ExactlyThree
  <2>4. /\ recent'[3] = PortOf[c]
        /\ recent'[3 - 1] = Control
        /\ recent'[3 - 2] = Control
    BY <1>1, <1>4, <1>7, <2>1, <2>2, <2>3, Zenon
  <2>5. recent'[3] = PortOf[c] /\ recent'[2] = Control /\ recent'[1] = Control
    BY <2>4
  <2> QED
    BY <1>4, <2>3, <2>5
<1>8. ASSUME n = 4
      PROVE  port' = PortOf[c]
  <2>1. recent = <<Control, Control, PortOf[c]>>
    BY <1>8 DEF HasSeen
  <2>2. recent[3] = PortOf[c]
    BY <2>1
  <2>3. port' = recent[3]
    BY <1>1, <1>2, <1>8, <2>1
  <2> QED
    BY <2>2, <2>3
<1>9. HasSeen(c, n)'
  BY <1>5, <1>6, <1>7, <1>8, Zenon DEF HasSeen
<1> QED
  BY <1>2, <1>9

(* What is not touched stays as it was.                                    *)
LEMMA TurningStays ==
  ASSUME NEW d \in Cmd, Turning(d), kind' = kind, UNCHANGED keyboard,
         pc'[d] = pc[d], tap'[d] = tap[d], rec'[d] = rec[d], clean'[d] = clean[d]
  PROVE  Turning(d)'
<1>1. Tapped(d)' = Tapped(d) /\ Typing(d)' = Typing(d)
  BY DEF Tapped, Hotkey, Typing
<1>2. HasSeen(d, tap[d] - 1)' = HasSeen(d, tap[d] - 1) /\ HasSeen(d, tap[d])' = HasSeen(d, tap[d])
  BY DEF HasSeen, keyboard
<1> QED
  BY <1>1, <1>2 DEF Turning, keyboard

(* A command that does not hold the device as a select has nothing to keep. *)
LEMMA TurningElsewhere ==
  ASSUME NEW d \in Cmd, kind[d] # "select" \/ ~ (Typing(d) \/ pc[d] \in {"verify", "unlock"}),
         Turning(d), kind' = kind, pc'[d] = pc[d], tap'[d] = tap[d]
  PROVE  Turning(d)'
BY DEF Turning, Typing

(* As long as no command drops the lock, the commands that select keep Turning.*)
LEMMA Turns ==
  ASSUME TypeOK, Placed, Locked, \A d \in Cmd : Turning(d), [Next]_vars,
         \A d \in Cmd : ~ Unlocked(d)'
  PROVE  \A d \in Cmd : Turning(d)'
<1>0. /\ pc \in [Cmd -> Label] /\ tap \in [Cmd -> 1 .. 4] /\ rec \in [Cmd -> {"unknown", "selected_unverified", "verified", "verify_failed"}]
      /\ clean \in [Cmd -> BOOLEAN]
  BY DEF TypeOK
<1>a. ASSUME NEW c \in Cmd, UNCHANGED <<kind, keyboard>>, Turning(c)',
             \A d \in Cmd \ {c} : /\ pc'[d] = pc[d] /\ tap'[d] = tap[d]
                                  /\ rec'[d] = rec[d] /\ clean'[d] = clean[d]
      PROVE  \A d \in Cmd : Turning(d)'
  BY <1>a, TurningStays
<1>b. ASSUME NEW c \in Cmd, kind[c] = "select", Typing(c), kind' = kind, Turning(c)',
             \A d \in Cmd \ {c} : pc'[d] = pc[d] /\ tap'[d] = tap[d]
      PROVE  \A d \in Cmd : Turning(d)'
  <2>1. \A d \in Cmd : kind[d] = "select" /\ (Typing(d) \/ pc[d] \in {"verify", "unlock"}) => d = c
    BY <1>b DEF Locked
  <2> QED
    BY <1>b, <2>1, TurningElsewhere
<1>1. ASSUME NEW c \in Cmd, Begin(c)
      PROVE  \A d \in Cmd : Turning(d)'
  <2>1. PICK l \in {"acquire", "down", "enable"} :
          pc' = [pc EXCEPT ![c] = l] /\ (l = "down" => kind[c] = "switch") /\ pc[c] = "idle"
    BY <1>1 DEF Begin, HotkeyKind, To
  <2>2. UNCHANGED <<kind, tap, rec, keyboard, clean>>
    BY <1>1 DEF Begin
  <2>3. Turning(c)'
    BY <1>0, <2>1, <2>2 DEF Turning, Typing
  <2>4. \A d \in Cmd \ {c} : pc'[d] = pc[d]
    BY <1>0, <2>1
  <2> QED
    BY <1>a, <2>2, <2>3, <2>4
<1>2. ASSUME NEW c \in Cmd, Acquire(c)
      PROVE  \A d \in Cmd : Turning(d)'
  <2>1. /\ pc[c] = "acquire" /\ pc' = [pc EXCEPT ![c] = "down"]
        /\ clean' = [clean EXCEPT ![c] = down = {}]
        /\ rec' = [rec EXCEPT ![c] = "selected_unverified"]
        /\ UNCHANGED <<kind, tap, keyboard>>
    BY <1>2 DEF Acquire, To
  <2>2. tap[c] = 1 /\ pc'[c] = "down" /\ rec'[c] = "selected_unverified" /\ clean'[c] = (down = {})
    BY <1>0, <2>1 DEF Turning
  <2>3. HasSeen(c, tap[c] - 1)'
    BY <2>1, <2>2 DEF HasSeen
  <2>4. Turning(c)'
    BY <2>1, <2>2, <2>3 DEF Turning, keyboard
  <2>5. \A d \in Cmd \ {c} : pc'[d] = pc[d] /\ rec'[d] = rec[d] /\ clean'[d] = clean[d]
    BY <1>0, <2>1
  <2> QED
    BY <1>a, <2>1, <2>4, <2>5
<1>3. ASSUME NEW c \in Cmd, GiveUp(c)
      PROVE  \A d \in Cmd : Turning(d)'
  <2>1. Turning(c)'
    BY <1>3, <1>0 DEF GiveUp, To, Turning, Typing, HasSeen, Tapped, keyboard
  <2>2. \A d \in Cmd \ {c} : /\ pc'[d] = pc[d] /\ tap'[d] = tap[d]
                             /\ rec'[d] = rec[d] /\ clean'[d] = clean[d]
    BY <1>3, <1>0 DEF GiveUp, To
  <2> QED
    BY <1>3, <1>a, <2>1, <2>2 DEF GiveUp
<1>4. ASSUME NEW c \in Cmd, EnableStorage(c)
      PROVE  \A d \in Cmd : Turning(d)'
  <2>1. Turning(c)'
    BY <1>4, <1>0 DEF EnableStorage, To, Turning, Typing, HasSeen, Tapped, keyboard
  <2>2. \A d \in Cmd \ {c} : /\ pc'[d] = pc[d] /\ tap'[d] = tap[d]
                             /\ rec'[d] = rec[d] /\ clean'[d] = clean[d]
    BY <1>4, <1>0 DEF EnableStorage, To
  <2> QED
    BY <1>4, <1>a, <2>1, <2>2 DEF EnableStorage
<1>5. ASSUME NEW c \in Cmd, OnWait(c)
      PROVE  \A d \in Cmd : Turning(d)'
  <2>1. Turning(c)'
    BY <1>5, <1>0 DEF OnWait, To, Turning, Typing, HasSeen, Tapped, keyboard
  <2>2. \A d \in Cmd \ {c} : /\ pc'[d] = pc[d] /\ tap'[d] = tap[d]
                             /\ rec'[d] = rec[d] /\ clean'[d] = clean[d]
    BY <1>5, <1>0 DEF OnWait, To
  <2> QED
    BY <1>5, <1>a, <2>1, <2>2 DEF OnWait
<1>6. ASSUME NEW c \in Cmd, DisableStorage(c)
      PROVE  \A d \in Cmd : Turning(d)'
  <2>1. Turning(c)'
    BY <1>6, <1>0 DEF DisableStorage, To, Turning, Typing, HasSeen, Tapped, keyboard
  <2>2. \A d \in Cmd \ {c} : /\ pc'[d] = pc[d] /\ tap'[d] = tap[d]
                             /\ rec'[d] = rec[d] /\ clean'[d] = clean[d]
    BY <1>6, <1>0 DEF DisableStorage, To
  <2> QED
    BY <1>6, <1>a, <2>1, <2>2 DEF DisableStorage
<1>7. ASSUME NEW c \in Cmd, OffWait(c)
      PROVE  \A d \in Cmd : Turning(d)'
  <2>1. PICK l \in {"returned", "nudge"} : pc' = [pc EXCEPT ![c] = l] /\ pc[c] = "offWait"
    BY <1>7 DEF OffWait, AfterRearm, To
  <2>2. UNCHANGED <<kind, tap, rec, keyboard, clean>>
    BY <1>7 DEF OffWait
  <2>3. Turning(c)'
    BY <1>0, <2>1, <2>2 DEF Turning, Typing
  <2>4. \A d \in Cmd \ {c} : pc'[d] = pc[d]
    BY <1>0, <2>1
  <2> QED
    BY <1>a, <2>2, <2>3, <2>4
<1>8. ASSUME NEW c \in Cmd, NudgeStreamer(c)
      PROVE  \A d \in Cmd : Turning(d)'
  <2>1. PICK l \in {"returned", "down"} : pc' = [pc EXCEPT ![c] = l] /\ pc[c] = "nudge"
    BY <1>8 DEF NudgeStreamer, To
  <2>2. UNCHANGED <<kind, tap, rec, keyboard, clean>> /\ kind[c] = "semantic"
    BY <1>8 DEF NudgeStreamer, Placed
  <2>3. Turning(c)'
    BY <1>0, <2>1, <2>2 DEF Turning, Typing
  <2>4. \A d \in Cmd \ {c} : pc'[d] = pc[d]
    BY <1>0, <2>1
  <2> QED
    BY <1>a, <2>2, <2>3, <2>4
<1>9. ASSUME NEW c \in Cmd, PressKey(c)
      PROVE  \A d \in Cmd : Turning(d)'
  <2>1. kind[c] = "select" /\ Typing(c) /\ kind' = kind
    <3>1. Typing(c) /\ UNCHANGED kind /\ pc'[c] # "idle"
      BY <1>9, <1>0 DEF PressKey, Typing, To, Finish
    <3>2. kind[c] \in {"select", "switch", "semantic"}
      BY <3>1 DEF Placed
    <3> QED
      BY <3>1, <3>2 DEF Unlocked
  <2>2. /\ UNCHANGED <<tap, rec, clean>> /\ pc[c] = "down"
        /\ \A d \in Cmd \ {c} : pc'[d] = pc[d]
    BY <1>9, <1>0 DEF PressKey, To, Finish
  <2>3. Tapped(c)' = Tapped(c) /\ Tapped(c) = Hotkey(c)[tap[c]] /\ tap[c] \in 1 .. 4
    BY <1>0, <2>2 DEF Tapped, Hotkey
  <2>4. ASSUME pc'[c] = "hold", PressReaches(c, Tapped(c)) PROVE Turning(c)'
    <3>1. ASSUME clean[c] PROVE down' = {Tapped(c)} /\ HasSeen(c, tap[c])'
      <4>1. down = {} /\ HasSeen(c, tap[c] - 1)
        BY <2>1, <2>2, <3>1 DEF Turning
      <4>2. PICK n \in 1 .. 4 : n = tap[c] /\ n = tap'[c]
        BY <2>2, <2>3
      <4>3. Tapped(c) = Hotkey(c)[n] /\ HasSeen(c, n - 1) /\ PressReaches(c, Hotkey(c)[n])
        BY <2>3, <2>4, <4>1, <4>2
      <4>4. HasSeen(c, n)' /\ down' = down \cup {Hotkey(c)[n]}
        BY <4>1, <4>3, KeySeen
      <4> QED
        BY <4>1, <4>2, <4>3, <4>4 DEF HasSeen
    <3> QED
      BY <2>1, <2>2, <2>3, <2>4, <3>1 DEF Turning, Typing
  <2>5. ASSUME pc'[c] = "unlock" PROVE Turning(c)'
    BY <2>1, <2>2, <2>5 DEF Turning, Typing
  <2>6. Turning(c)'
    BY <1>9, <1>0, <2>1, <2>4, <2>5 DEF PressKey, To, Finish
  <2> QED
    BY <1>b, <2>1, <2>2, <2>6
<1>10. ASSUME NEW c \in Cmd, HoldKey(c)
      PROVE  \A d \in Cmd : Turning(d)'
  <2>1. Turning(c)'
    BY <1>10, <1>0 DEF HoldKey, To, Turning, Typing, HasSeen, Tapped, keyboard
  <2>2. \A d \in Cmd \ {c} : /\ pc'[d] = pc[d] /\ tap'[d] = tap[d]
                             /\ rec'[d] = rec[d] /\ clean'[d] = clean[d]
    BY <1>10, <1>0 DEF HoldKey, To
  <2> QED
    BY <1>10, <1>a, <2>1, <2>2 DEF HoldKey
<1>11. ASSUME NEW c \in Cmd, ReleaseKey(c)
      PROVE  \A d \in Cmd : Turning(d)'
  <2>1. kind[c] = "select" /\ Typing(c) /\ kind' = kind
    <3>1. Typing(c) /\ UNCHANGED kind /\ pc'[c] # "idle"
      BY <1>11, <1>0 DEF ReleaseKey, Typing, To, Finish
    <3>2. kind[c] \in {"select", "switch", "semantic"}
      BY <3>1 DEF Placed
    <3> QED
      BY <3>1, <3>2 DEF Unlocked
  <2>2. /\ UNCHANGED <<tap, rec, clean>> /\ pc[c] \in {"up", "upAgain", "abandon"}
        /\ \A d \in Cmd \ {c} : pc'[d] = pc[d]
    BY <1>11, <1>0 DEF ReleaseKey, To, Finish
  <2>4. ASSUME pc'[c] = "gap", ReleaseReaches(Tapped(c)), pc[c] = "up" PROVE Turning(c)'
    <3>1. ASSUME clean[c] PROVE down' = {} /\ HasSeen(c, tap[c])'
      <4>1. down = {Tapped(c)} /\ HasSeen(c, tap[c])
        BY <2>1, <2>4, <3>1 DEF Turning
      <4>2. HasSeen(c, tap[c])' = HasSeen(c, tap[c])
        BY <2>2, <2>4 DEF HasSeen, ReleaseReaches
      <4> QED
        BY <2>4, <4>1, <4>2 DEF ReleaseReaches
    <3> QED
      BY <2>1, <2>2, <2>4, <3>1 DEF Turning, Typing
  <2>5. ASSUME pc'[c] \in {"unlock", "upAgain"} PROVE Turning(c)'
    BY <2>1, <2>2, <2>5 DEF Turning, Typing
  <2>6. Turning(c)'
    BY <1>11, <1>0, <2>1, <2>4, <2>5 DEF ReleaseKey, To, Finish
  <2> QED
    BY <1>b, <2>1, <2>2, <2>6
<1>12. ASSUME NEW c \in Cmd, Gap(c)
      PROVE  \A d \in Cmd : Turning(d)'
  <2>1. Turning(c)'
    BY <1>12, <1>0 DEF Gap, Finish, To, Turning, Typing, HasSeen, Tapped, keyboard
  <2>2. \A d \in Cmd \ {c} : /\ pc'[d] = pc[d] /\ tap'[d] = tap[d]
                             /\ rec'[d] = rec[d] /\ clean'[d] = clean[d]
    BY <1>12, <1>0 DEF Gap, Finish, To
  <2> QED
    BY <1>12, <1>a, <2>1, <2>2 DEF Gap
<1>13. ASSUME NEW c \in Cmd, Settle(c)
      PROVE  \A d \in Cmd : Turning(d)'
  <2>1. Turning(c)'
    BY <1>13, <1>0 DEF Settle, Finish, To, Turning, Typing, HasSeen, Tapped, keyboard
  <2>2. \A d \in Cmd \ {c} : /\ pc'[d] = pc[d] /\ tap'[d] = tap[d]
                             /\ rec'[d] = rec[d] /\ clean'[d] = clean[d]
    BY <1>13, <1>0 DEF Settle, Finish, To
  <2> QED
    BY <1>13, <1>a, <2>1, <2>2 DEF Settle
<1>14. ASSUME NEW c \in Cmd, Verify(c)
      PROVE  \A d \in Cmd : Turning(d)'
  <2>1. Turning(c)'
    BY <1>14, <1>0 DEF Verify, To, Turning, Typing, HasSeen, Tapped, keyboard
  <2>2. \A d \in Cmd \ {c} : /\ pc'[d] = pc[d] /\ tap'[d] = tap[d]
                             /\ rec'[d] = rec[d] /\ clean'[d] = clean[d]
    BY <1>14, <1>0 DEF Verify, To
  <2> QED
    BY <1>14, <1>a, <2>1, <2>2 DEF Verify
<1>15. ASSUME NEW c \in Cmd, Unlock(c)
      PROVE  \A d \in Cmd : Turning(d)'
  <2>1. Turning(c)'
    BY <1>15, <1>0 DEF Unlock, AfterUnlock, To, Turning, Typing, HasSeen, Tapped, keyboard
  <2>2. \A d \in Cmd \ {c} : /\ pc'[d] = pc[d] /\ tap'[d] = tap[d]
                             /\ rec'[d] = rec[d] /\ clean'[d] = clean[d]
    BY <1>15, <1>0 DEF Unlock, AfterUnlock, To
  <2> QED
    BY <1>15, <1>a, <2>1, <2>2 DEF Unlock
<1>16. ASSUME NEW c \in Cmd, Save(c)
      PROVE  \A d \in Cmd : Turning(d)'
  <2>1. Turning(c)'
    BY <1>16, <1>0 DEF Save, To, Turning, Typing, HasSeen, Tapped, keyboard
  <2>2. \A d \in Cmd \ {c} : /\ pc'[d] = pc[d] /\ tap'[d] = tap[d]
                             /\ rec'[d] = rec[d] /\ clean'[d] = clean[d]
    BY <1>16, <1>0 DEF Save, To
  <2> QED
    BY <1>16, <1>a, <2>1, <2>2 DEF Save
<1>17. ASSUME NEW c \in Cmd, Stop(c)
      PROVE  \A d \in Cmd : Turning(d)'
  <2>1. Turning(c)'
    BY <1>17, <1>0 DEF Stop, To, Turning, Typing, HasSeen, Tapped, keyboard
  <2>2. \A d \in Cmd \ {c} : /\ pc'[d] = pc[d] /\ tap'[d] = tap[d]
                             /\ rec'[d] = rec[d] /\ clean'[d] = clean[d]
    BY <1>17, <1>0 DEF Stop, To
  <2> QED
    BY <1>17, <1>a, <2>1, <2>2 DEF Stop
<1>18. ASSUME NEW c \in Cmd, Crash(c)
      PROVE  \A d \in Cmd : Turning(d)'
  <2>1. Turning(c)'
    BY <1>18, <1>0 DEF Crash, To, Turning, Typing, HasSeen, Tapped, keyboard
  <2>2. \A d \in Cmd \ {c} : /\ pc'[d] = pc[d] /\ tap'[d] = tap[d]
                             /\ rec'[d] = rec[d] /\ clean'[d] = clean[d]
    BY <1>18, <1>0 DEF Crash, To
  <2> QED
    BY <1>18, <1>a, <2>1, <2>2 DEF Crash
<1>19. CASE UNCHANGED vars
  BY <1>19, TurningStays DEF vars, keyboard
<1> QED
  BY <1>1, <1>2, <1>3, <1>4, <1>5, <1>6, <1>7, <1>8, <1>9, <1>10, <1>11,
     <1>12, <1>13, <1>14, <1>15, <1>16, <1>17, <1>18, <1>19 DEF Next, Step

(* Every step keeps Turned.                                                *)
LEMMA TurnedStep ==
  ASSUME Typed, Locked, Turned, [AllNext]_allVars
  PROVE  Turned'
<1>1. disturbed' \in SUBSET Cmd
  BY DEF AllNext, Watch, allVars, Typed, OwnTypeOK
<1>2. CASE [Next]_vars /\ step' = step
  <2>1. kind' = kind /\ \A d \in Cmd : pc'[d] = "idle" => pc[d] = "idle"
    BY <1>2, HotkeyPlaces, HotkeyQuiet DEF Typed
  <2>2. CASE \E d \in Cmd : Unlocked(d)'
    BY <2>2 DEF Turned
  <2>3. CASE \A d \in Cmd : ~ Unlocked(d)'
    <3>1. \A d \in Cmd : ~ Unlocked(d)
      BY <2>1, <2>3 DEF Unlocked
    <3> QED
      BY <1>2, <2>3, <3>1, Turns DEF Typed, Turned
  <2> QED
    BY <2>2, <2>3
<1>3. ASSUME NEW c \in Cmd, Start(c) \/ Perform(c) \/ Expire(c) PROVE Turned'
  <2>1. kind' = kind /\ kind[c] \notin {"select", "rearm"} /\ pc'[c] # "idle"
    BY <1>1, <1>3, OwnTypes, OwnFrame DEF rest, HotkeyKind
  <2> QED
    BY <2>1 DEF Turned, Unlocked
<1>4. ASSUME NEW p \in Port, Redraw(p) PROVE Turned'
  <2>1. [Next]_vars /\ step' = step
    BY <1>1, <1>4, RedrawTypes
  <2> QED
    BY <1>2, <2>1
<1> QED
  BY <1>2, <1>3, <1>4, AllSteps DEF own

(* A select that got the lock with no key down and was answered on every   *)
(* call reports "verified" with the switch on its port: Verify looks at no *)
(* identity, but nobody else typed, unless a command without the lock did. *)
THEOREM VerifiedIsAlwaysOnTarget == AllSpec => []VerifiedIsOnTarget
<1>1. AllInit => Turned
  BY DEF AllInit, Init, Turned, Turning, Typing
<1>2. Typed /\ Locked /\ Freed /\ Turned /\ [AllNext]_allVars => Turned'
  BY TurnedStep
<1>3. Typed /\ Turned => VerifiedIsOnTarget
  <2> SUFFICES ASSUME Typed, Turned, NEW c \in Cmd,
                      rec[c] = "verified", pc[c] = "unlock", clean[c],
                      ~ \E d \in Cmd : Unlocked(d)
               PROVE  port = PortOf[c]
    BY DEF VerifiedIsOnTarget
  <2>1. kind[c] = "select"
    BY DEF Typed, Placed
  <2> QED
    BY <2>1 DEF Turned, Turning
<1> QED
  BY <1>1, <1>2, <1>3, AlwaysLocked, PTL DEF AllSpec

-----------------------------------------------------------------------------
(* The virtual storage. *)

(* Somebody is at the storage, or a call about it failed.                  *)
Attended ==
  storage => \E c \in Cmd :
    \/ "enable" \in failed[c] \/ "disable" \in failed[c]
    \/ pc[c] \in {"onWait", "disable", "disableAgain", "dead"}

(* The commands that select keep Attended.                                 *)
LEMMA Attends ==
  ASSUME TypeOK, Placed, Attended, [Next]_vars
  PROVE  Attended'
<1>a. ASSUME NEW c \in Cmd, storage' = storage,
             \A d \in Cmd :
               /\ "enable" \in failed[d] => "enable" \in failed'[d]
               /\ "disable" \in failed[d] => "disable" \in failed'[d]
               /\ pc'[d] = pc[d] \/ d = c,
             \/ pc[c] \notin {"onWait", "disable", "disableAgain", "dead"}
             \/ pc'[c] \in {"onWait", "disable", "disableAgain", "dead"}
      PROVE  Attended'
  BY <1>a DEF Attended
<1>1. ASSUME NEW c \in Cmd, Begin(c)
      PROVE  Attended'
  <2>1. storage' = storage /\ failed' = failed /\ pc[c] = "idle"
    BY <1>1 DEF Begin
  <2>2. \E l : pc' = [pc EXCEPT ![c] = l]
    BY <1>1 DEF Begin, To
  <2>3. \A d \in Cmd : pc'[d] = pc[d] \/ d = c
    BY <2>2 DEF TypeOK
  <2> QED
    BY <1>a, <2>1, <2>3
<1>2. ASSUME NEW c \in Cmd, Acquire(c)
      PROVE  Attended'
  <2>1. storage' = storage /\ failed' = failed
    BY <1>2 DEF Acquire
  <2>2. \A d \in Cmd : pc'[d] = pc[d] \/ d = c
    BY <1>2 DEF Acquire, FileCreated, To, TypeOK
  <2>3. \/ pc[c] \notin {"onWait", "disable", "disableAgain", "dead"}
        \/ pc'[c] \in {"onWait", "disable", "disableAgain", "dead"}
    BY <1>2 DEF Acquire, FileCreated, To, TypeOK, Running
  <2> QED
    BY <1>a, <2>1, <2>2, <2>3
<1>3. ASSUME NEW c \in Cmd, GiveUp(c)
      PROVE  Attended'
  <2>1. storage' = storage /\ failed' = failed
    BY <1>3 DEF GiveUp
  <2>2. \A d \in Cmd : pc'[d] = pc[d] \/ d = c
    BY <1>3 DEF GiveUp, To, TypeOK
  <2>3. \/ pc[c] \notin {"onWait", "disable", "disableAgain", "dead"}
        \/ pc'[c] \in {"onWait", "disable", "disableAgain", "dead"}
    BY <1>3 DEF GiveUp, To, TypeOK, Running
  <2> QED
    BY <1>a, <2>1, <2>2, <2>3
<1>4. ASSUME NEW c \in Cmd, EnableStorage(c)
      PROVE  Attended'
  <2>1. CASE pc'[c] = "onWait"
    BY <2>1 DEF Attended
  <2>2. CASE "enable" \in failed'[c]
    BY <2>2 DEF Attended
  <2>3. To(c, "onWait") \/ Errs(c, "enable")
    BY <1>4 DEF EnableStorage
  <2>4. To(c, "onWait") => pc'[c] = "onWait"
    BY DEF To, TypeOK
  <2>5. Errs(c, "enable") => "enable" \in failed'[c]
    BY DEF Errs, TypeOK
  <2> QED
    BY <2>1, <2>2, <2>3, <2>4, <2>5
<1>5. ASSUME NEW c \in Cmd, OnWait(c)
      PROVE  Attended'
  <2>1. storage' = storage /\ failed' = failed
    BY <1>5 DEF OnWait
  <2>2. \A d \in Cmd : pc'[d] = pc[d] \/ d = c
    BY <1>5 DEF OnWait, To, TypeOK
  <2>3. \/ pc[c] \notin {"onWait", "disable", "disableAgain", "dead"}
        \/ pc'[c] \in {"onWait", "disable", "disableAgain", "dead"}
    BY <1>5 DEF OnWait, To, TypeOK, Running
  <2> QED
    BY <1>a, <2>1, <2>2, <2>3
<1>6. ASSUME NEW c \in Cmd, DisableStorage(c)
      PROVE  Attended'
  <2>1. CASE storage' = FALSE
    BY <2>1 DEF Attended
  <2>2. CASE "disable" \in failed'[c]
    BY <2>2 DEF Attended
  <2> QED
    BY <1>6, <2>1, <2>2 DEF DisableStorage, Errs, TypeOK
<1>7. ASSUME NEW c \in Cmd, OffWait(c)
      PROVE  Attended'
  <2>1. storage' = storage /\ failed' = failed
    BY <1>7 DEF OffWait
  <2>2. \A d \in Cmd : pc'[d] = pc[d] \/ d = c
    BY <1>7 DEF OffWait, AfterRearm, To, TypeOK
  <2>3. \/ pc[c] \notin {"onWait", "disable", "disableAgain", "dead"}
        \/ pc'[c] \in {"onWait", "disable", "disableAgain", "dead"}
    BY <1>7 DEF OffWait, AfterRearm, To, TypeOK, Running
  <2> QED
    BY <1>a, <2>1, <2>2, <2>3
<1>8. ASSUME NEW c \in Cmd, NudgeStreamer(c)
      PROVE  Attended'
  <2>1. storage' = storage /\ failed' = failed
    BY <1>8 DEF NudgeStreamer
  <2>2. \A d \in Cmd : pc'[d] = pc[d] \/ d = c
    BY <1>8 DEF NudgeStreamer, To, TypeOK
  <2>3. \/ pc[c] \notin {"onWait", "disable", "disableAgain", "dead"}
        \/ pc'[c] \in {"onWait", "disable", "disableAgain", "dead"}
    BY <1>8 DEF NudgeStreamer, To, TypeOK, Running
  <2> QED
    BY <1>a, <2>1, <2>2, <2>3
<1>9. ASSUME NEW c \in Cmd, PressKey(c)
      PROVE  Attended'
  <2>1. storage' = storage
    BY <1>9 DEF PressKey
  <2>2. Tapped(c) \notin {"enable", "disable"}
    BY TappedIsKey, NamesAreNoKeys
  <2>3. \A d \in Cmd : /\ "enable" \in failed[d] => "enable" \in failed'[d]
                       /\ "disable" \in failed[d] => "disable" \in failed'[d]
    BY <1>9, <2>2 DEF PressKey, Answered, Errs, TypeOK
  <2>4. pc[c] \notin {"onWait", "disable", "disableAgain", "dead"}
    BY <1>9 DEF PressKey
  <2>5. \A d \in Cmd : pc'[d] = pc[d] \/ d = c
    BY <1>9 DEF PressKey, To, Finish, TypeOK
  <2> QED
    BY <1>a, <2>1, <2>3, <2>4, <2>5
<1>10. ASSUME NEW c \in Cmd, HoldKey(c)
      PROVE  Attended'
  <2>1. storage' = storage /\ failed' = failed
    BY <1>10 DEF HoldKey
  <2>2. \A d \in Cmd : pc'[d] = pc[d] \/ d = c
    BY <1>10 DEF HoldKey, To, TypeOK
  <2>3. \/ pc[c] \notin {"onWait", "disable", "disableAgain", "dead"}
        \/ pc'[c] \in {"onWait", "disable", "disableAgain", "dead"}
    BY <1>10 DEF HoldKey, To, TypeOK, Running
  <2> QED
    BY <1>a, <2>1, <2>2, <2>3
<1>11. ASSUME NEW c \in Cmd, ReleaseKey(c)
      PROVE  Attended'
  <2>1. storage' = storage
    BY <1>11 DEF ReleaseKey
  <2>2. Tapped(c) \notin {"enable", "disable"}
    BY TappedIsKey, NamesAreNoKeys
  <2>3. \A d \in Cmd : /\ "enable" \in failed[d] => "enable" \in failed'[d]
                       /\ "disable" \in failed[d] => "disable" \in failed'[d]
    BY <1>11, <2>2 DEF ReleaseKey, Answered, Errs, TypeOK
  <2>4. pc[c] \notin {"onWait", "disable", "disableAgain", "dead"}
    BY <1>11 DEF ReleaseKey
  <2>5. \A d \in Cmd : pc'[d] = pc[d] \/ d = c
    BY <1>11 DEF ReleaseKey, To, Finish, TypeOK
  <2> QED
    BY <1>a, <2>1, <2>3, <2>4, <2>5
<1>12. ASSUME NEW c \in Cmd, Gap(c)
      PROVE  Attended'
  <2>1. storage' = storage /\ failed' = failed
    BY <1>12 DEF Gap
  <2>2. \A d \in Cmd : pc'[d] = pc[d] \/ d = c
    BY <1>12 DEF Gap, Finish, To, TypeOK
  <2>3. \/ pc[c] \notin {"onWait", "disable", "disableAgain", "dead"}
        \/ pc'[c] \in {"onWait", "disable", "disableAgain", "dead"}
    BY <1>12 DEF Gap, Finish, To, TypeOK, Running
  <2> QED
    BY <1>a, <2>1, <2>2, <2>3
<1>13. ASSUME NEW c \in Cmd, Settle(c)
      PROVE  Attended'
  <2>1. storage' = storage /\ failed' = failed
    BY <1>13 DEF Settle
  <2>2. \A d \in Cmd : pc'[d] = pc[d] \/ d = c
    BY <1>13 DEF Settle, Finish, To, TypeOK
  <2>3. \/ pc[c] \notin {"onWait", "disable", "disableAgain", "dead"}
        \/ pc'[c] \in {"onWait", "disable", "disableAgain", "dead"}
    BY <1>13 DEF Settle, Finish, To, TypeOK, Running
  <2> QED
    BY <1>a, <2>1, <2>2, <2>3
<1>14. ASSUME NEW c \in Cmd, Verify(c)
      PROVE  Attended'
  <2>1. storage' = storage /\ failed' = failed
    BY <1>14 DEF Verify
  <2>2. \A d \in Cmd : pc'[d] = pc[d] \/ d = c
    BY <1>14 DEF Verify, To, TypeOK
  <2>3. \/ pc[c] \notin {"onWait", "disable", "disableAgain", "dead"}
        \/ pc'[c] \in {"onWait", "disable", "disableAgain", "dead"}
    BY <1>14 DEF Verify, To, TypeOK, Running
  <2> QED
    BY <1>a, <2>1, <2>2, <2>3
<1>15. ASSUME NEW c \in Cmd, Unlock(c)
      PROVE  Attended'
  <2>1. storage' = storage /\ pc[c] = "unlock"
    BY <1>15 DEF Unlock
  <2>2. \A d \in Cmd : /\ "enable" \in failed[d] => "enable" \in failed'[d]
                       /\ "disable" \in failed[d] => "disable" \in failed'[d]
    BY <1>15 DEF Unlock, Errs, TypeOK
  <2>3. \A d \in Cmd : pc'[d] = pc[d] \/ d = c
    BY <1>15 DEF Unlock, AfterUnlock, To, TypeOK
  <2> QED
    BY <1>a, <2>1, <2>2, <2>3
<1>16. ASSUME NEW c \in Cmd, Save(c)
      PROVE  Attended'
  <2>1. storage' = storage /\ failed' = failed
    BY <1>16 DEF Save
  <2>2. \A d \in Cmd : pc'[d] = pc[d] \/ d = c
    BY <1>16 DEF Save, To, TypeOK
  <2>3. \/ pc[c] \notin {"onWait", "disable", "disableAgain", "dead"}
        \/ pc'[c] \in {"onWait", "disable", "disableAgain", "dead"}
    BY <1>16 DEF Save, To, TypeOK, Running
  <2> QED
    BY <1>a, <2>1, <2>2, <2>3
<1>17. ASSUME NEW c \in Cmd, Stop(c)
      PROVE  Attended'
  <2>1. storage' = storage /\ failed' = failed
    BY <1>17 DEF Stop
  <2>2. \A d \in Cmd : pc'[d] = pc[d] \/ d = c
    BY <1>17 DEF Stop, To, TypeOK
  <2>3. \/ pc[c] \notin {"onWait", "disable", "disableAgain", "dead"}
        \/ pc'[c] \in {"onWait", "disable", "disableAgain", "dead"}
    BY <1>17 DEF Stop, To, TypeOK, Running
  <2> QED
    BY <1>a, <2>1, <2>2, <2>3
<1>18. ASSUME NEW c \in Cmd, Crash(c)
      PROVE  Attended'
  <2>1. storage' = storage /\ failed' = failed
    BY <1>18 DEF Crash
  <2>2. \A d \in Cmd : pc'[d] = pc[d] \/ d = c
    BY <1>18 DEF Crash, To, TypeOK
  <2>3. \/ pc[c] \notin {"onWait", "disable", "disableAgain", "dead"}
        \/ pc'[c] \in {"onWait", "disable", "disableAgain", "dead"}
    BY <1>18 DEF Crash, To, TypeOK, Running
  <2> QED
    BY <1>a, <2>1, <2>2, <2>3
<1>19. CASE UNCHANGED vars
  BY <1>19 DEF vars, Attended
<1> QED
  BY <1>1, <1>2, <1>3, <1>4, <1>5, <1>6, <1>7, <1>8, <1>9, <1>10, <1>11,
     <1>12, <1>13, <1>14, <1>15, <1>16, <1>17, <1>18, <1>19 DEF Next, Step

(* Every step keeps Attended.                                              *)
LEMMA AttendedStep ==
  ASSUME Typed, Attended, [AllNext]_allVars
  PROVE  Attended'
<1>1. disturbed' \in SUBSET Cmd
  BY DEF AllNext, Watch, allVars, Typed, OwnTypeOK
<1>2. CASE [Next]_vars
  BY <1>2, Attends DEF Typed
<1>3. ASSUME NEW c \in Cmd, Start(c) \/ Perform(c) \/ Expire(c) PROVE Attended'
  <2>1. storage' = storage
    BY <1>1, <1>3, OwnTypes DEF rest
  <2>2. /\ \A d \in Cmd : \A x \in {"enable", "disable", "unlock"} :
             x \in failed[d] => x \in failed'[d]
        /\ \A d \in Cmd :
             \/ pc'[d] = pc[d]
             \/ pc[d] \in {"idle", "perform"}
    BY <1>3, OwnFrame
  <2> QED
    BY <2>1, <2>2 DEF Attended
<1>4. ASSUME NEW p \in Port, Redraw(p) PROVE Attended'
  <2>1. [Next]_vars
    BY <1>1, <1>4, RedrawTypes
  <2> QED
    BY <1>2, <2>1
<1> QED
  BY <1>2, <1>3, <1>4, AllSteps

(* When nobody is at the virtual storage any more, it is on only if a call *)
(* of a re-arm returned an error: no cancellation leaves it on.            *)
THEOREM StorageOnAlwaysMeansError == AllSpec => []StorageOnMeansError
<1>1. AllInit => Attended
  BY DEF AllInit, Init, Attended
<1>2. Typed /\ Attended /\ [AllNext]_allVars => Attended'
  BY AttendedStep
<1>3. Attended => StorageOnMeansError
  BY DEF Attended, StorageOnMeansError
<1> QED
  BY <1>1, <1>2, <1>3, AlwaysTyped, PTL DEF AllSpec

-----------------------------------------------------------------------------
(* The keys. *)

(* What a command holds down it still has to release, or could not.        *)
BeforeKeys == {"idle", "acquire", "enable", "onWait", "disable", "disableAgain",
               "offWait", "nudge"}
Owed(c, k) ==
  /\ pc[c] \notin BeforeKeys
  /\ kind[c] \in HotkeyKind /\ pc[c] # "dead" =>
       k \in failed[c] \/ (pc[c] \in {"hold", "up", "abandon"} /\ k = Tapped(c))
  /\ pc[c] = "perform" => k \in failed[c] \/ k \in Pending(Calls(c), step[c])
  /\ kind[c] \notin HotkeyKind /\ pc[c] = "returned" =>
       \/ k \in failed[c]
       \/ kind[c] = "mouse_button"
       \/ kind[c] = "keyboard_text" /\ k = Shift /\ Letter \in failed[c]
Released == \A c \in Cmd : \A k \in down : presser[k] = c => Owed(c, k)

(* Another command's step can take a key away from d, and give it none.    *)
LEMMA OwedElsewhere ==
  ASSUME Released, NEW d \in Cmd, kind' = kind, pc'[d] = pc[d], tap'[d] = tap[d],
         step'[d] = step[d], failed'[d] = failed[d],
         \A k \in down' : presser'[k] = d => k \in down /\ presser[k] = d,
         NEW k \in down', presser'[k] = d
  PROVE  Owed(d, k)'
<1>1. Owed(d, k)
  BY DEF Released
<1>2. Calls(d)' = Calls(d) /\ Tapped(d)' = Tapped(d)
  BY DEF Calls, Tapped, Hotkey
<1> QED
  BY <1>1, <1>2 DEF Owed

(* TargetSelect's steps.                                                   *)
LEMMA HotkeysReleased ==
  ASSUME TypeOK, Placed, Released, [Next]_vars, step' = step
  PROVE  Released'
<1>0. /\ pc \in [Cmd -> Label] /\ tap \in [Cmd -> 1 .. 4]
      /\ failed \in [Cmd -> SUBSET (Key \cup {"enable", "disable", "unlock"})]
      /\ presser \in [Key -> Cmd \cup {NoCmd}] /\ down \in SUBSET Key
  BY DEF TypeOK
<1>k. kind' = kind
  BY HotkeyPlaces
<1>a. ASSUME NEW c \in Cmd, UNCHANGED <<down, presser>>,
             \A d \in Cmd \ {c} : pc'[d] = pc[d] /\ tap'[d] = tap[d] /\ failed'[d] = failed[d],
             \A k \in down : presser[k] = c => Owed(c, k)'
      PROVE  Released'
  <2> SUFFICES ASSUME NEW d \in Cmd, NEW k \in down', presser'[k] = d PROVE Owed(d, k)'
    BY DEF Released
  <2>1. CASE d = c
    BY <1>a, <2>1
  <2>2. CASE d # c
    BY <1>a, <1>k, <2>2, OwedElsewhere
  <2> QED
    BY <2>1, <2>2
<1>b. ASSUME NEW c \in Cmd, pc[c] \in BeforeKeys, UNCHANGED <<down, presser>>,
             \A d \in Cmd \ {c} : pc'[d] = pc[d] /\ tap'[d] = tap[d] /\ failed'[d] = failed[d]
      PROVE  Released'
  <2>1. \A k \in down : presser[k] # c
    BY <1>b DEF Released, Owed
  <2> QED
    BY <1>a, <1>b, <2>1
<1>c. ASSUME NEW c \in Cmd, NEW l, kind[c] \in HotkeyKind,
             pc[c] # "dead", l \notin BeforeKeys /\ l # "perform",
             pc' = [pc EXCEPT ![c] = l],
             pc[c] \in {"hold", "up", "abandon"} => tap' = tap /\ l \in {"hold", "up", "abandon"},
             \A d \in Cmd \ {c} : tap'[d] = tap[d] /\ failed'[d] = failed[d],
             failed[c] \subseteq failed'[c], UNCHANGED <<down, presser>>
      PROVE  Released'
  <2>1. pc'[c] = l /\ \A d \in Cmd \ {c} : pc'[d] = pc[d]
    BY <1>0, <1>c
  <2>2. ASSUME NEW k \in down, presser[k] = c PROVE Owed(c, k)'
    <3>1. Owed(c, k)
      BY <2>2 DEF Released
    <3>2. Tapped(c)' = Tapped(c) \/ pc[c] \notin {"hold", "up", "abandon"}
      BY <1>c DEF Tapped, Hotkey
    <3> QED
      BY <1>c, <1>k, <2>1, <2>2, <3>1, <3>2 DEF Owed
  <2> QED
    BY <1>a, <1>c, <2>1, <2>2
<1>1. ASSUME NEW c \in Cmd, Begin(c)
      PROVE  Released'
  <2>1. pc[c] \in BeforeKeys /\ UNCHANGED <<down, presser, tap, failed>>
    BY <1>1 DEF Begin, keyboard, BeforeKeys
  <2>2. \E l : pc' = [pc EXCEPT ![c] = l]
    BY <1>1 DEF Begin, To
  <2>3. \A d \in Cmd \ {c} : pc'[d] = pc[d]
    BY <1>0, <2>2
  <2> QED
    BY <1>b, <2>1, <2>3
<1>2. ASSUME NEW c \in Cmd, Acquire(c)
      PROVE  Released'
  <2>1. pc[c] \in BeforeKeys /\ UNCHANGED <<down, presser, tap>>
    BY <1>2 DEF Acquire, keyboard, BeforeKeys
  <2>2. \A d \in Cmd \ {c} : pc'[d] = pc[d] /\ failed'[d] = failed[d]
    BY <1>2, <1>0 DEF Acquire, FileCreated, To
  <2> QED
    BY <1>b, <2>1, <2>2
<1>3. ASSUME NEW c \in Cmd, GiveUp(c)
      PROVE  Released'
  <2>1. pc[c] \in BeforeKeys /\ UNCHANGED <<down, presser, tap>>
    BY <1>3 DEF GiveUp, keyboard, BeforeKeys
  <2>2. \A d \in Cmd \ {c} : pc'[d] = pc[d] /\ failed'[d] = failed[d]
    BY <1>3, <1>0 DEF GiveUp, To
  <2> QED
    BY <1>b, <2>1, <2>2
<1>4. ASSUME NEW c \in Cmd, EnableStorage(c)
      PROVE  Released'
  <2>1. pc[c] \in BeforeKeys /\ UNCHANGED <<down, presser, tap>>
    BY <1>4 DEF EnableStorage, keyboard, BeforeKeys
  <2>2. \A d \in Cmd \ {c} : pc'[d] = pc[d] /\ failed'[d] = failed[d]
    BY <1>4, <1>0 DEF EnableStorage, Errs, To
  <2> QED
    BY <1>b, <2>1, <2>2
<1>5. ASSUME NEW c \in Cmd, OnWait(c)
      PROVE  Released'
  <2>1. pc[c] \in BeforeKeys /\ UNCHANGED <<down, presser, tap>>
    BY <1>5 DEF OnWait, keyboard, BeforeKeys
  <2>2. \A d \in Cmd \ {c} : pc'[d] = pc[d] /\ failed'[d] = failed[d]
    BY <1>5, <1>0 DEF OnWait, To
  <2> QED
    BY <1>b, <2>1, <2>2
<1>6. ASSUME NEW c \in Cmd, DisableStorage(c)
      PROVE  Released'
  <2>1. pc[c] \in BeforeKeys /\ UNCHANGED <<down, presser, tap>>
    BY <1>6 DEF DisableStorage, keyboard, BeforeKeys
  <2>2. \A d \in Cmd \ {c} : pc'[d] = pc[d] /\ failed'[d] = failed[d]
    BY <1>6, <1>0 DEF DisableStorage, Errs, Answered, To
  <2> QED
    BY <1>b, <2>1, <2>2
<1>7. ASSUME NEW c \in Cmd, OffWait(c)
      PROVE  Released'
  <2>1. pc[c] \in BeforeKeys /\ UNCHANGED <<down, presser, tap>>
    BY <1>7 DEF OffWait, keyboard, BeforeKeys
  <2>2. \A d \in Cmd \ {c} : pc'[d] = pc[d] /\ failed'[d] = failed[d]
    BY <1>7, <1>0 DEF OffWait, AfterRearm, To
  <2> QED
    BY <1>b, <2>1, <2>2
<1>8. ASSUME NEW c \in Cmd, NudgeStreamer(c)
      PROVE  Released'
  <2>1. pc[c] \in BeforeKeys /\ UNCHANGED <<down, presser, tap>>
    BY <1>8 DEF NudgeStreamer, keyboard, BeforeKeys
  <2>2. \A d \in Cmd \ {c} : pc'[d] = pc[d] /\ failed'[d] = failed[d]
    BY <1>8, <1>0 DEF NudgeStreamer, To
  <2> QED
    BY <1>b, <2>1, <2>2
<1>9. ASSUME NEW c \in Cmd, PressKey(c)
      PROVE  Released'
  <2>1. PICK l \in {"hold", "unlock", "returned"} :
          pc' = [pc EXCEPT ![c] = l] /\ pc[c] = "down"
    BY <1>9 DEF PressKey, To, Finish
  <2>2. /\ pc'[c] = l /\ UNCHANGED tap /\ Tapped(c)' = Tapped(c)
        /\ kind[c] \in HotkeyKind /\ l \notin BeforeKeys /\ l # "perform" /\ l # "dead"
    BY <1>9, <1>0, <2>1 DEF PressKey, Tapped, Hotkey, Placed, Typing, HotkeyKind, BeforeKeys
  <2>3. \A d \in Cmd \ {c} : pc'[d] = pc[d] /\ failed'[d] = failed[d]
    BY <1>9, <1>0, <2>1 DEF PressKey, Answered, Errs
  <2>4. Tapped(c) \in Key
    BY TappedIsKey
  <2>5. ASSUME NEW d \in Cmd, d # c, NEW k \in down', presser'[k] = d
        PROVE  k \in down /\ presser[k] = d
    BY <1>9, <1>0, <2>4, <2>5 DEF PressKey, PressReaches, keyboard
  <2>6. ASSUME NEW k \in down', presser'[k] = c, k # Tapped(c)
        PROVE  k \in failed'[c]
    <3>1. k \in down /\ presser[k] = c
      BY <1>9, <1>0, <2>4, <2>6 DEF PressKey, PressReaches, keyboard
    <3>2. Owed(c, k) /\ pc[c] \in {"down"}
      BY <1>9, <3>1 DEF Released, PressKey
    <3>3. k \in failed[c]
      BY <2>2, <2>6, <3>2 DEF Owed
    <3> QED
      BY <1>9, <1>0, <2>6, <3>3 DEF PressKey, Answered, Errs
  <2>7. ASSUME Tapped(c) \in down'
        PROVE  l = "hold" \/ Tapped(c) \in failed'[c]
    BY <1>9, <1>0, <2>1, <2>2, <2>7 DEF PressKey, Errs, Finish, To
  <2> SUFFICES ASSUME NEW d \in Cmd, NEW k \in down', presser'[k] = d PROVE Owed(d, k)'
    BY DEF Released
  <2>8. CASE d # c
    BY <1>k, <2>2, <2>3, <2>5, <2>8, OwedElsewhere
  <2>9. CASE d = c
    BY <1>k, <2>2, <2>6, <2>7, <2>9 DEF Owed
  <2> QED
    BY <2>8, <2>9
<1>10. ASSUME NEW c \in Cmd, HoldKey(c)
      PROVE  Released'
  <2>1. PICK l \in {"up", "abandon"} :
          /\ pc' = [pc EXCEPT ![c] = l]
          /\ pc[c] \in {"hold", "up", "abandon"} => l \in {"up", "abandon"}
    BY <1>10 DEF HoldKey, To
  <2>2. UNCHANGED <<down, presser>> /\ pc[c] # "dead"
    BY <1>10 DEF HoldKey, keyboard
  <2>3. kind[c] \in HotkeyKind
    BY <1>10 DEF HoldKey, Placed, Typing, HotkeyKind
  <2>4. /\ \A d \in Cmd \ {c} : tap'[d] = tap[d] /\ failed'[d] = failed[d]
        /\ failed[c] \subseteq failed'[c] /\ (pc[c] \in {"hold", "up", "abandon"} => tap' = tap)
    BY <1>10, <1>0 DEF HoldKey, Errs
  <2>5. l \notin BeforeKeys /\ l # "perform"
    BY DEF BeforeKeys
  <2> QED
    BY <1>c, <2>1, <2>2, <2>3, <2>4, <2>5
<1>11. ASSUME NEW c \in Cmd, ReleaseKey(c)
      PROVE  Released'
  <2>1. PICK l \in {"gap", "upAgain", "unlock", "returned"} :
          pc' = [pc EXCEPT ![c] = l] /\ pc[c] \in {"up", "upAgain", "abandon"}
    BY <1>11 DEF ReleaseKey, To, Finish
  <2>2. /\ pc'[c] = l /\ UNCHANGED tap /\ Tapped(c)' = Tapped(c)
        /\ kind[c] \in HotkeyKind /\ l \notin BeforeKeys /\ l # "perform" /\ l # "dead"
    BY <1>11, <1>0, <2>1 DEF ReleaseKey, Tapped, Hotkey, Placed, Typing, HotkeyKind, BeforeKeys
  <2>3. \A d \in Cmd \ {c} : pc'[d] = pc[d] /\ failed'[d] = failed[d]
    BY <1>11, <1>0, <2>1 DEF ReleaseKey, Answered, Errs
  <2>4. Tapped(c) \in Key
    BY TappedIsKey
  <2>5. ASSUME NEW d \in Cmd, d # c, NEW k \in down', presser'[k] = d
        PROVE  k \in down /\ presser[k] = d
    BY <1>11, <1>0, <2>4, <2>5 DEF ReleaseKey, ReleaseReaches, keyboard
  <2>6. ASSUME NEW k \in down', presser'[k] = c, k # Tapped(c)
        PROVE  k \in failed'[c]
    <3>1. k \in down /\ presser[k] = c
      BY <1>11, <1>0, <2>4, <2>6 DEF ReleaseKey, ReleaseReaches, keyboard
    <3>2. Owed(c, k) /\ pc[c] \in {"up", "upAgain", "abandon"}
      BY <1>11, <3>1 DEF Released, ReleaseKey
    <3>3. k \in failed[c]
      BY <2>2, <2>6, <3>2 DEF Owed
    <3> QED
      BY <1>11, <1>0, <2>6, <3>3 DEF ReleaseKey, Answered, Errs
  <2>7. ASSUME Tapped(c) \in down'
        PROVE  Tapped(c) \in failed'[c]
    BY <1>11, <1>0, <2>1, <2>2, <2>7 DEF ReleaseKey, ReleaseReaches, Errs
  <2> SUFFICES ASSUME NEW d \in Cmd, NEW k \in down', presser'[k] = d PROVE Owed(d, k)'
    BY DEF Released
  <2>8. CASE d # c
    BY <1>k, <2>2, <2>3, <2>5, <2>8, OwedElsewhere
  <2>9. CASE d = c
    BY <1>k, <2>2, <2>6, <2>7, <2>9 DEF Owed
  <2> QED
    BY <2>8, <2>9
<1>12. ASSUME NEW c \in Cmd, Gap(c)
      PROVE  Released'
  <2>1. PICK l \in {"down", "settle", "unlock", "returned"} :
          /\ pc' = [pc EXCEPT ![c] = l]
          /\ pc[c] \in {"hold", "up", "abandon"} => l \in {"up", "abandon"}
    BY <1>12 DEF Gap, Finish, To
  <2>2. UNCHANGED <<down, presser>> /\ pc[c] # "dead"
    BY <1>12 DEF Gap, keyboard
  <2>3. kind[c] \in HotkeyKind
    BY <1>12 DEF Gap, Placed, Typing, HotkeyKind
  <2>4. /\ \A d \in Cmd \ {c} : tap'[d] = tap[d] /\ failed'[d] = failed[d]
        /\ failed[c] \subseteq failed'[c] /\ (pc[c] \in {"hold", "up", "abandon"} => tap' = tap)
    BY <1>12, <1>0 DEF Gap, Errs
  <2>5. l \notin BeforeKeys /\ l # "perform"
    BY DEF BeforeKeys
  <2> QED
    BY <1>c, <2>1, <2>2, <2>3, <2>4, <2>5
<1>13. ASSUME NEW c \in Cmd, Settle(c)
      PROVE  Released'
  <2>1. PICK l \in {"verify", "unlock", "returned"} :
          /\ pc' = [pc EXCEPT ![c] = l]
          /\ pc[c] \in {"hold", "up", "abandon"} => l \in {"up", "abandon"}
    BY <1>13 DEF Settle, Finish, To
  <2>2. UNCHANGED <<down, presser>> /\ pc[c] # "dead"
    BY <1>13 DEF Settle, keyboard
  <2>3. kind[c] \in HotkeyKind
    BY <1>13 DEF Settle, Placed, Typing, HotkeyKind
  <2>4. /\ \A d \in Cmd \ {c} : tap'[d] = tap[d] /\ failed'[d] = failed[d]
        /\ failed[c] \subseteq failed'[c] /\ (pc[c] \in {"hold", "up", "abandon"} => tap' = tap)
    BY <1>13, <1>0 DEF Settle, Errs
  <2>5. l \notin BeforeKeys /\ l # "perform"
    BY DEF BeforeKeys
  <2> QED
    BY <1>c, <2>1, <2>2, <2>3, <2>4, <2>5
<1>14. ASSUME NEW c \in Cmd, Verify(c)
      PROVE  Released'
  <2>1. PICK l \in {"unlock"} :
          /\ pc' = [pc EXCEPT ![c] = l]
          /\ pc[c] \in {"hold", "up", "abandon"} => l \in {"up", "abandon"}
    BY <1>14 DEF Verify, To
  <2>2. UNCHANGED <<down, presser>> /\ pc[c] # "dead"
    BY <1>14 DEF Verify, keyboard
  <2>3. kind[c] \in HotkeyKind
    BY <1>14 DEF Verify, Placed, Typing, HotkeyKind
  <2>4. /\ \A d \in Cmd \ {c} : tap'[d] = tap[d] /\ failed'[d] = failed[d]
        /\ failed[c] \subseteq failed'[c] /\ (pc[c] \in {"hold", "up", "abandon"} => tap' = tap)
    BY <1>14, <1>0 DEF Verify, Errs
  <2>5. l \notin BeforeKeys /\ l # "perform"
    BY DEF BeforeKeys
  <2> QED
    BY <1>c, <2>1, <2>2, <2>3, <2>4, <2>5
<1>15. ASSUME NEW c \in Cmd, Unlock(c)
      PROVE  Released'
  <2>1. PICK l \in {"save", "returned"} :
          /\ pc' = [pc EXCEPT ![c] = l]
          /\ pc[c] \in {"hold", "up", "abandon"} => l \in {"up", "abandon"}
    BY <1>15 DEF Unlock, AfterUnlock, To
  <2>2. UNCHANGED <<down, presser>> /\ pc[c] # "dead"
    BY <1>15 DEF Unlock, keyboard
  <2>3. kind[c] \in HotkeyKind
    BY <1>15 DEF Unlock, Placed, Typing, HotkeyKind
  <2>4. /\ \A d \in Cmd \ {c} : tap'[d] = tap[d] /\ failed'[d] = failed[d]
        /\ failed[c] \subseteq failed'[c] /\ (pc[c] \in {"hold", "up", "abandon"} => tap' = tap)
    BY <1>15, <1>0 DEF Unlock, Errs
  <2>5. l \notin BeforeKeys /\ l # "perform"
    BY DEF BeforeKeys
  <2> QED
    BY <1>c, <2>1, <2>2, <2>3, <2>4, <2>5
<1>16. ASSUME NEW c \in Cmd, Save(c)
      PROVE  Released'
  <2>1. PICK l \in {"returned"} :
          /\ pc' = [pc EXCEPT ![c] = l]
          /\ pc[c] \in {"hold", "up", "abandon"} => l \in {"up", "abandon"}
    BY <1>16 DEF Save, To
  <2>2. UNCHANGED <<down, presser>> /\ pc[c] # "dead"
    BY <1>16 DEF Save, keyboard
  <2>3. kind[c] \in HotkeyKind
    BY <1>16 DEF Save, Placed, Typing, HotkeyKind
  <2>4. /\ \A d \in Cmd \ {c} : tap'[d] = tap[d] /\ failed'[d] = failed[d]
        /\ failed[c] \subseteq failed'[c] /\ (pc[c] \in {"hold", "up", "abandon"} => tap' = tap)
    BY <1>16, <1>0 DEF Save, Errs
  <2>5. l \notin BeforeKeys /\ l # "perform"
    BY DEF BeforeKeys
  <2> QED
    BY <1>c, <2>1, <2>2, <2>3, <2>4, <2>5
<1>17. ASSUME NEW c \in Cmd, Stop(c)
      PROVE  Released'
  <2>1. UNCHANGED <<pc, tap, failed, down, presser>>
    BY <1>17 DEF Stop, keyboard
  <2>2. \A k \in down : presser[k] = c => Owed(c, k)'
    BY <1>k, <2>1 DEF Released, Owed, Calls, Tapped, Hotkey
  <2> QED
    BY <1>a, <2>1, <2>2
<1>18. ASSUME NEW c \in Cmd, Crash(c)
      PROVE  Released'
  <2>1. UNCHANGED <<tap, failed, down, presser>> /\ pc' = [pc EXCEPT ![c] = "dead"]
    BY <1>18 DEF Crash, To, keyboard
  <2>2. pc'[c] = "dead" /\ \A d \in Cmd \ {c} : pc'[d] = pc[d]
    BY <1>0, <2>1
  <2>3. \A k : Owed(c, k)'
    BY <2>2 DEF Owed, BeforeKeys
  <2> QED
    BY <1>a, <2>1, <2>2, <2>3
<1>19. CASE UNCHANGED vars
  <2>1. UNCHANGED <<pc, tap, failed, down, presser, kind>>
    BY <1>19 DEF vars, keyboard
  <2> QED
    BY <2>1 DEF Released, Owed, Calls, Tapped, Hotkey
<1> QED
  BY <1>1, <1>2, <1>3, <1>4, <1>5, <1>6, <1>7, <1>8, <1>9, <1>10, <1>11,
     <1>12, <1>13, <1>14, <1>15, <1>16, <1>17, <1>18, <1>19 DEF Next, Step

(* A key that a program pressed and has not released since is pending.     *)
LEMMA PendingSince ==
  ASSUME NEW S, NEW n, NEW k \in Key, NEW m \in 1 .. n - 1,
         S[m] = <<"press", k>>, \A j \in m + 1 .. n - 1 : S[j] # <<"release", k>>
  PROVE  k \in Pending(S, n)
BY DEF Pending

(* A key that a program pressed stays pending until it releases it.        *)
LEMMA PendingStays ==
  ASSUME NEW S \in Seq(CallSet), NEW n \in 1 .. Len(S), NEW k \in Key,
         \/ k \in Pending(S, n) /\ S[n] # <<"release", k>>
         \/ S[n] = <<"press", k>>
  PROVE  k \in Pending(S, n + 1)
<1>1. CASE S[n] = <<"press", k>>
  <2>1. n \in 1 .. (n + 1) - 1 /\ \A j \in n + 1 .. (n + 1) - 1 : S[j] # <<"release", k>>
    OBVIOUS
  <2> QED
    BY <1>1, <2>1 DEF Pending
<1>2. CASE k \in Pending(S, n) /\ S[n] # <<"release", k>>
  <2>1. PICK m \in 1 .. n - 1 :
          S[m] = <<"press", k>> /\ \A j \in m + 1 .. n - 1 : S[j] # <<"release", k>>
    BY <1>2 DEF Pending
  <2>2. m \in 1 .. (n + 1) - 1 /\ \A j \in m + 1 .. (n + 1) - 1 : S[j] # <<"release", k>>
    <3>1. m \in 1 .. (n + 1) - 1
      OBVIOUS
    <3>2. ASSUME NEW j \in m + 1 .. (n + 1) - 1 PROVE S[j] # <<"release", k>>
      <4>1. CASE j = n
        BY <1>2, <4>1
      <4>2. CASE j # n
        <5>1. j \in m + 1 .. n - 1
          BY <4>2
        <5> QED
          BY <2>1, <5>1
      <4> QED
        BY <4>1, <4>2
    <3> QED
      BY <3>1, <3>2
  <2> QED
    BY <2>1, <2>2, PendingSince
<1> QED
  BY <1>1, <1>2

(* After a call that was answered.                                         *)
LEMMA OwedAdvance ==
  ASSUME Typed, NEW c \in Cmd, pc[c] = "perform", Advance(c), kind' = kind,
         NEW k \in Pending(Calls(c), step[c] + 1)
  PROVE  Owed(c, k)'
<1>1. /\ kind[c] \notin HotkeyKind /\ Calls(c)' = Calls(c)
      /\ WellBehaved(Calls(c), kind[c]) /\ step[c] \in 1 .. Len(Calls(c))
      /\ pc \in [Cmd -> Label] /\ step \in [Cmd -> 1 .. 9]
  BY NextCall DEF Typed, TypeOK, OwnTypeOK, Calls
<1>2. CASE step[c] < Len(Calls(c))
  <2>1. step'[c] = step[c] + 1 /\ pc'[c] = "perform"
    BY <1>1, <1>2 DEF Advance
  <2> QED
    BY <1>1, <2>1 DEF Owed, BeforeKeys
<1>3. CASE ~ (step[c] < Len(Calls(c)))
  <2>1. pc'[c] = "returned"
    BY <1>1, <1>3 DEF Advance, To
  <2>2. step[c] + 1 = Len(Calls(c)) + 1
    BY <1>1, <1>3
  <2>3. kind[c] = "mouse_button"
    BY <1>1, <2>2 DEF WellBehaved, Balanced
  <2> QED
    BY <1>1, <2>1, <2>3 DEF Owed, BeforeKeys
<1> QED
  BY <1>2, <1>3

(* After one that was not.                                                 *)
LEMMA OwedAbort ==
  ASSUME Typed, NEW c \in Cmd, pc[c] = "perform", Abort(c), kind' = kind,
         NEW k \in Pending(Calls(c), step[c]),
         At(c, "press") \/ At(c, "release") => Operand(c) \in failed'[c]
  PROVE  Owed(c, k)'
<1>1. /\ kind[c] \notin HotkeyKind
      /\ WellBehaved(Calls(c), kind[c]) /\ step[c] \in 1 .. Len(Calls(c))
      /\ pc \in [Cmd -> Label]
  BY NextCall DEF Typed, TypeOK
<1>2. pc'[c] = "returned"
  BY <1>1 DEF Abort, To
<1> DEFINE call == Calls(c)[step[c]]
<1>3. \/ call \in {<<"press", k>>, <<"release", k>>}
      \/ /\ kind[c] = "keyboard_text" /\ k = Shift
         /\ call \in {<<"press", Letter>>, <<"release", Letter>>}
  BY <1>1 DEF WellBehaved, Balanced
<1>4. CASE call \in {<<"press", k>>, <<"release", k>>}
  <2>1. (call[1] = "press" \/ call[1] = "release") /\ call[2] = k
    BY <1>4
  <2>2. k \in failed'[c]
    BY <2>1 DEF At, Operand
  <2> QED
    BY <1>1, <1>2, <2>2 DEF Owed, BeforeKeys
<1>5. CASE /\ kind[c] = "keyboard_text" /\ k = Shift
           /\ call \in {<<"press", Letter>>, <<"release", Letter>>}
  <2>1. (call[1] = "press" \/ call[1] = "release") /\ call[2] = Letter
    BY <1>5
  <2>2. Letter \in failed'[c]
    BY <2>1 DEF At, Operand
  <2> QED
    BY <1>1, <1>2, <1>5, <2>2 DEF Owed, BeforeKeys
<1> QED
  BY <1>3, <1>4, <1>5

(* A failed call accounts for its key.                                     *)
LEMMA OwedFailed ==
  ASSUME Typed, NEW c \in Cmd, pc[c] = "perform", Advance(c) \/ Abort(c), kind' = kind,
         NEW k, k \in failed'[c]
  PROVE  Owed(c, k)'
<1>1. kind[c] \notin HotkeyKind /\ pc'[c] \in {"perform", "returned"}
  BY NextCall DEF Typed, TypeOK, Advance, Abort, To
<1> QED
  BY <1>1 DEF Owed, BeforeKeys

(* A call that touches no key.                                             *)
LEMMA OwedQuietly ==
  ASSUME Typed, Released, NEW c \in Cmd, pc[c] = "perform", Advance(c) \/ Abort(c), kind' = kind,
         ~ At(c, "press"), ~ At(c, "release"), UNCHANGED <<down, presser, failed>>,
         NEW k \in down', presser'[k] = c
  PROVE  Owed(c, k)'
<1>1. /\ Calls(c) \in Seq(CallSet) /\ step[c] \in 1 .. Len(Calls(c))
      /\ Calls(c)[step[c]] \in CallSet /\ k \in Key
  BY NextCall DEF Typed, TypeOK
<1>2. k \in failed'[c] \/ k \in Pending(Calls(c), step[c])
  BY DEF Released, Owed
<1>3. CASE k \in failed'[c]
  BY <1>3, OwedFailed
<1>4. CASE k \in Pending(Calls(c), step[c]) /\ Abort(c)
  BY <1>4, OwedAbort
<1>5. CASE k \in Pending(Calls(c), step[c]) /\ Advance(c)
  <2>1. Calls(c)[step[c]] # <<"release", k>>
    BY DEF At
  <2>2. k \in Pending(Calls(c), step[c] + 1)
    BY <1>1, <1>5, <2>1, PendingStays
  <2> QED
    BY <1>5, <2>2, OwedAdvance
<1> QED
  BY <1>2, <1>3, <1>4, <1>5

(* The commands with a program keep Released.                              *)
LEMMA OwnReleased ==
  ASSUME Typed, Released, NEW c \in Cmd, Start(c) \/ Perform(c) \/ Expire(c), UNCHANGED rest
  PROVE  Released'
<1>0. /\ pc \in [Cmd -> Label] /\ step \in [Cmd -> 1 .. 9] /\ kind' = kind /\ tap' = tap
      /\ failed \in [Cmd -> SUBSET (Key \cup {"enable", "disable", "unlock"})]
      /\ presser \in [Key -> Cmd \cup {NoCmd}] /\ down \in SUBSET Key
  BY DEF Typed, TypeOK, OwnTypeOK, rest
<1>a. ASSUME \A d \in Cmd \ {c} : pc'[d] = pc[d] /\ step'[d] = step[d] /\ failed'[d] = failed[d],
             \A d \in Cmd \ {c} : \A k \in down' : presser'[k] = d => k \in down /\ presser[k] = d,
             \A k \in down' : presser'[k] = c => Owed(c, k)'
      PROVE  Released'
  <2> SUFFICES ASSUME NEW d \in Cmd, NEW k \in down', presser'[k] = d PROVE Owed(d, k)'
    BY DEF Released
  <2>1. CASE d = c
    BY <1>a, <2>1
  <2>2. CASE d # c
    BY <1>0, <1>a, <2>2, OwedElsewhere
  <2> QED
    BY <2>1, <2>2
<1>b. ASSUME pc[c] = "perform", Advance(c) \/ Abort(c),
             ~ At(c, "press"), ~ At(c, "release"), UNCHANGED <<down, presser, failed>>
      PROVE  Released'
  <2>1. \A k \in down' : presser'[k] = c => Owed(c, k)'
    BY <1>0, <1>b, OwedQuietly
  <2>2. \A d \in Cmd \ {c} : pc'[d] = pc[d] /\ step'[d] = step[d]
    BY <1>0, <1>b DEF Advance, Abort, To
  <2> QED
    BY <1>a, <1>b, <2>1, <2>2
<1>1. CASE Start(c)
  <2>1. pc[c] = "idle" /\ UNCHANGED <<step, failed, down, presser>>
    BY <1>1 DEF Start, own, keyboard
  <2>2. \A d \in Cmd \ {c} : pc'[d] = pc[d]
    BY <1>1, <1>0 DEF Start, To
  <2>3. \A k \in down : presser[k] # c
    BY <2>1 DEF Released, Owed, BeforeKeys
  <2> QED
    BY <1>a, <2>1, <2>2, <2>3
<1>2. CASE Press(c)
  <2>1. pc[c] = "perform" /\ (Advance(c) \/ Abort(c)) /\ At(c, "press")
    BY <1>2 DEF Press, At
  <2>2. Operand(c) \in Key /\ Calls(c)[step[c]] = <<"press", Operand(c)>>
    BY <2>1, OperandIsKey DEF At
  <2>3. \A d \in Cmd \ {c} : pc'[d] = pc[d] /\ step'[d] = step[d] /\ failed'[d] = failed[d]
    BY <1>2, <1>0 DEF Press, Advance, Abort, To, Answered, Errs
  <2>4. ASSUME NEW d \in Cmd \ {c}, NEW k \in down', presser'[k] = d
        PROVE  k \in down /\ presser[k] = d
    BY <1>2, <1>0, <2>2, <2>4 DEF Press, PressReaches, keyboard
  <2>5. ASSUME NEW k \in down', presser'[k] = c PROVE Owed(c, k)'
    <3>1. k \in Key
      BY <1>2, <1>0, <2>2, <2>5 DEF Press, PressReaches, keyboard
    <3>2. CASE k \in failed'[c]
      BY <1>0, <2>1, <3>2, OwedFailed
    <3>3. CASE k \notin failed'[c]
      <4>1. k # Operand(c) => k \in down /\ presser[k] = c
        BY <1>2, <1>0, <2>2, <2>5 DEF Press, PressReaches, keyboard
      <4>2. k # Operand(c) => k \notin failed[c]
        BY <1>2, <1>0, <3>3 DEF Press, Answered, Errs
      <4>3. k # Operand(c) => k \in Pending(Calls(c), step[c])
        BY <2>1, <4>1, <4>2 DEF Released, Owed
      <4>4. Calls(c) \in Seq(CallSet) /\ step[c] \in 1 .. Len(Calls(c))
        BY <2>1, NextCall
      <4>5. CASE Errs(c, Operand(c)) /\ Abort(c)
        <5>1. Operand(c) \in failed'[c]
          BY <1>0, <4>5 DEF Errs
        <5> QED
          BY <1>0, <2>1, <3>3, <4>3, <4>5, <5>1, OwedAbort
      <4>6. CASE Answered(c, Operand(c)) /\ Advance(c)
        <5>1. k \in Pending(Calls(c), step[c] + 1)
          BY <2>2, <3>1, <4>3, <4>4, PendingStays
        <5> QED
          BY <1>0, <2>1, <4>6, <5>1, OwedAdvance
      <4> QED
        BY <1>2, <4>5, <4>6 DEF Press
    <3> QED
      BY <3>2, <3>3
  <2> QED
    BY <1>a, <2>3, <2>4, <2>5
<1>3. CASE Release(c)
  <2>1. pc[c] = "perform" /\ (Advance(c) \/ Abort(c)) /\ At(c, "release")
    BY <1>3 DEF Release, At
  <2>2. Operand(c) \in Key /\ Calls(c)[step[c]] = <<"release", Operand(c)>>
    BY <2>1, OperandIsKey DEF At
  <2>3. \A d \in Cmd \ {c} : pc'[d] = pc[d] /\ step'[d] = step[d] /\ failed'[d] = failed[d]
    BY <1>3, <1>0 DEF Release, Advance, Abort, To, Answered, Errs
  <2>4. ASSUME NEW d \in Cmd \ {c}, NEW k \in down', presser'[k] = d
        PROVE  k \in down /\ presser[k] = d
    BY <1>3, <1>0, <2>2, <2>4 DEF Release, ReleaseReaches, keyboard
  <2>5. ASSUME NEW k \in down', presser'[k] = c PROVE Owed(c, k)'
    <3>1. k \in Key
      BY <1>3, <1>0, <2>2, <2>5 DEF Release, ReleaseReaches, keyboard
    <3>2. CASE k \in failed'[c]
      BY <1>0, <2>1, <3>2, OwedFailed
    <3>3. CASE k \notin failed'[c]
      <4>1. k # Operand(c) => k \in down /\ presser[k] = c
        BY <1>3, <1>0, <2>2, <2>5 DEF Release, ReleaseReaches, keyboard
      <4>2. k # Operand(c) => k \notin failed[c]
        BY <1>3, <1>0, <3>3 DEF Release, Answered, Errs
      <4>3. k # Operand(c) => k \in Pending(Calls(c), step[c])
        BY <2>1, <4>1, <4>2 DEF Released, Owed
      <4>4. Calls(c) \in Seq(CallSet) /\ step[c] \in 1 .. Len(Calls(c))
        BY <2>1, NextCall
      <4>5. CASE Errs(c, Operand(c)) /\ Abort(c)
        <5>1. Operand(c) \in failed'[c]
          BY <1>0, <4>5 DEF Errs
        <5> QED
          BY <1>0, <2>1, <3>3, <4>3, <4>5, <5>1, OwedAbort
      <4>6. CASE Answered(c, Operand(c)) /\ Advance(c)
        <5>1. k # Operand(c)
          BY <1>3, <1>0, <2>5, <3>3, <4>6 DEF Release, ReleaseReaches, Errs
        <5>2. Calls(c)[step[c]] # <<"release", k>>
          BY <2>2, <5>1
        <5>3. k \in Pending(Calls(c), step[c] + 1)
          BY <3>1, <4>3, <4>4, <5>1, <5>2, PendingStays
        <5> QED
          BY <1>0, <2>1, <4>6, <5>3, OwedAdvance
      <4> QED
        BY <1>3, <4>5, <4>6 DEF Release
    <3> QED
      BY <3>2, <3>3
  <2> QED
    BY <1>a, <2>3, <2>4, <2>5
<1>4. CASE Chord(c)
  <2>1. /\ pc[c] = "perform" /\ (Advance(c) \/ Abort(c)) /\ ~ At(c, "press")
        /\ ~ At(c, "release") /\ UNCHANGED <<down, presser, failed>>
    BY <1>4 DEF Chord, At, keyboard, ChordReaches
  <2> QED
    BY <1>b, <2>1
<1>5. CASE Move(c)
  <2>1. /\ pc[c] = "perform" /\ (Advance(c) \/ Abort(c)) /\ ~ At(c, "press")
        /\ ~ At(c, "release") /\ UNCHANGED <<down, presser, failed>>
    BY <1>5 DEF Move, At, keyboard
  <2> QED
    BY <1>b, <2>1
<1>6. CASE Call(c)
  <2>1. /\ pc[c] = "perform" /\ (Advance(c) \/ Abort(c)) /\ ~ At(c, "press")
        /\ ~ At(c, "release") /\ UNCHANGED <<down, presser, failed>>
    BY <1>6 DEF Call, At, keyboard
  <2> QED
    BY <1>b, <2>1
<1>7. CASE Capture(c)
  <2>1. /\ pc[c] = "perform" /\ (Advance(c) \/ Abort(c)) /\ ~ At(c, "press")
        /\ ~ At(c, "release") /\ UNCHANGED <<down, presser, failed>>
    BY <1>7 DEF Capture, At, keyboard
  <2> QED
    BY <1>b, <2>1
<1>8. CASE Recall(c)
  <2>1. /\ pc[c] = "perform" /\ (Advance(c) \/ Abort(c)) /\ ~ At(c, "press")
        /\ ~ At(c, "release") /\ UNCHANGED <<down, presser, failed>>
    BY <1>8 DEF Recall, At, keyboard
  <2> QED
    BY <1>b, <2>1
<1>9. CASE Recheck(c)
  <2>1. /\ pc[c] = "perform" /\ (Advance(c) \/ Abort(c)) /\ ~ At(c, "press")
        /\ ~ At(c, "release") /\ UNCHANGED <<down, presser, failed>>
    BY <1>9 DEF Recheck, At, keyboard
  <2> QED
    BY <1>b, <2>1
<1>10. CASE Find(c)
  <2>1. /\ pc[c] = "perform" /\ (Advance(c) \/ Abort(c)) /\ ~ At(c, "press")
        /\ ~ At(c, "release") /\ UNCHANGED <<down, presser, failed>>
    BY <1>10 DEF Find, At, keyboard
  <2> QED
    BY <1>b, <2>1
<1>11. CASE Expire(c)
  <2>1. UNCHANGED <<pc, step, failed, down, presser>>
    BY <1>11 DEF Expire, keyboard
  <2>2. \A k \in down : presser[k] = c => Owed(c, k)'
    BY <1>0, <2>1 DEF Released, Owed, Calls, Tapped, Hotkey
  <2> QED
    BY <1>a, <2>1, <2>2
<1> QED
  BY <1>1, <1>2, <1>3, <1>4, <1>5, <1>6, <1>7, <1>8, <1>9, <1>10, <1>11 DEF
     Perform

(* Every step keeps Released.                                              *)
LEMMA ReleasedStep ==
  ASSUME Typed, Released, [AllNext]_allVars
  PROVE  Released'
<1>1. disturbed' \in SUBSET Cmd
  BY DEF AllNext, Watch, allVars, Typed, OwnTypeOK
<1>2. CASE [Next]_vars /\ step' = step
  BY <1>2, HotkeysReleased DEF Typed
<1>3. ASSUME NEW c \in Cmd, Start(c) \/ Perform(c) \/ Expire(c) PROVE Released'
  BY <1>1, <1>3, OwnTypes, OwnReleased
<1>4. ASSUME NEW p \in Port, Redraw(p) PROVE Released'
  <2>1. [Next]_vars /\ step' = step
    BY <1>1, <1>4, RedrawTypes
  <2> QED
    BY <1>2, <2>1
<1> QED
  BY <1>2, <1>3, <1>4, AllSteps DEF own

(* What a command took of the device it gives back on every path through   *)
(* its calls: a key it left down is one whose last call returned an error, *)
(* and so is a lock file that outlives its selection.                      *)
THEOREM AlwaysGivenBack == AllSpec => []GivenBack
<1>1. AllInit => Released
  BY DEF AllInit, Init, Released
<1>2. Typed /\ Released /\ [AllNext]_allVars => Released'
  BY ReleasedStep
<1>3. Typed /\ Freed /\ Released => GivenBack
  <2> SUFFICES ASSUME Typed, Freed, Released PROVE GivenBack
    OBVIOUS
  <2>1. LockFreed
    BY DEF Freed, LockFreed
  <2>2. KeysReleased
    <3> SUFFICES ASSUME NEW c \in Cmd, pc[c] = "returned", NEW k \in down, presser[k] = c
                 PROVE  \/ k \in failed[c]
                        \/ kind[c] = "mouse_button"
                        \/ kind[c] = "keyboard_text" /\ k = Shift /\ Letter \in failed[c]
      BY DEF KeysReleased
    <3>1. Owed(c, k)
      BY DEF Released
    <3> QED
      BY <3>1 DEF Owed
  <2> QED
    BY <2>1, <2>2 DEF GivenBack
<1> QED
  BY <1>1, <1>2, <1>3, AlwaysLocked, PTL DEF AllSpec

-----------------------------------------------------------------------------
(* The OCR loop. *)

(* What a licensed action was given is what it saw and what is shown.      *)
Moved(c) == \E m \in 1 .. step[c] - 1 : Calls(c)[m] = <<"move", "text">>
Sighted ==
  \A c \in Cmd : Licensed(c) /\ c \notin disturbed =>
    /\ Shown = asked[c] /\ seen[c] = asked[c]
    /\ Moved(c) => pointer[port] = asked[c]

Seeing(c) ==
  /\ Shown = asked[c] /\ seen[c] = asked[c]
  /\ Moved(c) => pointer[port] = asked[c]

(* A licensed action is about to search, to move or to press.              *)
LEMMA LicensedCall ==
  ASSUME Typed, NEW c \in Cmd, Licensed(c)
  PROVE  /\ pc[c] = "perform" /\ step[c] \in 1 .. Len(Calls(c))
         /\ Calls(c) \in Seq(CallSet) /\ Calls(c)[step[c]] \in CallSet
         /\ \/ Calls(c)[step[c]] \in {<<"find">>, <<"move", "text">>}
            \/ /\ Calls(c)[step[c]][1] = "press" /\ ~ ToPress(Calls(c), step[c] + 1)
               /\ Calls(c)[step[c]][2] = Left => Moved(c)
<1>1. /\ pc[c] = "perform" /\ step[c] \in 1 .. Len(Calls(c))
      /\ WellBehaved(Calls(c), kind[c])
      /\ Calls(c) \in Seq(CallSet) /\ Calls(c)[step[c]] \in CallSet
  BY NextCall DEF Licensed
<1>2. Rechecked(Calls(c), step[c]) /\ ToPress(Calls(c), step[c])
  BY DEF Licensed, Rechecked, ToPress
<1> QED
  BY <1>1, <1>2 DEF WellBehaved, Guarded, Moved

(* While it makes no call, what it was given and saw stays.                *)
LEMMA SeeingStays ==
  ASSUME Typed, NEW c \in Cmd, Seeing(c), Scene' = Scene,
         kind' = kind, step'[c] = step[c], asked'[c] = asked[c], seen'[c] = seen[c]
  PROVE  Seeing(c)'
<1>1. Moved(c)' = Moved(c)
  BY DEF Moved, Calls
<1>2. Shown' = Shown /\ (pointer[port])' = pointer[port]
  BY DEF Scene
<1> QED
  BY <1>1, <1>2 DEF Seeing

(* A step of another command, of the switch or of a machine.               *)
LEMMA SightedElsewhere ==
  ASSUME Typed, Sighted, Watch, NEW c \in Cmd, Licensed(c)', c \notin disturbed',
         kind' = kind, pc'[c] = "perform" => pc[c] = "perform",
         step'[c] = step[c], asked'[c] = asked[c], seen'[c] = seen[c]
  PROVE  Seeing(c)'
<1>1. Calls(c)' = Calls(c)
  BY DEF Calls
<1>2. Licensed(c)
  BY <1>1 DEF Licensed
<1>3. c \notin disturbed /\ Scene' = Scene
  BY <1>2 DEF Watch
<1>4. Seeing(c)
  BY <1>2, <1>3 DEF Sighted, Seeing
<1> QED
  BY <1>3, <1>4, SeeingStays

(* The action's own next call.                                             *)
LEMMA LicensedAdvance ==
  ASSUME Typed, NEW c \in Cmd, Proceeds(c), kind' = kind, pc[c] = "perform", Licensed(c)'
  PROVE  /\ step'[c] = step[c] + 1 /\ Calls(c)' = Calls(c)
         /\ ToPress(Calls(c), step[c] + 1) /\ Rechecked(Calls(c), step[c] + 1)
         /\ Licensed(c) \/ At(c, "recheck")
<1>1. /\ pc \in [Cmd -> Label] /\ step \in [Cmd -> 1 .. 9] /\ Calls(c)' = Calls(c)
      /\ step[c] \in 1 .. Len(Calls(c)) /\ Calls(c) \in Seq(CallSet)
  BY NextCall DEF Typed, TypeOK, OwnTypeOK, Calls
<1>2. pc'[c] = "perform"
  BY DEF Licensed
<1>3. step'[c] = step[c] + 1 /\ step[c] < Len(Calls(c))
  BY <1>1, <1>2 DEF Proceeds
<1>4. ToPress(Calls(c), step[c] + 1) /\ Rechecked(Calls(c), step[c] + 1)
  BY <1>1, <1>3 DEF Licensed, ToPress, Rechecked
<1>5. ToPress(Calls(c), step[c])
  <2>1. PICK m \in step[c] + 1 .. Len(Calls(c)) : Calls(c)[m][1] = "press"
    BY <1>4 DEF ToPress
  <2>2. m \in step[c] .. Len(Calls(c))
    BY <1>1
  <2> QED
    BY <2>1, <2>2 DEF ToPress
<1>6. PICK m \in 1 .. (step[c] + 1) - 1 : Calls(c)[m][1] = "recheck"
  BY <1>4 DEF Rechecked
<1>7. CASE m = step[c]
  BY <1>1, <1>3, <1>4, <1>6, <1>7 DEF At
<1>8. CASE m # step[c]
  <2>1. m \in 1 .. step[c] - 1
    BY <1>1, <1>8
  <2>2. Licensed(c)
    BY <1>5, <1>6, <2>1 DEF Licensed, ToPress
  <2> QED
    BY <1>1, <1>3, <1>4, <2>2
<1> QED
  BY <1>7, <1>8

(* One call of the OCR loop keeps Sighted.                                 *)
LEMMA SightedCall ==
  ASSUME Typed, Sighted, Watch, NEW c \in Cmd, Perform(c), UNCHANGED rest,
         Licensed(c)', c \notin disturbed'
  PROVE  Seeing(c)'
<1>1. /\ Proceeds(c) /\ pc[c] = "perform" /\ kind' = kind
      /\ pc \in [Cmd -> Label] /\ step \in [Cmd -> 1 .. 9]
  BY AdvanceOrAbort DEF Perform, Press, Release, Chord, Move, Call, Capture, Recall, Recheck, Find,
     At, rest, Typed, TypeOK, OwnTypeOK
<1>2. /\ step'[c] = step[c] + 1 /\ Calls(c)' = Calls(c)
      /\ ToPress(Calls(c), step[c] + 1) /\ Rechecked(Calls(c), step[c] + 1)
      /\ Licensed(c) \/ At(c, "recheck")
  BY <1>1, LicensedAdvance
<1>3. /\ step[c] \in 1 .. Len(Calls(c)) /\ WellBehaved(Calls(c), kind[c])
      /\ Calls(c) \in Seq(CallSet) /\ Calls(c)[step[c]] \in CallSet
  BY <1>1, NextCall
<1>4. CASE Licensed(c)
  <2>1. c \notin disturbed
    BY <1>4 DEF Watch
  <2>2. Seeing(c)
    BY <1>4, <2>1 DEF Sighted, Seeing
  <2>3. Calls(c)[step[c]] \in {<<"find">>, <<"move", "text">>}
    BY <1>2, <1>4, LicensedCall
  <2>4. CASE Calls(c)[step[c]] = <<"find">>
    <3>1. Find(c)
      BY <2>4 DEF Perform, Press, Release, Chord, Move, Call, Capture, Recall, Recheck, At
    <3>2. UNCHANGED <<port, picture, pointer, seen, asked>>
      BY <3>1 DEF Find, keyboard, screens, loop
    <3>3. Moved(c)' => Moved(c)
      <4> SUFFICES ASSUME NEW m \in 1 .. (step[c] + 1) - 1, Calls(c)[m] = <<"move", "text">>
                   PROVE  Moved(c)
        BY <1>2 DEF Moved
      <4>1. m # step[c]
        BY <2>4
      <4>2. m \in 1 .. step[c] - 1
        BY <1>1, <4>1
      <4> QED
        BY <4>2 DEF Moved
    <3> QED
      BY <2>2, <3>2, <3>3 DEF Seeing, Shown
  <2>5. CASE Calls(c)[step[c]] = <<"move", "text">>
    <3>1. Move(c) /\ Operand(c) = "text"
      BY <2>5 DEF Perform, Press, Release, Chord, Find, Call, Capture, Recall, Recheck, At, Operand
    <3>2. UNCHANGED <<port, picture, seen, asked>>
      BY <3>1 DEF Move, keyboard, loop
    <3>3. MoveReaches(c)
      BY <1>1, <1>2, <3>1 DEF Move, Abort
    <3>4. pointer'[port] = seen[c]
      BY <3>1, <3>3 DEF MoveReaches, Typed, TypeOK, OwnTypeOK
    <3> QED
      BY <2>2, <3>2, <3>4 DEF Seeing, Shown
  <2> QED
    BY <2>3, <2>4, <2>5
<1>5. CASE At(c, "recheck")
  <2>1. Recheck(c)
    BY <1>5 DEF Perform, Press, Release, Chord, Move, Call, Capture, Recall, Find, At
  <2>2. Calls(c)[step[c]] = <<"recheck">>
    BY <1>3, <1>5 DEF At, CallSet
  <2>3. UNCHANGED <<port, picture, pointer, asked>>
    BY <2>1 DEF Recheck, keyboard, screens
  <2>4. seen'[c] = Shown /\ Shown = asked[c]
    BY <1>1, <1>2, <2>1 DEF Recheck, Snapshot, Taken, Abort, Typed, OwnTypeOK
  <2>5. ~ Moved(c)'
    <3>1. \A m \in 1 .. step[c] : Calls(c)[m][1] # "move"
      BY <1>3, <2>2 DEF WellBehaved, Guarded
    <3>2. \A m \in 1 .. (step[c] + 1) - 1 : m \in 1 .. step[c]
      BY <1>1
    <3> QED
      BY <1>2, <3>1, <3>2 DEF Moved
  <2> QED
    BY <2>3, <2>4, <2>5 DEF Seeing, Shown
<1> QED
  BY <1>2, <1>4, <1>5

(* What the other steps leave of a command that is not theirs.             *)
LEMMA OwnElsewhere ==
  ASSUME Typed, NEW c \in Cmd, Start(c) \/ Perform(c) \/ Expire(c),
         NEW d \in Cmd, d # c \/ Expire(c)
  PROVE  /\ pc'[d] = pc[d] /\ step'[d] = step[d]
         /\ asked'[d] = asked[d] /\ seen'[d] = seen[d]
<1>0. /\ pc \in [Cmd -> Label] /\ step \in [Cmd -> 1 .. 9]
      /\ asked \in [Cmd -> Picture \cup {NoPicture}]
      /\ seen \in [Cmd -> Picture \cup {NoPicture}]
  BY DEF Typed, TypeOK, OwnTypeOK
<1>1. CASE Start(c) /\ d # c
  BY <1>0, <1>1 DEF Start, To, own, loop
<1>2. CASE Perform(c) /\ d # c
  <2>1. Proceeds(c)
    BY <1>2, AdvanceOrAbort DEF Perform, Press, Release, Chord, Move, Call, Capture, Recall,
       Recheck, Find
  <2>2. pc'[d] = pc[d] /\ step'[d] = step[d]
    BY <1>0, <1>2, <2>1 DEF Proceeds
  <2>3. asked'[d] = asked[d] /\ seen'[d] = seen[d]
    BY <1>0, <1>2 DEF Perform, Press, Release, Chord, Move, Call, Capture, Recall, Recheck,
       Find, Taken, loop
  <2> QED
    BY <2>2, <2>3
<1>3. CASE Expire(c)
  BY <1>3 DEF Expire
<1> QED
  BY <1>1, <1>2, <1>3

(* Every step keeps Sighted.                                               *)
LEMMA SightedStep ==
  ASSUME Typed, Sighted, [AllNext]_allVars
  PROVE  Sighted'
<1>1. disturbed' \in SUBSET Cmd
  BY DEF AllNext, Watch, allVars, Typed, OwnTypeOK
<1>2. CASE UNCHANGED allVars
  <2>1. \A c \in Cmd : Licensed(c)' = Licensed(c) /\ Moved(c)' = Moved(c)
    BY <1>2 DEF allVars, vars, own, Licensed, Moved, Calls
  <2>2. UNCHANGED <<picture, pointer, port, asked, seen, disturbed>>
    BY <1>2 DEF allVars, vars, own, keyboard, screens, loop
  <2> QED
    BY <2>1, <2>2 DEF Sighted, Shown
<1>3. CASE AllNext
  <2> SUFFICES ASSUME NEW c \in Cmd, Licensed(c)', c \notin disturbed' PROVE Seeing(c)'
    BY DEF Sighted, Seeing
  <2>1. Watch
    BY <1>3 DEF AllNext
  <2>2. CASE HotkeyStep
    <3>1. kind' = kind /\ \A d \in Cmd : pc'[d] \in {"idle", "perform"} => pc[d] = pc'[d]
      BY <2>2, HotkeyPlaces, HotkeyQuiet DEF HotkeyStep, own, Typed
    <3>2. step' = step /\ asked' = asked /\ seen' = seen
      BY <2>2 DEF HotkeyStep, own, loop
    <3> QED
      BY <2>1, <3>1, <3>2, SightedElsewhere
  <2>3. ASSUME NEW d \in Cmd, Start(d) \/ Perform(d) \/ Expire(d) PROVE Seeing(c)'
    <3>1. UNCHANGED rest /\ kind' = kind
      BY <1>1, <2>3, OwnTypes DEF rest
    <3>2. CASE d # c \/ Expire(d)
      BY <2>1, <2>3, <3>1, <3>2, OwnElsewhere, SightedElsewhere
    <3>3. CASE d = c /\ Perform(d)
      BY <2>1, <3>1, <3>3, SightedCall
    <3>4. CASE d = c /\ Start(d)
      <4>1. pc[c] = "idle" /\ step' = step /\ Calls(c)' = Calls(c)
        BY <3>1, <3>4 DEF Start, own, Calls
      <4>2. step[c] = 1
        BY <4>1 DEF Typed, Placed
      <4> QED
        BY <4>1, <4>2 DEF Licensed
    <3> QED
      BY <2>3, <3>2, <3>3, <3>4
  <2>4. ASSUME NEW p \in Port, Redraw(p) PROVE Seeing(c)'
    <3>1. UNCHANGED <<pc, kind, step, asked, seen>>
      BY <2>4 DEF Redraw, rest, loop
    <3> QED
      BY <2>1, <3>1, SightedElsewhere
  <2> QED
    BY <1>3, <2>2, <2>3, <2>4 DEF AllNext, OwnStep
<1> QED
  BY <1>2, <1>3

(* What a click or a key of the OCR loop is about to act on is the screen  *)
(* whose observation it was given, with the pointer on that screen's text, *)
(* unless something changed after the recheck.                             *)
THEOREM AlwaysActsOnWhatWasAsked == AllSpec => []ActsOnWhatWasAsked
<1>1. AllInit => Sighted
  BY DEF AllInit, Init, Sighted, Licensed
<1>2. Typed /\ Sighted /\ [AllNext]_allVars => Sighted'
  BY SightedStep
<1>3. Typed /\ Sighted => ActsOnWhatWasAsked
  <2> SUFFICES ASSUME Typed, Sighted, NEW c \in Cmd, At(c, "press"), Licensed(c), c \notin disturbed
               PROVE  Shown = asked[c] /\ (Operand(c) = Left => pointer[port] = asked[c])
    BY DEF ActsOnWhatWasAsked
  <2>1. Calls(c)[step[c]][1] = "press"
    BY DEF At
  <2>2. Operand(c) = Left => Moved(c)
    BY <2>1, LicensedCall DEF Operand
  <2> QED
    BY <2>2 DEF Sighted
<1> QED
  BY <1>1, <1>2, <1>3, AlwaysTyped, PTL DEF AllSpec

=============================================================================
