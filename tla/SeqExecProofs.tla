--------------------------- MODULE SeqExecProofs ----------------------------
(***************************************************************************)
(* What SeqExec satisfies for every number of runs, executors, keys and    *)
(* plans.  The invariant has eight parts, proved one after the other:      *)
(*   TypeOK, Control   a run in the middle of an action is at one of the   *)
(*                     calls of one of the actions of its plan             *)
(*   Owned             the run that acts holds its executor's lock         *)
(*   Tracked           KVMDDevice.held is what the calls so far pressed    *)
(*   Accounted         who answers for each key that is down               *)
(*   Journaled         how far each journal has come                       *)
(*   Cut               when a run whose wait was cut short can be where    *)
(*   Recorded          a key that is down has its action in a journal      *)
(***************************************************************************)
EXTENDS SeqExec, TLAPS, SequenceTheorems, WellFoundedInduction

-----------------------------------------------------------------------------
(* Least elements of sets of naturals stand in for induction, whose        *)
(* theorem takes an operator as a parameter.                               *)

(* Every nonempty set of naturals has a least element.                     *)
LEMMA LeastNat ==
  ASSUME NEW T \in SUBSET Nat, T # {}
  PROVE  \E n \in T : \A m \in T : n <= m
<1> DEFINE R == {ss \in Nat \X Nat : ss[1] < ss[2]}
<1>1. IsWellFoundedOn(R, Nat)
  BY NatLessThanWellFounded DEF OpToRel
<1> HIDE DEF R
<1>2. PICK n \in T : \A m \in T : ~ (<<m, n>> \in R)
  BY <1>1, WFMin
<1>3. \A m \in T : ~ (m < n)
  BY <1>2 DEF R
<1> QED
  BY <1>3

(* A sequence that has an element is not the empty one.                    *)
LEMMA NonEmpty == ASSUME NEW S, Len(S) # 0 PROVE S # <<>>
BY EmptySeq

-----------------------------------------------------------------------------
(* The calls of an action.                                                 *)

Call ==
  [op : {"down", "up", "forget"}, key : Key, tracked : BOOLEAN]
    \cup [op : {"sleep", "wait"}, for : Nat]
    \cup [op : {"call", "unavailable", "sweep"}]

(* The keys KVMDDevice.held has before call n of S, if every call before   *)
(* it was answered: pressed and neither released nor forgotten since.      *)
HeldBefore(S, n) ==
  {k \in Key : \E m \in 1 .. n - 1 :
     /\ S[m] = Down(k)
     /\ \A j \in m + 1 .. n - 1 : S[j] # Up(k) /\ S[j] # Forget(k)}

Balanced(S) ==
  \A m \in 1 .. Len(S), k \in Key : S[m] = Down(k) =>
    \E j \in m + 1 .. Len(S) : S[j] = Up(k) \/ S[j] = Forget(k)

OnlyUntracked(S) ==
  \A n \in 1 .. Len(S) : S[n].op \in {"down", "up", "forget"} =>
    S[n].tracked \/ S[n].key \in Untracked

Bracketed(S) == S \in Seq(Call) /\ Balanced(S) /\ OnlyUntracked(S)
NoSweep(S) == \A n \in 1 .. Len(S) : S[n].op # "sweep"
Typing(S) == Bracketed(S) /\ NoSweep(S)

(* What the proofs need to know of the calls of an action. *)
WellFormed(S) ==
  /\ Bracketed(S)
  /\ S # <<>>
  /\ \A n \in 1 .. Len(S) : S[n].op = "sweep" => n = 1

(* Concatenation keeps calls bracketed. *)
LEMMA ConcatCalls ==
  ASSUME NEW S, NEW T, Typing(S), Typing(T)
  PROVE  Typing(S \o T) /\ Len(S \o T) = Len(S) + Len(T)
<1> DEFINE U == S \o T
<1>1. S \in Seq(Call) /\ T \in Seq(Call)
  BY DEF Typing, Bracketed
<1>2. /\ U \in Seq(Call)
      /\ Len(S) \in Nat /\ Len(T) \in Nat
      /\ Len(U) = Len(S) + Len(T)
      /\ \A n \in 1 .. Len(S) : U[n] = S[n]
      /\ \A n \in 1 .. Len(T) : U[Len(S) + n] = T[n]
  BY <1>1
<1>3. \A n \in 1 .. Len(U) :
        \/ n \in 1 .. Len(S) /\ U[n] = S[n]
        \/ /\ n - Len(S) \in 1 .. Len(T) /\ U[n] = T[n - Len(S)]
           /\ n = Len(S) + (n - Len(S))
  <2> SUFFICES ASSUME NEW n \in 1 .. Len(U), n \notin 1 .. Len(S)
               PROVE  /\ n - Len(S) \in 1 .. Len(T) /\ U[n] = T[n - Len(S)]
                      /\ n = Len(S) + (n - Len(S))
    BY <1>2
  <2>1. n - Len(S) \in 1 .. Len(T) /\ n = Len(S) + (n - Len(S))
    BY <1>2
  <2> QED
    BY <1>2, <2>1
<1> HIDE DEF U
<1>4. Balanced(U)
  <2> SUFFICES ASSUME NEW m \in 1 .. Len(U), NEW k \in Key, U[m] = Down(k)
               PROVE  \E j \in m + 1 .. Len(U) : U[j] = Up(k) \/ U[j] = Forget(k)
    BY DEF Balanced
  <2>1. CASE m \in 1 .. Len(S) /\ U[m] = S[m]
    <3>1. PICK j \in m + 1 .. Len(S) : S[j] = Up(k) \/ S[j] = Forget(k)
      BY <2>1 DEF Typing, Bracketed, Balanced
    <3>2. j \in 1 .. Len(S) /\ j \in m + 1 .. Len(U)
      BY <1>2, <2>1, <3>1
    <3> QED
      BY <1>2, <3>1, <3>2
  <2>2. CASE m - Len(S) \in 1 .. Len(T) /\ U[m] = T[m - Len(S)]
    <3>1. PICK j \in (m - Len(S)) + 1 .. Len(T) : T[j] = Up(k) \/ T[j] = Forget(k)
      BY <2>2 DEF Typing, Bracketed, Balanced
    <3>2. j \in 1 .. Len(T) /\ Len(S) + j \in m + 1 .. Len(U)
      BY <1>2, <2>2, <3>1
    <3> QED
      BY <1>2, <3>1, <3>2
  <2> QED
    BY <1>3, <2>1, <2>2
<1>5. OnlyUntracked(U) /\ NoSweep(U)
  BY <1>3 DEF Typing, Bracketed, OnlyUntracked, NoSweep
<1> QED
  BY <1>2, <1>4, <1>5 DEF Typing, Bracketed, U

(* The keys and durations of the calls that have them.                     *)
LEMMA CallFields ==
  \A k :
    /\ Down(k).op = "down" /\ Down(k).key = k /\ Down(k).tracked
    /\ Up(k).op = "up" /\ Up(k).key = k /\ Up(k).tracked
    /\ Forget(k).op = "forget" /\ Forget(k).key = k /\ Forget(k).tracked
    /\ RawDown(k).op = "down" /\ RawDown(k).key = k /\ ~ RawDown(k).tracked
    /\ RawUp(k).op = "up" /\ RawUp(k).key = k /\ ~ RawUp(k).tracked
BY DEF Down, Up, Forget, RawDown, RawUp

(* A character makes calls that release what they press.                   *)
LEMMA CharStepsTyping ==
  ASSUME NEW c \in Character
  PROVE  Typing(CharSteps(c)) /\ CharSteps(c) # <<>>
<1> DEFINE S == CharSteps(c)
<1>0. c.key \in Key /\ Shift \in Key
  BY KeysAssumption DEF Character
<1>1. CASE c.kind = "plain"
  <2>1. S = <<Down(c.key), Up(c.key)>>
    BY <1>1 DEF CharSteps, Press
  <2>2. Down(c.key) \in Call /\ Up(c.key) \in Call
    BY <1>0 DEF Call, Down, Up
  <2> HIDE DEF S
  <2>3. S \in Seq(Call) /\ Len(S) = 2 /\ S[1] = Down(c.key) /\ S[2] = Up(c.key)
    BY <2>1, <2>2
  <2>4. Balanced(S)
    <3> SUFFICES ASSUME NEW m \in 1 .. 2, NEW k \in Key, S[m] = Down(k)
                 PROVE  m = 1 /\ S[2] = Up(k)
      BY <2>3 DEF Balanced
    <3>1. m = 1 \/ m = 2
      OBVIOUS
    <3> QED
      BY <2>3, <3>1, CallFields
  <2>5. OnlyUntracked(S) /\ NoSweep(S)
    BY <2>3 DEF OnlyUntracked, NoSweep, Down, Up
  <2>6. Typing(S)
    BY <2>3, <2>4, <2>5, Zenon DEF Typing, Bracketed
  <2>7. Len(S) # 0
    BY <2>3
  <2>8. S # <<>>
    BY <2>7, NonEmpty, Zenon
  <2> QED
    BY <2>6, <2>8 DEF S
<1>2. CASE c.kind = "shifted"
  <2> DEFINE P == <<RawDown(Shift)>> \o Press(c.key)
  <2>1. S = P \o <<RawUp(Shift)>>
    BY <1>2 DEF CharSteps
  <2>2. /\ Down(c.key) \in Call /\ Up(c.key) \in Call
        /\ RawDown(Shift) \in Call /\ RawUp(Shift) \in Call
    BY <1>0 DEF Call, Down, Up, RawDown, RawUp
  <2> HIDE DEF S
  <2>3. /\ P \in Seq(Call) /\ Len(P) = 3 /\ P[1] = RawDown(Shift)
        /\ P[2] = Down(c.key) /\ P[3] = Up(c.key)
    BY <2>2 DEF Press
  <2> HIDE DEF P
  <2>4. /\ S \in Seq(Call) /\ Len(S) = 4
        /\ S[1] = RawDown(Shift) /\ S[2] = Down(c.key)
        /\ S[3] = Up(c.key) /\ S[4] = RawUp(Shift)
    <3> DEFINE Last == <<RawUp(Shift)>>
    <3>1. Last \in Seq(Call) /\ Len(Last) = 1 /\ Last[1] = RawUp(Shift)
      BY <2>2
    <3> HIDE DEF Last
    <3>2. /\ P \o Last \in Seq(Call)
          /\ Len(P \o Last) = Len(P) + Len(Last)
          /\ \A j \in 1 .. Len(P) + Len(Last) :
               (P \o Last)[j] = IF j <= Len(P) THEN P[j] ELSE Last[j - Len(P)]
      <4> P \in Seq(Call) /\ Last \in Seq(Call)
        BY <2>3, <3>1
      <4> QED
        BY ConcatProperties
    <3>3. /\ S \in Seq(Call) /\ Len(S) = 4
          /\ \A j \in 1 .. 4 : S[j] = IF j <= 3 THEN P[j] ELSE Last[j - 3]
      BY <2>1, <2>3, <3>1, <3>2 DEF Last
    <3> QED
      BY <2>3, <3>1, <3>3
  <2>5. Balanced(S)
    <3> SUFFICES ASSUME NEW m \in 1 .. 4, NEW k \in Key, S[m] = Down(k)
                 PROVE  m = 2 /\ S[3] = Up(k)
      BY <2>4 DEF Balanced
    <3>1. m = 1 \/ m = 2 \/ m = 3 \/ m = 4
      OBVIOUS
    <3> QED
      BY <2>4, <3>1, CallFields
  <2>6. OnlyUntracked(S) /\ NoSweep(S)
    BY <2>4, CallFields DEF OnlyUntracked, NoSweep, Untracked
  <2> QED
    BY <2>4, <2>5, <2>6 DEF Typing, Bracketed, S
<1>3. CASE c.kind = "unsupported"
  <2>1. S = <<Other("unavailable")>>
    BY <1>3 DEF CharSteps
  <2>2. Other("unavailable") \in Call
    BY DEF Call, Other
  <2> HIDE DEF S
  <2>3. S \in Seq(Call) /\ Len(S) = 1 /\ S[1] = Other("unavailable")
    BY <2>1, <2>2
  <2> QED
    BY <2>3 DEF Typing, Bracketed, NoSweep, Balanced, OnlyUntracked, Other, Down, S
<1> QED
  BY <1>1, <1>2, <1>3 DEF Character

(* Text makes the calls of its characters, one character after another:    *)
(* the first character for which that fails does not exist.                *)
LEMMA TextStepsTyping ==
  ASSUME NEW chars \in Seq(Character), chars # <<>>
  PROVE  Typing(TextSteps(chars)) /\ TextSteps(chars) # <<>>
<1> DEFINE N == Len(chars)
           F(n, g) == IF n = 0 THEN <<>> ELSE g[n - 1] \o CharSteps(chars[n])
           upTo == CHOOSE g : g = [n \in 0 .. N |-> F(n, g)]
<1>1. N \in Nat \ {0} /\ \A n \in 1 .. N : chars[n] \in Character
  OBVIOUS
<1> HIDE DEF N
<1>2. TextSteps(chars) = upTo[N]
  BY DEF TextSteps, N
<1> DEFINE Defined(n) == \E g : g = [m \in 0 .. n |-> F(m, g)]
<1>3. \A n \in 0 .. N : Defined(n)
  <2> DEFINE T == {n \in 0 .. N : ~ Defined(n)}
  <2> HIDE DEF Defined
  <2> SUFFICES ASSUME T # {} PROVE FALSE
    OBVIOUS
  <2> T \in SUBSET Nat
    BY <1>1
  <2> HIDE DEF T
  <2>1. PICK n \in T : \A m \in T : n <= m
    BY LeastNat
  <2> n \in 0 .. N
    BY DEF T
  <2>2. n # 0
    <3> DEFINE g == [m \in 0 .. 0 |-> <<>>]
    <3>1. g = [m \in 0 .. 0 |-> F(m, g)]
      OBVIOUS
    <3> QED
      BY <3>1 DEF T, Defined
  <2>3. n - 1 \in 0 .. N /\ n - 1 \notin T
    BY <2>1, <2>2, <1>1
  <2>4. PICK g : g = [m \in 0 .. n - 1 |-> F(m, g)]
    <3>1. \A m \in 0 .. N : m \notin T => Defined(m)
      BY Zenon DEF T
    <3>2. Defined(n - 1)
      BY <2>3, <3>1, Zenon
    <3> QED
      BY <3>2, Zenon DEF Defined
  <2> DEFINE h == [m \in 0 .. n |->
                     IF m < n THEN g[m] ELSE g[n - 1] \o CharSteps(chars[n])]
  <2>5. h = [m \in 0 .. n |-> F(m, h)]
    <3> SUFFICES ASSUME NEW m \in 0 .. n PROVE h[m] = F(m, h)
      OBVIOUS
    <3>1. CASE m < n
      <4>1. m \in 0 .. n - 1 /\ (m # 0 => m - 1 \in 0 .. n /\ m - 1 < n)
        BY <3>1
      <4>2. h[m] = g[m] /\ (m # 0 => h[m - 1] = g[m - 1])
        BY <3>1, <4>1
      <4> HIDE DEF h, F
      <4>3. g[m] = F(m, g)
        BY <2>4, <4>1, Zenon
      <4> QED
        BY <4>2, <4>3, Zenon DEF F
    <3>2. CASE m = n
      <4>1. m # 0 /\ h[m] = g[m - 1] \o CharSteps(chars[m]) /\ h[m - 1] = g[m - 1]
        BY <3>2, <2>2, <1>1, <2>1
      <4> HIDE DEF h
      <4> QED
        BY <4>1, Zenon
    <3> QED
      BY <3>1, <3>2, <1>1, <2>1
  <2> QED
    BY <2>5 DEF T, Defined
<1>4. upTo = [n \in 0 .. N |-> F(n, upTo)]
  <2> N \in 0 .. N
    BY <1>1
  <2> QED
    BY <1>3, Zenon
<1> HIDE DEF upTo
<1>5. upTo[0] = <<>> /\ \A n \in 1 .. N : upTo[n] = upTo[n - 1] \o CharSteps(chars[n])
  BY <1>4, <1>1
<1>6. \A n \in 0 .. N : Typing(upTo[n]) /\ (n # 0 => upTo[n] # <<>>)
  <2> DEFINE T == {n \in 0 .. N : ~ (Typing(upTo[n]) /\ (n # 0 => upTo[n] # <<>>))}
  <2> SUFFICES ASSUME T # {} PROVE FALSE
    OBVIOUS
  <2> T \in SUBSET Nat
    BY <1>1
  <2> HIDE DEF T
  <2>1. PICK n \in T : \A m \in T : n <= m
    BY LeastNat
  <2> n \in 0 .. N
    BY DEF T
  <2>2. n # 0
    <3>1. <<>> \in Seq(Call) /\ 1 .. Len(<<>>) = {}
      OBVIOUS
    <3>2. Typing(<<>>)
      BY <3>1 DEF Typing, Bracketed, NoSweep, Balanced, OnlyUntracked
    <3> QED
      BY <3>2, <1>5 DEF T
  <2>3. n \in 1 .. N /\ n - 1 \in 0 .. N /\ n - 1 \notin T
    BY <2>1, <2>2, <1>1
  <2>4. Typing(upTo[n - 1])
    BY <2>3 DEF T
  <2>5. Typing(CharSteps(chars[n])) /\ CharSteps(chars[n]) # <<>>
    BY <2>3, <1>1, CharStepsTyping
  <2>6. Typing(upTo[n]) /\ Len(upTo[n]) = Len(upTo[n - 1]) + Len(CharSteps(chars[n]))
    BY <2>3, <2>4, <2>5, <1>5, ConcatCalls
  <2>7. upTo[n] # <<>>
    <3>1. Len(CharSteps(chars[n])) # 0 /\ Len(CharSteps(chars[n])) \in Nat
      BY <2>5, EmptySeq DEF Typing, Bracketed
    <3>2. Len(upTo[n - 1]) \in Nat
      BY <2>4, LenProperties DEF Typing, Bracketed
    <3>3. Len(upTo[n]) = Len(upTo[n - 1]) + Len(CharSteps(chars[n]))
      BY <2>6
    <3>4. \A a, b \in Nat : b # 0 => a + b # 0
      OBVIOUS
    <3>5. Len(upTo[n]) # 0
      BY <3>1, <3>2, <3>3, <3>4, Zenon
    <3> QED
      BY <3>5, EmptySeq
  <2> QED
    BY <2>6, <2>7 DEF T
<1> QED
  BY <1>1, <1>2, <1>6

(* A click makes untracked calls, and ends with a release.                 *)
LEMMA ClickStepsWellFormed ==
  ASSUME NEW b \in Untracked, NEW count \in Nat \ {0}
  PROVE  WellFormed(ClickSteps(b, count))
<1> DEFINE S == ClickSteps(b, count)
<1>1. b \in Key
  BY KeysAssumption DEF Untracked
<1>2. RawDown(b) \in Call /\ RawUp(b) \in Call
  BY <1>1 DEF RawDown, RawUp, Call
<1>3. 2 * count \in Nat \ {0}
  OBVIOUS
<1>4. /\ S \in Seq(Call) /\ Len(S) = 2 * count
      /\ \A n \in 1 .. Len(S) : S[n] = RawDown(b) \/ S[n] = RawUp(b)
  BY <1>2, <1>3, IsASeq DEF ClickSteps
<1> HIDE DEF S
<1>5. Balanced(S)
  BY <1>4, CallFields DEF Balanced
<1>6. OnlyUntracked(S)
  BY <1>4, CallFields DEF OnlyUntracked
<1>7. S # <<>>
  BY <1>3, <1>4
<1>8. \A n \in 1 .. Len(S) : S[n].op # "sweep"
  BY <1>4, CallFields
<1> QED
  BY <1>4, <1>5, <1>6, <1>7, <1>8 DEF WellFormed, Bracketed, S

(* The calls of every valid action are well formed. *)
LEMMA StepsWellFormed ==
  ASSUME NEW a \in PlanAction, a.type = "mouse_click" => a.key \in Untracked
  PROVE  WellFormed(Steps(a))
<1> DEFINE S == Steps(a)
<1>1. ASSUME NEW c \in Call, S = <<c>>, c.op \notin {"down", "up", "forget"}
      PROVE  WellFormed(S)
  <2> HIDE DEF S
  <2>1. S \in Seq(Call) /\ Len(S) = 1 /\ S[1] = c /\ S # <<>>
    BY <1>1
  <2>2. Balanced(S)
    BY <2>1, <1>1, CallFields DEF Balanced
  <2> QED
    BY <2>1, <2>2, <1>1 DEF WellFormed, Bracketed, OnlyUntracked
<1>2. ASSUME Typing(S), S # <<>> PROVE WellFormed(S)
  BY <1>2 DEF WellFormed, Typing, NoSweep
<1>3. \A op \in {"call", "unavailable", "sweep"} : Other(op) \in Call /\ Other(op).op = op
  BY DEF Other, Call
<1>4. CASE a \in [type : {"key"}, key : Key]
  <2>1. CASE HasShortcut
    <3>1. S = <<Other("call")>>
      BY <1>4, <2>1 DEF Steps
    <3> QED
      BY <1>1, <1>3, <3>1
  <2>2. CASE ~ HasShortcut
    <3> DEFINE c == [key |-> a.key, kind |-> "plain"]
    <3>1. c \in Character /\ CharSteps(c) = Press(a.key)
      BY <1>4 DEF Character, CharSteps
    <3>2. S = CharSteps(c)
      BY <1>4, <2>2, <3>1 DEF Steps
    <3> QED
      BY <1>2, <3>1, <3>2, CharStepsTyping
  <2> QED
    BY <2>1, <2>2, KeysAssumption
<1>5. CASE a \in [type : {"hold_key"}, key : Key, for : Nat \ {0}]
  <2>1. S = <<Down(a.key), Sleep(a.for), Forget(a.key)>>
    BY <1>5 DEF Steps
  <2>2. Down(a.key) \in Call /\ Sleep(a.for) \in Call /\ Forget(a.key) \in Call
    BY <1>5 DEF Down, Sleep, Forget, Call
  <2> HIDE DEF S
  <2>3. /\ S \in Seq(Call) /\ Len(S) = 3
        /\ S[1] = Down(a.key) /\ S[2] = Sleep(a.for) /\ S[3] = Forget(a.key)
    BY <2>1, <2>2
  <2>4. Sleep(a.for).op = "sleep"
    BY DEF Sleep
  <2>5. Balanced(S)
    <3> SUFFICES ASSUME NEW m \in 1 .. 3, NEW k \in Key, S[m] = Down(k)
                 PROVE  m = 1 /\ S[3] = Forget(k)
      BY <2>3 DEF Balanced
    <3>1. m = 1 \/ m = 2 \/ m = 3
      OBVIOUS
    <3> QED
      BY <2>3, <2>4, <3>1, CallFields
  <2>6. OnlyUntracked(S) /\ NoSweep(S) /\ S # <<>>
    BY <2>3, <2>4, CallFields DEF OnlyUntracked, NoSweep
  <2> QED
    BY <2>3, <2>5, <2>6, <1>2 DEF Typing, Bracketed, S
<1>6. CASE a \in [type : {"text"}, chars : Seq(Character) \ {<<>>}]
  <2>1. S = TextSteps(a.chars)
    BY <1>6 DEF Steps
  <2> QED
    BY <1>2, <1>6, <2>1, TextStepsTyping
<1>7. CASE a \in [type : {"mouse_click"}, key : Key, count : Nat \ {0}]
  <2>1. S = ClickSteps(a.key, a.count)
    BY <1>7 DEF Steps
  <2> QED
    BY <1>7, <2>1, ClickStepsWellFormed
<1>8. CASE a \in [type : {"wait"}, for : Nat \ {0}]
  <2>1. S = <<Wait(a.for)>>
    BY <1>8 DEF Steps
  <2>2. Wait(a.for) \in Call /\ Wait(a.for).op = "wait"
    BY <1>8 DEF Wait, Call
  <2> QED
    BY <1>1, <2>1, <2>2
<1>9. CASE a \in [type : {"release_all", "mouse_move", "mouse_move_pct",
                         "mouse_scroll", "assert_screen"}]
  <2>1. \E op \in {"call", "unavailable", "sweep"} : S = <<Other(op)>>
    BY <1>9 DEF Steps
  <2> QED
    BY <1>1, <1>3, <2>1
<1> QED
  BY <1>4, <1>5, <1>6, <1>7, <1>8, <1>9 DEF PlanAction

-----------------------------------------------------------------------------
(* HeldBefore follows the calls one by one, from nothing to nothing. *)

(* The three kinds of calls.                                               *)
LEMMA CallCases ==
  ASSUME NEW c \in Call, c.op \in {"down", "up", "forget"}
  PROVE  /\ c.key \in Key /\ c.tracked \in BOOLEAN
         /\ c.tracked => c \in {Down(c.key), Up(c.key), Forget(c.key)}
BY DEF Call, Down, Up, Forget

(* After a tracked press its key is held too.                              *)
LEMMA HeldAfterDown ==
  ASSUME NEW S, NEW n \in Nat \ {0}, NEW k \in Key, S[n] = Down(k)
  PROVE  HeldBefore(S, n + 1) = HeldBefore(S, n) \cup {k}
<1>1. ASSUME NEW x \in HeldBefore(S, n + 1) PROVE x \in HeldBefore(S, n) \cup {k}
  <2>1. PICK m \in 1 .. n : /\ S[m] = Down(x)
                            /\ \A j \in m + 1 .. n : S[j] # Up(x) /\ S[j] # Forget(x)
    BY <1>1 DEF HeldBefore
  <2>2. CASE m = n
    BY <2>1, <2>2, CallFields
  <2>3. CASE m \in 1 .. n - 1
    BY <1>1, <2>1, <2>3 DEF HeldBefore
  <2> QED
    BY <2>2, <2>3
<1>2. ASSUME NEW x \in HeldBefore(S, n) PROVE x \in HeldBefore(S, n + 1)
  <2>1. PICK m \in 1 .. n - 1 :
          /\ S[m] = Down(x)
          /\ \A j \in m + 1 .. n - 1 : S[j] # Up(x) /\ S[j] # Forget(x)
    BY <1>2 DEF HeldBefore
  <2>2. S[n] # Up(x) /\ S[n] # Forget(x)
    BY CallFields
  <2>3. \A j \in m + 1 .. n : S[j] # Up(x) /\ S[j] # Forget(x)
    BY <2>1, <2>2
  <2> QED
    BY <1>2, <2>1, <2>3 DEF HeldBefore
<1>3. k \in HeldBefore(S, n + 1)
  BY DEF HeldBefore
<1> QED
  BY <1>1, <1>2, <1>3

(* After any other call, held is what KVMDDevice makes of it.              *)
LEMMA HeldAfterOther ==
  ASSUME NEW S, NEW n \in Nat \ {0}, \A k \in Key : S[n] # Down(k)
  PROVE  HeldBefore(S, n + 1) =
           {k \in HeldBefore(S, n) : S[n] # Up(k) /\ S[n] # Forget(k)}
<1>1. ASSUME NEW x \in HeldBefore(S, n + 1)
      PROVE  x \in HeldBefore(S, n) /\ S[n] # Up(x) /\ S[n] # Forget(x)
  <2>1. PICK m \in 1 .. n : /\ S[m] = Down(x)
                            /\ \A j \in m + 1 .. n : S[j] # Up(x) /\ S[j] # Forget(x)
    BY <1>1 DEF HeldBefore
  <2>2. m # n /\ x \in Key
    BY <1>1, <2>1 DEF HeldBefore
  <2>3. m \in 1 .. n - 1 /\ n \in m + 1 .. n
    BY <2>2
  <2> QED
    BY <2>1, <2>2, <2>3 DEF HeldBefore
<1>2. ASSUME NEW x \in HeldBefore(S, n), S[n] # Up(x), S[n] # Forget(x)
      PROVE  x \in HeldBefore(S, n + 1)
  <2>1. PICK m \in 1 .. n - 1 :
          /\ S[m] = Down(x)
          /\ \A j \in m + 1 .. n - 1 : S[j] # Up(x) /\ S[j] # Forget(x)
    BY <1>2 DEF HeldBefore
  <2>2. \A j \in m + 1 .. n : S[j] # Up(x) /\ S[j] # Forget(x)
    BY <2>1, <1>2
  <2> QED
    BY <1>2, <2>1, <2>2 DEF HeldBefore
<1> QED
  BY <1>1, <1>2

(* Nothing is held before the first call of an action or after its last.   *)
LEMMA HeldAtEnds ==
  ASSUME NEW S, WellFormed(S)
  PROVE  /\ HeldBefore(S, 1) = {}
         /\ HeldBefore(S, Len(S) + 1) = {}
         /\ Len(S) \in Nat \ {0}
         /\ \A n \in 1 .. Len(S) : S[n] \in Call
<1>1. S \in Seq(Call) /\ Len(S) \in Nat \ {0}
  BY EmptySeq DEF WellFormed, Bracketed
<1>2. HeldBefore(S, 1) = {}
  BY DEF HeldBefore
<1>3. ASSUME NEW k \in HeldBefore(S, Len(S) + 1) PROVE FALSE
  <2>1. PICK m \in 1 .. Len(S) :
          /\ S[m] = Down(k)
          /\ \A j \in m + 1 .. Len(S) : S[j] # Up(k) /\ S[j] # Forget(k)
    BY <1>1, <1>3 DEF HeldBefore
  <2>2. k \in Key
    BY <1>3 DEF HeldBefore
  <2> QED
    BY <2>1, <2>2 DEF WellFormed, Bracketed, Balanced
<1> QED
  BY <1>1, <1>2, <1>3

-----------------------------------------------------------------------------
(* Types, and where a run is in its plan. *)

Doing == {"record", "act", "sleep", "check"}

ControlAt(r) ==
  /\ stage[r] # "idle" => plan[r] \in Plan
  /\ stage[r] \in {"idle", "start", "lock"} => index[r] = 1
  /\ stage[r] \in {"idle", "start", "lock", "loop", "record"} => step[r] = 1
  /\ stage[r] = "loop" => index[r] \in 1 .. Len(Actions(r)) + 1
  /\ stage[r] \in Doing => index[r] \in 1 .. Len(Actions(r))
  /\ stage[r] \in {"act", "sleep"} => step[r] \in 1 .. Len(Calls(r))
  /\ stage[r] = "sleep" => Current(r).op \in {"sleep", "wait"}

Control == \A r \in Run : ControlAt(r)

Typed == TypeOK /\ Control

USE ExecutorsAssumption DEF To, local, device, Device

(* Every action of a valid plan makes well-formed calls.                   *)
LEMMA PlanCalls ==
  ASSUME NEW p \in Plan
  PROVE  /\ Len(PlanActions[p]) \in Nat \ {0}
         /\ \A n \in 1 .. Len(PlanActions[p]) : WellFormed(Steps(PlanActions[p][n]))
<1>1. PlanActions[p] \in Seq(PlanAction) /\ PlanActions[p] # <<>>
  BY ValidPlansAssumption
<1>2. ASSUME NEW n \in 1 .. Len(PlanActions[p])
      PROVE  WellFormed(Steps(PlanActions[p][n]))
  <2>1. PlanActions[p][n] \in PlanAction
    BY <1>1
  <2>2. PlanActions[p][n].type = "mouse_click" => PlanActions[p][n].key \in Key
    BY <2>1 DEF PlanAction
  <2>3. PlanActions[p][n].type = "mouse_click" => PlanActions[p][n].key \in Untracked
    BY <2>2 DEF Untracked
  <2> QED
    BY <2>1, <2>3, StepsWellFormed
<1> QED
  BY <1>1, <1>2, EmptySeq

(* The call a run is about to make. *)
LEMMA CurrentCall ==
  ASSUME Typed, NEW r \in Run, stage[r] \in Doing
  PROVE  /\ plan[r] \in Plan
         /\ index[r] \in 1 .. Len(Actions(r)) /\ Len(Actions(r)) \in Nat
         /\ WellFormed(Calls(r))
         /\ Len(Calls(r)) \in Nat \ {0}
         /\ stage[r] \in {"act", "sleep"} =>
              step[r] \in 1 .. Len(Calls(r)) /\ Current(r) \in Call
<1>1. plan[r] \in Plan /\ index[r] \in 1 .. Len(Actions(r))
  BY DEF Typed, Control, ControlAt, Doing
<1>2. WellFormed(Calls(r))
  BY <1>1, PlanCalls DEF Calls, Action, Actions
<1>3. Len(Actions(r)) \in Nat
  BY <1>1, PlanCalls DEF Actions
<1>4. stage[r] \in {"act", "sleep"} => step[r] \in 1 .. Len(Calls(r))
  BY DEF Typed, Control, ControlAt
<1> QED
  BY <1>1, <1>2, <1>3, <1>4, HeldAtEnds DEF Current

(* Whole milliseconds, and how many of them were left.                     *)
LEMMA WholeBounds ==
  ASSUME NEW d \in Int
  PROVE  Whole(d) \in Int /\ Whole(d) <= d /\ d < Whole(d) + Millisecond
<1> DEFINE q == d \div Millisecond
<1>1. Millisecond \in Nat \ {0}
  BY TimesAssumption
<1>2. q \in Int /\ Millisecond * q <= d /\ d < Millisecond * (q + 1)
  BY <1>1
<1> HIDE DEF q
<1>3. Whole(d) = Millisecond * q
  BY <1>1, <1>2 DEF Whole, q
<1>4. Millisecond * (q + 1) = Millisecond * q + Millisecond /\ Millisecond * q \in Int
  BY <1>1, <1>2
<1> QED
  BY <1>1, <1>2, <1>3, <1>4

(* What a wait or a hold is granted.                                       *)
LEMMA GrantedTypes ==
  ASSUME Typed, NEW r \in Run, stage[r] = "act", Current(r).op \in {"sleep", "wait"}
  PROVE  /\ now \in Nat /\ start[r] \in Nat /\ expires[r] \in Nat
         /\ MaxDuration[plan[r]] \in Nat
         /\ Remaining(r) \in Int /\ Limit(r) = now + Remaining(r)
         /\ Granted(r, Current(r)) \in Int
<1>1. Current(r) \in Call /\ plan[r] \in Plan
  BY CurrentCall DEF Doing
<1>2. Current(r).for \in Nat /\ Millisecond \in Nat
  BY <1>1, TimesAssumption DEF Call
<1>3. now \in Nat /\ start[r] \in Nat /\ expires[r] \in Nat /\ MaxDuration[plan[r]] \in Nat
  BY <1>1, PlansAssumption DEF Typed, TypeOK
<1>4. Remaining(r) \in Int /\ Limit(r) = now + Remaining(r)
  BY <1>3 DEF Remaining, Elapsed, Least, Limit
<1>5. Current(r).for * Millisecond \in Int
  BY <1>2
<1> QED
  BY <1>3, <1>4, <1>5, WholeBounds DEF Granted

(* The types of what Cleanup assigns.                                      *)
LEMMA CleanupTypes ==
  ASSUME TypeOK, NEW r \in Run, NEW e \in Error, NEW h \in SUBSET Key,
         Cleanup(r, e, h)
  PROVE  /\ stage' \in [Run -> Stage] /\ err' \in [Run -> Error]
         /\ releasing' \in [Run -> SUBSET Key]
         /\ held' \in [Executor -> SUBSET Key]
BY DEF Cleanup, TypeOK, Stage

(* The types of what Advance assigns.                                      *)
LEMMA AdvanceTypes ==
  ASSUME TypeOK, NEW r \in Run, Advance(r)
  PROVE  stage' \in [Run -> Stage] /\ step' \in [Run -> Nat]
<1>1. stage \in [Run -> Stage] /\ step \in [Run -> Nat]
  BY DEF TypeOK
<1>2. stage' \in [Run -> Stage]
  BY <1>1 DEF Advance, Stage
<1>3. step' \in [Run -> Nat]
  BY <1>1 DEF Advance
<1> QED
  BY <1>2, <1>3

(* The types of what Deliver assigns.                                      *)
LEMMA DeliverTypes ==
  ASSUME TypeOK, NEW r \in Run, NEW c, c.key \in Key, Reaches(r, c) \/ Deliver(r, c)
  PROVE  down' \in SUBSET Key /\ presser' \in [Key -> Presser]
<1>1. <<r, index[r]>> \in Presser
  BY DEF Presser, TypeOK
<1> QED
  BY <1>1 DEF Reaches, Deliver, TypeOK

(* The types of what LastCall assigns.                                     *)
LEMMA FailedTypes ==
  ASSUME TypeOK, NEW r \in Run, NEW k \in Key,
         NEW kinds \in SUBSET {"down", "up", "forget", "release"},
         LastCall(r, k, kinds)
  PROVE  failed' \in [Run -> SUBSET FailedCall]
<1>1. failed \in [Run -> SUBSET FailedCall]
  BY DEF TypeOK
<1> QED
  BY <1>1 DEF LastCall, FailedCall

(* The types of what AppendRecord assigns.                                 *)
LEMMA JournalTypes ==
  ASSUME TypeOK, NEW r \in Run, NEW rec \in Record, AppendRecord(r, rec)
  PROVE  journal' \in Journals
BY DEF AppendRecord, Journals, TypeOK

(* Overdue is an error or nil.                                             *)
LEMMA OverdueTypes == \A r \in Run : Overdue(r) \in Error
BY DEF Overdue, Error

(* KVMDDevice.held is a set of keys.                                       *)
LEMMA HeldAfterTypes ==
  ASSUME TypeOK, NEW r \in Run, NEW ok \in BOOLEAN, NEW c \in Call,
         c.op \in {"down", "up", "forget"}
  PROVE  c.key \in Key /\ HeldAfter(r, c, ok) \in SUBSET Key
<1>1. held[Device(r)] \in SUBSET Key
  BY DEF TypeOK
<1> QED
  BY <1>1, CallCases DEF HeldAfter

(* Every step preserves the types.                                         *)
LEMMA TypeStep == Typed /\ [Next]_vars => TypeOK'
<1> SUFFICES ASSUME Typed, [Next]_vars PROVE TypeOK'
  OBVIOUS
<1> TypeOK
  BY DEF Typed
<1> /\ {"nil", "cancelled", "expired", "deadline", "journal", "device"} \subseteq Error
    /\ \A r \in Run : held[Device(r)] \in SUBSET Key
  BY DEF Error, TypeOK
<1>1. ASSUME NEW r \in Run, NEW p \in PlansOf[r], NEW x \in Expiries, Begin(r, p, x) PROVE TypeOK'
  BY <1>1, PlansAssumption, TimesAssumption DEF Begin, TypeOK, Stage
<1>2. ASSUME NEW r \in Run, JournalStart(r) PROVE TypeOK'
  <2>1. Rec("sequence_start", 0) \in Record
    BY DEF Rec, Record
  <2>2. journal' \in Journals
    BY <1>2, <2>1, JournalTypes DEF JournalStart, TypeOK
  <2> QED
    BY <1>2, <2>2 DEF JournalStart, TypeOK, Stage
<1>3. ASSUME NEW r \in Run, LockExecutor(r) PROVE TypeOK'
  <2>1. stage' \in [Run -> Stage]
    BY <1>3 DEF LockExecutor, TypeOK, Stage
  <2>2. lock' \in [Executor -> Run \cup {NoRun}] /\ start' \in [Run -> Nat]
    BY <1>3 DEF LockExecutor, TypeOK
  <2>3. UNCHANGED <<plan, expires, wake, clipped, index, step, err, releasing,
                    cancelled, device, now, journal, finish>>
    BY <1>3 DEF LockExecutor
  <2> QED
    BY <2>1, <2>2, <2>3 DEF TypeOK
<1>4. ASSUME NEW r \in Run, LoopChecks(r) PROVE TypeOK'
  <2>1. CASE stage' = [stage EXCEPT ![r] = "record"] /\ UNCHANGED <<err, releasing, held>>
    BY <1>4, <2>1 DEF LoopChecks, TypeOK, Stage
  <2>2. CASE \E e \in Error : Cleanup(r, e, held[Device(r)])
    BY <1>4, <2>2, CleanupTypes DEF LoopChecks, TypeOK
  <2> QED
    BY <1>4, <2>1, <2>2, OverdueTypes DEF LoopChecks
<1>5. ASSUME NEW r \in Run, JournalAction(r) PROVE TypeOK'
  <2>1. Rec("action", index[r]) \in Record
    BY DEF Rec, Record, TypeOK
  <2>2. journal' \in Journals
    BY <1>5, <2>1, JournalTypes DEF JournalAction, TypeOK
  <2>3. CASE Cleanup(r, "journal", held[Device(r)])
    BY <1>5, <2>2, <2>3, CleanupTypes DEF JournalAction, TypeOK
  <2>4. CASE stage' = [stage EXCEPT ![r] = "act"] /\ UNCHANGED <<err, releasing, held>>
    BY <1>5, <2>2, <2>4 DEF JournalAction, TypeOK, Stage
  <2> QED
    BY <1>5, <2>3, <2>4 DEF JournalAction
<1>6. ASSUME NEW r \in Run, KeyCall(r) PROVE TypeOK'
  <2> DEFINE c == Current(r)
  <2>1. c \in Call /\ c.op \in {"down", "up", "forget"}
    BY <1>6, CurrentCall DEF KeyCall, Doing
  <2>2. c.key \in Key /\ \A ok \in BOOLEAN : HeldAfter(r, c, ok) \in SUBSET Key
    BY <2>1, HeldAfterTypes
  <2> HIDE DEF c
  <2>3. down' \in SUBSET Key /\ presser' \in [Key -> Presser]
    BY <1>6, <2>2, DeliverTypes DEF KeyCall, c
  <2>4. failed' \in [Run -> SUBSET FailedCall]
    BY <1>6, <2>1, <2>2, FailedTypes DEF KeyCall, c, Answered, Errs
  <2>5. CASE Advance(r) /\ held' = [held EXCEPT ![Device(r)] = HeldAfter(r, c, TRUE)]
              /\ UNCHANGED <<err, releasing>>
    BY <1>6, <2>2, <2>3, <2>4, <2>5, AdvanceTypes DEF KeyCall, TypeOK
  <2>6. CASE Cleanup(r, "device", HeldAfter(r, c, FALSE)) /\ UNCHANGED step
    <3>1. /\ stage' \in [Run -> Stage] /\ err' \in [Run -> Error]
          /\ releasing' \in [Run -> SUBSET Key]
          /\ held' \in [Executor -> SUBSET Key]
      BY <2>2, <2>6, CleanupTypes
    <3>2. UNCHANGED <<plan, expires, start, index, step, wake, clipped, cancelled,
                      lock, now, journal, finish>>
      BY <1>6, <2>6 DEF KeyCall
    <3> QED
      BY <2>3, <2>4, <3>1, <3>2 DEF TypeOK
  <2> QED
    BY <1>6, <2>5, <2>6 DEF KeyCall, c
<1>7. ASSUME NEW r \in Run, PlainCall(r) PROVE TypeOK'
  <2>1. CASE Advance(r) /\ UNCHANGED <<err, releasing, held>>
    BY <1>7, <2>1, AdvanceTypes DEF PlainCall, TypeOK
  <2>2. CASE Cleanup(r, "device", held[Device(r)]) /\ UNCHANGED step
    BY <1>7, <2>2, CleanupTypes DEF PlainCall, TypeOK
  <2> QED
    BY <1>7, <2>1, <2>2 DEF PlainCall
<1>8. ASSUME NEW r \in Run, Sweep(r) PROVE TypeOK'
  BY <1>8, AdvanceTypes DEF Sweep, TypeOK
<1>9. ASSUME NEW r \in Run, FallAsleep(r) PROVE TypeOK'
  <2>1. now \in Nat /\ Granted(r, Current(r)) \in Int
    BY <1>9, GrantedTypes DEF FallAsleep
  <2>2. CASE Granted(r, Current(r)) <= 0
    BY <1>9, <2>2, CleanupTypes DEF FallAsleep, TypeOK
  <2>3. CASE ~ (Granted(r, Current(r)) <= 0)
    <3>1. wake' \in [Run -> Nat] /\ clipped' \in [Run -> BOOLEAN]
      <4> DEFINE cut == clipped[r] \/ Clips(r, Current(r))
                 granted == Granted(r, Current(r))
      <4>1. /\ wake' = [wake EXCEPT ![r] = now + granted]
            /\ clipped' = [clipped EXCEPT ![r] = cut]
            /\ wake \in [Run -> Nat] /\ clipped \in [Run -> BOOLEAN]
        BY <1>9, <2>3 DEF FallAsleep, TypeOK
      <4>2. cut \in BOOLEAN
        OBVIOUS
      <4>3. now + granted \in Nat
        BY <2>1, <2>3
      <4> HIDE DEF cut, granted
      <4> QED
        BY <4>1, <4>2, <4>3
    <3>2. stage' \in [Run -> Stage]
      BY <1>9, <2>3 DEF FallAsleep, TypeOK, Stage
    <3> QED
      BY <1>9, <3>1, <3>2, <2>3 DEF FallAsleep, TypeOK
  <2> QED
    BY <2>2, <2>3
<1>10. ASSUME NEW r \in Run, WakeUp(r) PROVE TypeOK'
  <2>1. CASE Advance(r) /\ UNCHANGED <<err, releasing, held>>
    BY <1>10, <2>1, AdvanceTypes DEF WakeUp, TypeOK
  <2>2. CASE Cleanup(r, "cancelled", held[Device(r)]) /\ UNCHANGED step
    BY <1>10, <2>2, CleanupTypes DEF WakeUp, TypeOK
  <2> QED
    BY <1>10, <2>1, <2>2 DEF WakeUp
<1>11. ASSUME NEW r \in Run, CheckAfter(r) PROVE TypeOK'
  <2>1. CASE Cleanup(r, Overdue(r), held[Device(r)]) /\ UNCHANGED <<index, step>>
    BY <1>11, <2>1, CleanupTypes, OverdueTypes DEF CheckAfter, TypeOK
  <2>2. CASE Overdue(r) = "nil"
    BY <1>11, <2>2 DEF CheckAfter, TypeOK, Stage
  <2> QED
    BY <1>11, <2>1, <2>2 DEF CheckAfter
<1>12. ASSUME NEW r \in Run, ReleaseKey(r) PROVE TypeOK'
  <2>1. PICK k \in releasing[r] :
          /\ releasing' = [releasing EXCEPT ![r] = @ \ {k}]
          /\ \/ Deliver(r, Up(k)) /\ Answered(r, k)
             \/ Reaches(r, Up(k)) /\ Errs(r, k, "release")
    BY <1>12 DEF ReleaseKey
  <2>2. k \in Key /\ Up(k).key = k
    BY CallFields DEF TypeOK
  <2>3. down' \in SUBSET Key /\ presser' \in [Key -> Presser]
    BY <2>1, <2>2, DeliverTypes
  <2>4. failed' \in [Run -> SUBSET FailedCall]
    BY <2>1, <2>2, FailedTypes DEF Answered, Errs
  <2> QED
    BY <1>12, <2>1, <2>3, <2>4 DEF ReleaseKey, TypeOK
<1>13. ASSUME NEW r \in Run, UnlockExecutor(r) PROVE TypeOK'
  BY <1>13 DEF UnlockExecutor, TypeOK, Stage
<1>14. ASSUME NEW r \in Run, JournalEnd(r) PROVE TypeOK'
  <2>1. Rec("sequence_end", 0) \in Record
    BY DEF Rec, Record
  <2>2. journal' \in Journals
    BY <1>14, <2>1, JournalTypes DEF JournalEnd, TypeOK
  <2> QED
    BY <1>14, <2>2 DEF JournalEnd, TypeOK, Stage
<1>15. ASSUME NEW r \in Run, Cancel(r) PROVE TypeOK'
  BY <1>15 DEF Cancel, TypeOK, Stage
<1>16. ASSUME NEW x \in Executor, Crash(x) PROVE TypeOK'
  BY <1>16 DEF Crash, TypeOK, Stage
<1>17. ASSUME Tick PROVE TypeOK'
  BY <1>17 DEF Tick, TypeOK
<1>18. CASE UNCHANGED vars
  BY <1>18 DEF vars, TypeOK, Stage
<1> QED
  BY <1>1, <1>2, <1>3, <1>4, <1>5, <1>6, <1>7, <1>8, <1>9, <1>10,
     <1>11, <1>12, <1>13, <1>14, <1>15, <1>16, <1>17, <1>18 DEF Next,
     Advances

Same(q) ==
  stage'[q] = stage[q] /\ plan'[q] = plan[q] /\ index'[q] = index[q] /\ step'[q] = step[q]

(* Control of a run depends on its own stage, plan and position.           *)
LEMMA ControlFrame ==
  ASSUME Control, NEW q \in Run, Same(q)
  PROVE  ControlAt(q)'
BY DEF Same, Control, ControlAt, Actions, Action, Calls, Current

(* Advance stays inside the calls of the action.                           *)
LEMMA AdvanceControl ==
  ASSUME Typed, NEW r \in Run, stage[r] \in {"act", "sleep"}, Advance(r),
         plan'[r] = plan[r], index'[r] = index[r]
  PROVE  ControlAt(r)'
<1>1. /\ stage \in [Run -> Stage] /\ step \in [Run -> Nat] /\ ControlAt(r)
  BY DEF Typed, TypeOK, Control
<1>2. Len(Calls(r)) \in Nat /\ step[r] \in 1 .. Len(Calls(r))
  BY CurrentCall DEF Doing
<1>3. Actions(r)' = Actions(r) /\ Calls(r)' = Calls(r)
  BY DEF Actions, Action, Calls
<1>4. CASE step[r] = Len(Calls(r))
  BY <1>1, <1>3, <1>4 DEF Advance, ControlAt, Doing
<1>5. CASE step[r] # Len(Calls(r))
  <2>1. stage'[r] = "act" /\ step'[r] = step[r] + 1
    BY <1>1, <1>5 DEF Advance
  <2>2. step[r] + 1 \in 1 .. Len(Calls(r))
    BY <1>2, <1>5
  <2> QED
    BY <1>1, <1>3, <2>1, <2>2 DEF ControlAt, Doing
<1> QED
  BY <1>4, <1>5

(* Cleanup leaves the position alone.                                      *)
LEMMA CleanupControl ==
  ASSUME Typed, NEW r \in Run, stage[r] # "idle", NEW e, NEW h, Cleanup(r, e, h),
         plan'[r] = plan[r]
  PROVE  ControlAt(r)'
BY DEF Cleanup, Typed, TypeOK, Control, ControlAt, Doing

(* Every step keeps every run at a call of its plan.                       *)
LEMMA ControlStep == Typed /\ [Next]_vars => Control'
<1> SUFFICES ASSUME Typed, [Next]_vars PROVE Control'
  OBVIOUS
<1>0. Control /\ \A r \in Run : ControlAt(r)
  BY DEF Typed, Control
<1> /\ stage \in [Run -> Stage] /\ step \in [Run -> Nat]
    /\ index \in [Run -> Nat] /\ plan \in [Run -> Plan \cup {NoRun}]
  BY DEF Typed, TypeOK
<1> USE <1>0
<1>1. ASSUME NEW r \in Run, NEW p \in PlansOf[r], NEW x \in Expiries, Begin(r, p, x) PROVE Control'
  <2>1. \A q \in Run \ {r} : Same(q)
    BY <1>1 DEF Begin, Same
  <2>2. p \in Plan
    BY PlansAssumption
  <2>3. ControlAt(r)'
    BY <1>1, <2>2 DEF Begin, ControlAt, Doing
  <2> QED
    BY <2>1, <2>3, ControlFrame DEF Control
<1>2. ASSUME NEW r \in Run, JournalStart(r) PROVE Control'
  <2>1. \A q \in Run \ {r} : Same(q)
    BY <1>2 DEF JournalStart, Same
  <2>2. ControlAt(r)'
    BY <1>2 DEF JournalStart, ControlAt, Doing
  <2> QED
    BY <2>1, <2>2, ControlFrame DEF Control
<1>3. ASSUME NEW r \in Run, LockExecutor(r) PROVE Control'
  <2>1. \A q \in Run \ {r} : Same(q)
    BY <1>3 DEF LockExecutor, Same
  <2>2. ControlAt(r)'
    BY <1>3, PlanCalls DEF LockExecutor, ControlAt, Doing, Actions
  <2> QED
    BY <2>1, <2>2, ControlFrame DEF Control
<1>4. ASSUME NEW r \in Run, LoopChecks(r) PROVE Control'
  <2>1. \A q \in Run \ {r} : Same(q)
    BY <1>4 DEF LoopChecks, Cleanup, Same
  <2>2. ControlAt(r)'
    BY <1>4, PlanCalls DEF LoopChecks, Cleanup, ControlAt, Doing, Actions, AfterLast
  <2> QED
    BY <2>1, <2>2, ControlFrame DEF Control
<1>5. ASSUME NEW r \in Run, JournalAction(r) PROVE Control'
  <2>1. \A q \in Run \ {r} : Same(q)
    BY <1>5 DEF JournalAction, Cleanup, Same
  <2>2. ControlAt(r)'
    BY <1>5, CurrentCall DEF JournalAction, Cleanup, ControlAt, Doing, Actions, Action, Calls
  <2> QED
    BY <2>1, <2>2, ControlFrame DEF Control
<1>6. ASSUME NEW r \in Run, KeyCall(r) PROVE Control'
  <2>1. \A q \in Run \ {r} : Same(q)
    BY <1>6 DEF KeyCall, Advance, Cleanup, Same
  <2>2. ControlAt(r)'
    BY <1>6, CurrentCall, AdvanceControl, CleanupControl DEF KeyCall, Doing
  <2> QED
    BY <2>1, <2>2, ControlFrame DEF Control
<1>7. ASSUME NEW r \in Run, PlainCall(r) PROVE Control'
  <2>1. \A q \in Run \ {r} : Same(q)
    BY <1>7 DEF PlainCall, Advance, Cleanup, Same
  <2>2. ControlAt(r)'
    BY <1>7, CurrentCall, AdvanceControl, CleanupControl DEF PlainCall, Doing
  <2> QED
    BY <2>1, <2>2, ControlFrame DEF Control
<1>8. ASSUME NEW r \in Run, Sweep(r) PROVE Control'
  <2>1. \A q \in Run \ {r} : Same(q)
    BY <1>8 DEF Sweep, Advance, Same
  <2>2. ControlAt(r)'
    BY <1>8, CurrentCall, AdvanceControl, CleanupControl DEF Sweep, Doing
  <2> QED
    BY <2>1, <2>2, ControlFrame DEF Control
<1>9. ASSUME NEW r \in Run, FallAsleep(r) PROVE Control'
  <2>1. \A q \in Run \ {r} : Same(q)
    BY <1>9 DEF FallAsleep, Cleanup, Same
  <2>2. ControlAt(r)'
    BY <1>9 DEF FallAsleep, Cleanup, ControlAt, Doing, Actions, Action, Calls, Current
  <2> QED
    BY <2>1, <2>2, ControlFrame DEF Control
<1>10. ASSUME NEW r \in Run, WakeUp(r) PROVE Control'
  <2>1. \A q \in Run \ {r} : Same(q)
    BY <1>10 DEF WakeUp, Advance, Cleanup, Same
  <2>2. ControlAt(r)'
    BY <1>10, CurrentCall, AdvanceControl, CleanupControl DEF WakeUp, Doing
  <2> QED
    BY <2>1, <2>2, ControlFrame DEF Control
<1>11. ASSUME NEW r \in Run, CheckAfter(r) PROVE Control'
  <2>1. \A q \in Run \ {r} : Same(q)
    BY <1>11 DEF CheckAfter, Cleanup, Same
  <2>2. ControlAt(r)'
    BY <1>11, CurrentCall DEF CheckAfter, Cleanup, ControlAt, Doing, Actions
  <2> QED
    BY <2>1, <2>2, ControlFrame DEF Control
<1>12. ASSUME NEW r \in Run, ReleaseKey(r) PROVE Control'
  <2>1. \A q \in Run : Same(q)
    BY <1>12 DEF ReleaseKey, Same
  <2> QED
    BY <2>1, ControlFrame DEF Control
<1>13. ASSUME NEW r \in Run, UnlockExecutor(r) PROVE Control'
  <2>1. \A q \in Run \ {r} : Same(q)
    BY <1>13 DEF UnlockExecutor, Same
  <2>2. ControlAt(r)'
    BY <1>13 DEF UnlockExecutor, ControlAt, Doing
  <2> QED
    BY <2>1, <2>2, ControlFrame DEF Control
<1>14. ASSUME NEW r \in Run, JournalEnd(r) PROVE Control'
  <2>1. \A q \in Run \ {r} : Same(q)
    BY <1>14 DEF JournalEnd, Same
  <2>2. ControlAt(r)'
    BY <1>14 DEF JournalEnd, ControlAt, Doing
  <2> QED
    BY <2>1, <2>2, ControlFrame DEF Control
<1>15. ASSUME NEW r \in Run, Cancel(r) PROVE Control'
  <2>1. \A q \in Run : Same(q)
    BY <1>15 DEF Cancel, Same
  <2> QED
    BY <2>1, ControlFrame DEF Control
<1>16. ASSUME NEW x \in Executor, Crash(x) PROVE Control'
  <2> SUFFICES ASSUME NEW q \in Run PROVE ControlAt(q)'
    BY DEF Control
  <2>1. CASE stage'[q] = stage[q]
    BY <1>16, <2>1, ControlFrame DEF Crash, Same
  <2>2. CASE stage'[q] = "dead" /\ stage[q] # "idle"
    BY <1>16, <2>2 DEF Crash, ControlAt, Doing
  <2> QED
    BY <1>16, <2>1, <2>2 DEF Crash
<1>17. ASSUME Tick PROVE Control'
  <2>1. \A q \in Run : Same(q)
    BY <1>17 DEF Tick, Same
  <2> QED
    BY <2>1, ControlFrame DEF Control
<1>18. CASE UNCHANGED vars
  BY <1>18, ControlFrame DEF vars, Same, Control
<1> QED
  BY <1>1, <1>2, <1>3, <1>4, <1>5, <1>6, <1>7, <1>8, <1>9, <1>10,
     <1>11, <1>12, <1>13, <1>14, <1>15, <1>16, <1>17, <1>18 DEF Next,
     Advances

(* Types and positions hold in every reachable state.                      *)
LEMMA TypedInvariant == Spec => []Typed
<1>1. Init => Typed
  BY PlansAssumption DEF Init, Typed, TypeOK, Stage, Error, Journals, Presser,
     Control, ControlAt, Doing
<1>2. Typed /\ [Next]_vars => Typed'
  BY TypeStep, ControlStep DEF Typed
<1> QED
  BY <1>1, <1>2, PTL DEF Spec

(* Every variable keeps its type: in particular the position of a run      *)
(* (executeUntil's index, executeAction's calls) and KVMDDevice.held.      *)
THEOREM TypeCorrect == Spec => []TypeOK
BY TypedInvariant, PTL DEF Typed

-----------------------------------------------------------------------------
(* The executor's mutex: a run that is past it holds it, and only a run    *)
(* that holds it has keys to release.                                      *)

OwnsAt(r) ==
  /\ stage[r] \in Acting => lock[Device(r)] = r
  /\ releasing[r] # {} => stage[r] = "release"

Owned == \A r \in Run : OwnsAt(r)

(* While a run has the lock no other run of its executor acts.             *)
LEMMA OthersWait ==
  ASSUME Owned, NEW r \in Run, NEW q \in Run, q # r, Device(q) = Device(r),
         stage[r] \in Acting
  PROVE  stage[q] \notin Acting
BY DEF Owned, OwnsAt

(* Every step keeps the lock with the run that acts.                       *)
LEMMA OwnedStep == Typed /\ Owned /\ [Next]_vars => Owned'
<1> SUFFICES ASSUME Typed, Owned, [Next]_vars PROVE Owned'
  OBVIOUS
<1> /\ stage \in [Run -> Stage] /\ releasing \in [Run -> SUBSET Key]
    /\ lock \in [Executor -> Run \cup {NoRun}] /\ NoRun \notin Run
    /\ \A r \in Run : OwnsAt(r)
  BY NoRunAssumption DEF Typed, TypeOK, Owned
<1>1. ASSUME NEW r \in Run, NEW p \in PlansOf[r], NEW x \in Expiries, Begin(r, p, x) PROVE Owned'
  <2>1. \A q \in Run \ {r} : OwnsAt(q)'
    BY <1>1, OthersWait DEF Begin, OwnsAt, Acting
  <2>2. OwnsAt(r)'
    BY <1>1 DEF Begin, OwnsAt, Acting
  <2> QED
    BY <2>1, <2>2 DEF Owned
<1>2. ASSUME NEW r \in Run, JournalStart(r) PROVE Owned'
  <2>1. \A q \in Run \ {r} : OwnsAt(q)'
    BY <1>2, OthersWait DEF JournalStart, OwnsAt, Acting
  <2>2. OwnsAt(r)'
    BY <1>2 DEF JournalStart, OwnsAt, Acting
  <2> QED
    BY <2>1, <2>2 DEF Owned
<1>3. ASSUME NEW r \in Run, LockExecutor(r) PROVE Owned'
  <2>1. \A q \in Run \ {r} : OwnsAt(q)'
    BY <1>3, OthersWait DEF LockExecutor, OwnsAt, Acting
  <2>2. OwnsAt(r)'
    BY <1>3 DEF LockExecutor, OwnsAt, Acting
  <2> QED
    BY <2>1, <2>2 DEF Owned
<1>4. ASSUME NEW r \in Run, LoopChecks(r) PROVE Owned'
  <2>1. \A q \in Run \ {r} : OwnsAt(q)'
    BY <1>4, OthersWait DEF LoopChecks, Cleanup, OwnsAt, Acting
  <2>2. OwnsAt(r)'
    BY <1>4 DEF LoopChecks, Cleanup, OwnsAt, Acting
  <2> QED
    BY <2>1, <2>2 DEF Owned
<1>5. ASSUME NEW r \in Run, JournalAction(r) PROVE Owned'
  <2>1. \A q \in Run \ {r} : OwnsAt(q)'
    BY <1>5, OthersWait DEF JournalAction, Cleanup, OwnsAt, Acting
  <2>2. OwnsAt(r)'
    BY <1>5 DEF JournalAction, Cleanup, OwnsAt, Acting
  <2> QED
    BY <2>1, <2>2 DEF Owned
<1>6. ASSUME NEW r \in Run, KeyCall(r) PROVE Owned'
  <2>1. \A q \in Run \ {r} : OwnsAt(q)'
    BY <1>6, OthersWait DEF KeyCall, Cleanup, Advance, OwnsAt, Acting
  <2>2. OwnsAt(r)'
    BY <1>6 DEF KeyCall, Cleanup, Advance, OwnsAt, Acting
  <2> QED
    BY <2>1, <2>2 DEF Owned
<1>7. ASSUME NEW r \in Run, PlainCall(r) PROVE Owned'
  <2>1. \A q \in Run \ {r} : OwnsAt(q)'
    BY <1>7, OthersWait DEF PlainCall, Cleanup, Advance, OwnsAt, Acting
  <2>2. OwnsAt(r)'
    BY <1>7 DEF PlainCall, Cleanup, Advance, OwnsAt, Acting
  <2> QED
    BY <2>1, <2>2 DEF Owned
<1>8. ASSUME NEW r \in Run, Sweep(r) PROVE Owned'
  <2>1. \A q \in Run \ {r} : OwnsAt(q)'
    BY <1>8, OthersWait DEF Sweep, Advance, OwnsAt, Acting
  <2>2. OwnsAt(r)'
    BY <1>8 DEF Sweep, Advance, OwnsAt, Acting
  <2> QED
    BY <2>1, <2>2 DEF Owned
<1>9. ASSUME NEW r \in Run, FallAsleep(r) PROVE Owned'
  <2>1. \A q \in Run \ {r} : OwnsAt(q)'
    BY <1>9, OthersWait DEF FallAsleep, Cleanup, OwnsAt, Acting
  <2>2. OwnsAt(r)'
    BY <1>9 DEF FallAsleep, Cleanup, OwnsAt, Acting
  <2> QED
    BY <2>1, <2>2 DEF Owned
<1>10. ASSUME NEW r \in Run, WakeUp(r) PROVE Owned'
  <2>1. \A q \in Run \ {r} : OwnsAt(q)'
    BY <1>10, OthersWait DEF WakeUp, Cleanup, Advance, OwnsAt, Acting
  <2>2. OwnsAt(r)'
    BY <1>10 DEF WakeUp, Cleanup, Advance, OwnsAt, Acting
  <2> QED
    BY <2>1, <2>2 DEF Owned
<1>11. ASSUME NEW r \in Run, CheckAfter(r) PROVE Owned'
  <2>1. \A q \in Run \ {r} : OwnsAt(q)'
    BY <1>11, OthersWait DEF CheckAfter, Cleanup, OwnsAt, Acting
  <2>2. OwnsAt(r)'
    BY <1>11 DEF CheckAfter, Cleanup, OwnsAt, Acting
  <2> QED
    BY <2>1, <2>2 DEF Owned
<1>12. ASSUME NEW r \in Run, ReleaseKey(r) PROVE Owned'
  <2>1. \A q \in Run \ {r} : OwnsAt(q)'
    BY <1>12, OthersWait DEF ReleaseKey, OwnsAt, Acting
  <2>2. OwnsAt(r)'
    BY <1>12 DEF ReleaseKey, OwnsAt, Acting
  <2> QED
    BY <2>1, <2>2 DEF Owned
<1>13. ASSUME NEW r \in Run, UnlockExecutor(r) PROVE Owned'
  <2>1. \A q \in Run \ {r} : OwnsAt(q)'
    BY <1>13, OthersWait DEF UnlockExecutor, OwnsAt, Acting
  <2>2. OwnsAt(r)'
    BY <1>13 DEF UnlockExecutor, OwnsAt, Acting
  <2> QED
    BY <2>1, <2>2 DEF Owned
<1>14. ASSUME NEW r \in Run, JournalEnd(r) PROVE Owned'
  <2>1. \A q \in Run \ {r} : OwnsAt(q)'
    BY <1>14, OthersWait DEF JournalEnd, OwnsAt, Acting
  <2>2. OwnsAt(r)'
    BY <1>14 DEF JournalEnd, OwnsAt, Acting
  <2> QED
    BY <2>1, <2>2 DEF Owned
<1>15. ASSUME NEW r \in Run, Cancel(r) PROVE Owned'
  <2>1. \A q \in Run \ {r} : OwnsAt(q)'
    BY <1>15, OthersWait DEF Cancel, OwnsAt, Acting
  <2>2. OwnsAt(r)'
    BY <1>15 DEF Cancel, OwnsAt, Acting
  <2> QED
    BY <2>1, <2>2 DEF Owned
<1>16. ASSUME NEW x \in Executor, Crash(x) PROVE Owned'
  BY <1>16 DEF Crash, Owned, OwnsAt, Acting
<1>17. ASSUME Tick PROVE Owned'
  BY <1>17 DEF Tick, Owned, OwnsAt, Acting
<1>18. CASE UNCHANGED vars
  BY <1>18 DEF vars, Owned, OwnsAt, Acting
<1> QED
  BY <1>1, <1>2, <1>3, <1>4, <1>5, <1>6, <1>7, <1>8, <1>9, <1>10,
     <1>11, <1>12, <1>13, <1>14, <1>15, <1>16, <1>17, <1>18 DEF Next,
     Advances

(* Two runs of one executor are never both between its Lock and Unlock,    *)
(* and the second finds no key of the first still to be released           *)
(* (executeUntil's mutex and its deferred ReleaseAll).                     *)
THEOREM RunsNeverOverlap == Spec => []RunsDoNotOverlap
<1>1. Init => Owned
  BY DEF Init, Owned, OwnsAt, Acting
<1>2. Owned => RunsDoNotOverlap
  BY DEF Owned, OwnsAt, RunsDoNotOverlap, Acting
<1> QED
  BY <1>1, <1>2, OwnedStep, TypedInvariant, PTL DEF Spec

-----------------------------------------------------------------------------
(* KVMDDevice.held: in the middle of an action it is what the calls made   *)
(* so far left pressed; everywhere else, and on an executor nobody has     *)
(* locked, it is empty.                                                    *)

HeldAt(r) ==
  /\ stage[r] \in {"loop", "record", "check", "release"} => held[Device(r)] = {}
  /\ stage[r] \in {"act", "sleep"} =>
       held[Device(r)] = HeldBefore(Calls(r), step[r])

FreeAt(x) == lock[x] = NoRun => held[x] = {}

Tracked == (\A r \in Run : HeldAt(r)) /\ (\A x \in Executor : FreeAt(x))

(* What is held for a run depends on its own device and position.          *)
LEMMA HeldFrame ==
  ASSUME Tracked, NEW q \in Run, Same(q), held'[Device(q)] = held[Device(q)]
  PROVE  HeldAt(q)'
<1>1. Calls(q)' = Calls(q)
  BY DEF Same, Calls, Action, Actions
<1> QED
  BY <1>1 DEF Tracked, Same, HeldAt

(* A step of the run that holds a mutex can disturb only its own device. *)
LEMMA HolderKeepsTracked ==
  ASSUME Typed, Owned, Tracked, NEW r \in Run, stage[r] \in Acting,
         \A q \in Run \ {r} : Same(q),
         \A x \in Executor \ {Device(r)} : held'[x] = held[x],
         lock' = lock, HeldAt(r)'
  PROVE  Tracked'
<1>1. lock[Device(r)] = r /\ r # NoRun
  BY NoRunAssumption DEF Owned, OwnsAt
<1>2. ASSUME NEW x \in Executor PROVE FreeAt(x)'
  BY <1>1 DEF Tracked, FreeAt
<1>3. ASSUME NEW q \in Run \ {r}, Device(q) = Device(r) PROVE HeldAt(q)'
  <2>1. stage'[q] \notin Acting
    BY <1>3, OthersWait DEF Same
  <2> QED
    BY <2>1 DEF HeldAt, Acting
<1>4. ASSUME NEW q \in Run \ {r}, Device(q) # Device(r) PROVE HeldAt(q)'
  BY <1>4, HeldFrame
<1> QED
  BY <1>2, <1>3, <1>4 DEF Tracked

(* After an answered call, held is what it should be before the next.      *)
LEMMA AdvanceHeld ==
  ASSUME Typed, NEW r \in Run, stage[r] \in {"act", "sleep"}, Advance(r),
         plan'[r] = plan[r], index'[r] = index[r],
         held'[Device(r)] = HeldBefore(Calls(r), step[r] + 1)
  PROVE  HeldAt(r)'
<1>1. stage \in [Run -> Stage] /\ step \in [Run -> Nat]
  BY DEF Typed, TypeOK
<1>2. WellFormed(Calls(r)) /\ Calls(r)' = Calls(r)
  BY CurrentCall DEF Doing, Calls, Action, Actions
<1>3. CASE step[r] = Len(Calls(r))
  <2>1. HeldBefore(Calls(r), Len(Calls(r)) + 1) = {}
    BY <1>2, HeldAtEnds
  <2> QED
    BY <1>1, <1>3, <2>1 DEF Advance, HeldAt
<1>4. CASE step[r] # Len(Calls(r))
  BY <1>1, <1>2, <1>4 DEF Advance, HeldAt
<1> QED
  BY <1>3, <1>4

(* An answered call changes held as it changes HeldBefore.                 *)
LEMMA HeldAfterCall ==
  ASSUME Typed, Tracked, NEW r \in Run, stage[r] = "act",
         Current(r).op \in {"down", "up", "forget"}
  PROVE  HeldAfter(r, Current(r), TRUE) = HeldBefore(Calls(r), step[r] + 1)
<1> DEFINE c == Current(r)
           S == Calls(r)
           n == step[r]
<1>1. c \in Call /\ n \in Nat \ {0} /\ S[n] = c
  BY CurrentCall DEF Doing, Current
<1>2. held[Device(r)] = HeldBefore(S, n)
  BY DEF Tracked, HeldAt
<1>3. c.key \in Key /\ c.tracked \in BOOLEAN
      /\ (c.tracked => c \in {Down(c.key), Up(c.key), Forget(c.key)})
  BY <1>1, CallCases
<1>4. HeldBefore(S, n) \subseteq Key
  BY DEF HeldBefore
<1> HIDE DEF c, S, n
<1>5. CASE c = Down(c.key)
  <2>1. c.op = "down" /\ c.tracked
    BY <1>5, CallFields
  <2>2. HeldAfter(r, c, TRUE) = HeldBefore(S, n) \cup {c.key}
    BY <1>2, <2>1 DEF HeldAfter
  <2>3. HeldBefore(S, n + 1) = HeldBefore(S, n) \cup {c.key}
    BY <1>1, <1>3, <1>5, HeldAfterDown
  <2> QED
    BY <2>2, <2>3 DEF c, S, n
<1>6. CASE c = Up(c.key) \/ c = Forget(c.key)
  <2>1. c.op \in {"up", "forget"} /\ c.tracked
    BY <1>6, CallFields
  <2>2. HeldAfter(r, c, TRUE) = HeldBefore(S, n) \ {c.key}
    BY <1>2, <2>1 DEF HeldAfter
  <2>3. HeldBefore(S, n + 1) = {k \in HeldBefore(S, n) : c # Up(k) /\ c # Forget(k)}
    BY <1>1, <2>1, HeldAfterOther, CallFields
  <2>4. \A k : c = Up(k) \/ c = Forget(k) <=> k = c.key
    BY <1>6, CallFields
  <2>5. HeldBefore(S, n + 1) = HeldBefore(S, n) \ {c.key}
    BY <2>3, <2>4
  <2> QED
    BY <2>2, <2>5 DEF c, S, n
<1>7. CASE ~ c.tracked
  <2>1. HeldAfter(r, c, TRUE) = HeldBefore(S, n)
    BY <1>2, <1>7 DEF HeldAfter
  <2>2. \A k : c # Down(k) /\ c # Up(k) /\ c # Forget(k)
    BY <1>7, CallFields
  <2>3. HeldBefore(S, n + 1) = {k \in HeldBefore(S, n) : c # Up(k) /\ c # Forget(k)}
    BY <1>1, <2>2, HeldAfterOther
  <2>4. HeldBefore(S, n + 1) = HeldBefore(S, n)
    BY <2>2, <2>3
  <2> QED
    BY <2>1, <2>4 DEF c, S, n
<1> QED
  BY <1>3, <1>5, <1>6, <1>7

(* A call without a key leaves held alone.                                 *)
LEMMA HeldAfterQuietCall ==
  ASSUME Typed, Tracked, NEW r \in Run, stage[r] \in {"act", "sleep"},
         Current(r).op \notin {"down", "up", "forget"}
  PROVE  held[Device(r)] = HeldBefore(Calls(r), step[r] + 1)
<1>1. step[r] \in Nat \ {0} /\ Calls(r)[step[r]] = Current(r)
  BY CurrentCall DEF Doing, Current
<1>2. held[Device(r)] = HeldBefore(Calls(r), step[r])
  BY DEF Tracked, HeldAt
<1>3. \A k : LET c == Calls(r)[step[r]] IN c # Down(k) /\ c # Up(k) /\ c # Forget(k)
  BY <1>1, CallFields
<1>4. HeldBefore(Calls(r), step[r] + 1) =
        {k \in HeldBefore(Calls(r), step[r]) :
           Calls(r)[step[r]] # Up(k) /\ Calls(r)[step[r]] # Forget(k)}
  BY <1>1, <1>3, HeldAfterOther
<1>5. HeldBefore(Calls(r), step[r] + 1) = HeldBefore(Calls(r), step[r])
  BY <1>3, <1>4
<1> QED
  BY <1>2, <1>5

(* release_all is an action of its own: nothing is held before it.         *)
LEMMA NothingToSweep ==
  ASSUME Typed, Tracked, NEW r \in Run, stage[r] = "act", Current(r).op = "sweep"
  PROVE  held[Device(r)] = {}
<1>1. WellFormed(Calls(r)) /\ step[r] \in 1 .. Len(Calls(r))
  BY CurrentCall DEF Doing
<1>2. step[r] = 1
  BY <1>1 DEF WellFormed, Current
<1> QED
  BY <1>1, <1>2, HeldAtEnds DEF Tracked, HeldAt

(* Every step keeps held equal to the keys pressed and not yet released.   *)
LEMMA TrackedStep == Typed /\ Owned /\ Tracked /\ [Next]_vars => Tracked'
<1> SUFFICES ASSUME Typed, Owned, Tracked, [Next]_vars PROVE Tracked'
  OBVIOUS
<1> /\ stage \in [Run -> Stage] /\ held \in [Executor -> SUBSET Key]
    /\ step \in [Run -> Nat] /\ plan \in [Run -> Plan \cup {NoRun}]
    /\ index \in [Run -> Nat] /\ lock \in [Executor -> Run \cup {NoRun}]
    /\ NoRun \notin Run
    /\ \A r \in Run : HeldAt(r)
    /\ \A x \in Executor : FreeAt(x)
  BY NoRunAssumption DEF Typed, TypeOK, Tracked
<1>1. ASSUME NEW r \in Run, NEW p \in PlansOf[r], NEW x \in Expiries, Begin(r, p, x) PROVE Tracked'
  <2>1. \A q \in Run \ {r} : Same(q) /\ held'[Device(q)] = held[Device(q)]
    BY <1>1 DEF Begin, Same
  <2>2. HeldAt(r)'
    BY <1>1 DEF Begin, HeldAt
  <2>3. \A e \in Executor : FreeAt(e)'
    BY <1>1 DEF Begin, FreeAt
  <2> QED
    BY <2>1, <2>2, <2>3, HeldFrame DEF Tracked
<1>2. ASSUME NEW r \in Run, JournalStart(r) PROVE Tracked'
  <2>1. \A q \in Run \ {r} : Same(q) /\ held'[Device(q)] = held[Device(q)]
    BY <1>2 DEF JournalStart, Same
  <2>2. HeldAt(r)'
    BY <1>2 DEF JournalStart, HeldAt
  <2>3. \A x \in Executor : FreeAt(x)'
    BY <1>2 DEF JournalStart, FreeAt
  <2> QED
    BY <2>1, <2>2, <2>3, HeldFrame DEF Tracked
<1>3. ASSUME NEW r \in Run, LockExecutor(r) PROVE Tracked'
  <2>1. \A q \in Run \ {r} : Same(q) /\ held'[Device(q)] = held[Device(q)]
    BY <1>3 DEF LockExecutor, Same
  <2>2. HeldAt(r)'
    BY <1>3 DEF LockExecutor, HeldAt, FreeAt
  <2>3. \A x \in Executor : FreeAt(x)'
    BY <1>3 DEF LockExecutor, FreeAt
  <2> QED
    BY <2>1, <2>2, <2>3, HeldFrame DEF Tracked
<1>4. ASSUME NEW r \in Run, LoopChecks(r) PROVE Tracked'
  <2>1. stage[r] \in Acting /\ \A q \in Run \ {r} : Same(q)
    BY <1>4 DEF LoopChecks, Cleanup, Same, Acting
  <2>2. /\ \A x \in Executor \ {Device(r)} : held'[x] = held[x]
        /\ lock' = lock
    BY <1>4 DEF LoopChecks, Cleanup
  <2>3. HeldAt(r)'
    BY <1>4 DEF LoopChecks, Cleanup, HeldAt
  <2> QED
    BY <2>1, <2>2, <2>3, HolderKeepsTracked
<1>5. ASSUME NEW r \in Run, JournalAction(r) PROVE Tracked'
  <2>1. stage[r] \in Acting /\ \A q \in Run \ {r} : Same(q)
    BY <1>5 DEF JournalAction, Cleanup, Same, Acting
  <2>2. /\ \A x \in Executor \ {Device(r)} : held'[x] = held[x]
        /\ lock' = lock
    BY <1>5 DEF JournalAction, Cleanup
  <2>3. HeldAt(r)'
    <3>1. CASE stage' = [stage EXCEPT ![r] = "act"] /\ UNCHANGED <<plan, index, step, held>>
      <4>1. step[r] = 1 /\ WellFormed(Calls(r)) /\ Calls(r)' = Calls(r)
        BY <1>5, <3>1, CurrentCall DEF JournalAction, Doing, Typed, Control, ControlAt,
           Calls, Action, Actions
      <4>2. HeldBefore(Calls(r), 1) = {}
        BY <4>1, HeldAtEnds
      <4> QED
        BY <1>5, <3>1, <4>1, <4>2 DEF JournalAction, HeldAt
    <3>2. CASE Cleanup(r, "journal", held[Device(r)])
      BY <3>2 DEF Cleanup, HeldAt
    <3> QED
      BY <1>5, <3>1, <3>2 DEF JournalAction
  <2> QED
    BY <2>1, <2>2, <2>3, HolderKeepsTracked
<1>6. ASSUME NEW r \in Run, KeyCall(r) PROVE Tracked'
  <2>1. stage[r] \in Acting /\ \A q \in Run \ {r} : Same(q)
    BY <1>6 DEF KeyCall, Advance, Cleanup, Same, Acting
  <2>2. /\ \A x \in Executor \ {Device(r)} : held'[x] = held[x]
        /\ lock' = lock
    BY <1>6 DEF KeyCall, Advance, Cleanup
  <2>3. HeldAt(r)'
    <3> DEFINE c == Current(r)
    <3>1. c.op \in {"down", "up", "forget"} /\ stage[r] = "act"
      BY <1>6 DEF KeyCall
    <3>2. CASE Cleanup(r, "device", HeldAfter(r, c, FALSE))
      BY <3>2 DEF Cleanup, HeldAt
    <3>3. CASE /\ held' = [held EXCEPT ![Device(r)] = HeldAfter(r, c, TRUE)]
               /\ Advance(r)
      <4>1. HeldAfter(r, c, TRUE) = HeldBefore(Calls(r), step[r] + 1)
        BY <3>1, HeldAfterCall
      <4>2. held'[Device(r)] = HeldBefore(Calls(r), step[r] + 1)
        BY <3>3, <4>1
      <4>3. plan'[r] = plan[r] /\ index'[r] = index[r]
        BY <1>6 DEF KeyCall
      <4> QED
        BY <3>1, <3>3, <4>2, <4>3, AdvanceHeld
    <3> QED
      BY <1>6, <3>2, <3>3 DEF KeyCall
  <2> QED
    BY <2>1, <2>2, <2>3, HolderKeepsTracked
<1>7. ASSUME NEW r \in Run, PlainCall(r) PROVE Tracked'
  <2>1. stage[r] \in Acting /\ \A q \in Run \ {r} : Same(q)
    BY <1>7 DEF PlainCall, Advance, Cleanup, Same, Acting
  <2>2. /\ \A x \in Executor \ {Device(r)} : held'[x] = held[x]
        /\ lock' = lock
    BY <1>7 DEF PlainCall, Advance, Cleanup
  <2>3. HeldAt(r)'
    <3>1. stage[r] = "act" /\ Current(r).op \in {"call", "unavailable"}
      BY <1>7 DEF PlainCall, Typed, Control, ControlAt
    <3>2. CASE Cleanup(r, "device", held[Device(r)])
      BY <3>2 DEF Cleanup, HeldAt
    <3>3. CASE Advance(r) /\ UNCHANGED held
      <4>1. held[Device(r)] = HeldBefore(Calls(r), step[r] + 1)
        BY <3>1, HeldAfterQuietCall
      <4>2. plan'[r] = plan[r] /\ index'[r] = index[r]
        BY <1>7 DEF PlainCall
      <4> QED
        BY <3>1, <3>3, <4>1, <4>2, AdvanceHeld
    <3> QED
      BY <1>7, <3>2, <3>3 DEF PlainCall
  <2> QED
    BY <2>1, <2>2, <2>3, HolderKeepsTracked
<1>8. ASSUME NEW r \in Run, Sweep(r) PROVE Tracked'
  <2>1. stage[r] \in Acting /\ \A q \in Run \ {r} : Same(q)
    BY <1>8 DEF Sweep, Advance, Same, Acting
  <2>2. /\ \A x \in Executor \ {Device(r)} : held'[x] = held[x]
        /\ lock' = lock
    BY <1>8 DEF Sweep, Advance
  <2>3. HeldAt(r)'
    <3>1. stage[r] = "act" /\ Current(r).op = "sweep"
      BY <1>8 DEF Sweep
    <3>2. held[Device(r)] = {}
      BY <3>1, NothingToSweep
    <3>3. held'[Device(r)] = HeldBefore(Calls(r), step[r] + 1)
      BY <1>8, <3>1, <3>2, HeldAfterQuietCall DEF Sweep
    <3>4. plan'[r] = plan[r] /\ index'[r] = index[r]
      BY <1>8 DEF Sweep
    <3> QED
      BY <1>8, <3>1, <3>3, <3>4, AdvanceHeld DEF Sweep
  <2> QED
    BY <2>1, <2>2, <2>3, HolderKeepsTracked
<1>9. ASSUME NEW r \in Run, FallAsleep(r) PROVE Tracked'
  <2>1. stage[r] \in Acting /\ \A q \in Run \ {r} : Same(q)
    BY <1>9 DEF FallAsleep, Cleanup, Same, Acting
  <2>2. /\ \A x \in Executor \ {Device(r)} : held'[x] = held[x]
        /\ lock' = lock
    BY <1>9 DEF FallAsleep, Cleanup
  <2>3. HeldAt(r)'
    BY <1>9 DEF FallAsleep, Cleanup, HeldAt, Calls, Action, Actions
  <2> QED
    BY <2>1, <2>2, <2>3, HolderKeepsTracked
<1>10. ASSUME NEW r \in Run, WakeUp(r) PROVE Tracked'
  <2>1. stage[r] \in Acting /\ \A q \in Run \ {r} : Same(q)
    BY <1>10 DEF WakeUp, Advance, Cleanup, Same, Acting
  <2>2. /\ \A x \in Executor \ {Device(r)} : held'[x] = held[x]
        /\ lock' = lock
    BY <1>10 DEF WakeUp, Advance, Cleanup
  <2>3. HeldAt(r)'
    <3>1. stage[r] = "sleep" /\ Current(r).op \in {"sleep", "wait"}
      BY <1>10 DEF WakeUp, Typed, Control, ControlAt
    <3>2. CASE Cleanup(r, "cancelled", held[Device(r)])
      BY <3>2 DEF Cleanup, HeldAt
    <3>3. CASE Advance(r) /\ UNCHANGED held
      <4>1. held[Device(r)] = HeldBefore(Calls(r), step[r] + 1)
        BY <3>1, HeldAfterQuietCall
      <4>2. plan'[r] = plan[r] /\ index'[r] = index[r]
        BY <1>10 DEF WakeUp
      <4> QED
        BY <3>1, <3>3, <4>1, <4>2, AdvanceHeld
    <3> QED
      BY <1>10, <3>2, <3>3 DEF WakeUp
  <2> QED
    BY <2>1, <2>2, <2>3, HolderKeepsTracked
<1>11. ASSUME NEW r \in Run, CheckAfter(r) PROVE Tracked'
  <2>1. stage[r] \in Acting /\ \A q \in Run \ {r} : Same(q)
    BY <1>11 DEF CheckAfter, Cleanup, Same, Acting
  <2>2. /\ \A x \in Executor \ {Device(r)} : held'[x] = held[x]
        /\ lock' = lock
    BY <1>11 DEF CheckAfter, Cleanup
  <2>3. HeldAt(r)'
    BY <1>11 DEF CheckAfter, Cleanup, HeldAt
  <2> QED
    BY <2>1, <2>2, <2>3, HolderKeepsTracked
<1>12. ASSUME NEW r \in Run, ReleaseKey(r) PROVE Tracked'
  <2>1. /\ \A q \in Run : Same(q) /\ held'[Device(q)] = held[Device(q)]
        /\ \A x \in Executor : FreeAt(x)'
    BY <1>12 DEF ReleaseKey, Same, FreeAt
  <2> QED
    BY <2>1, HeldFrame DEF Tracked
<1>13. ASSUME NEW r \in Run, UnlockExecutor(r) PROVE Tracked'
  <2>1. \A q \in Run \ {r} : Same(q) /\ held'[Device(q)] = held[Device(q)]
    BY <1>13 DEF UnlockExecutor, Same
  <2>2. HeldAt(r)'
    BY <1>13 DEF UnlockExecutor, HeldAt
  <2>3. \A x \in Executor : FreeAt(x)'
    BY <1>13 DEF UnlockExecutor, FreeAt, HeldAt
  <2> QED
    BY <2>1, <2>2, <2>3, HeldFrame DEF Tracked
<1>14. ASSUME NEW r \in Run, JournalEnd(r) PROVE Tracked'
  <2>1. \A q \in Run \ {r} : Same(q) /\ held'[Device(q)] = held[Device(q)]
    BY <1>14 DEF JournalEnd, Same
  <2>2. HeldAt(r)'
    BY <1>14 DEF JournalEnd, HeldAt
  <2>3. \A x \in Executor : FreeAt(x)'
    BY <1>14 DEF JournalEnd, FreeAt
  <2> QED
    BY <2>1, <2>2, <2>3, HeldFrame DEF Tracked
<1>15. ASSUME NEW r \in Run, Cancel(r) PROVE Tracked'
  <2>1. /\ \A q \in Run : Same(q) /\ held'[Device(q)] = held[Device(q)]
        /\ \A x \in Executor : FreeAt(x)'
    BY <1>15 DEF Cancel, Same, FreeAt
  <2> QED
    BY <2>1, HeldFrame DEF Tracked
<1>16. ASSUME NEW x \in Executor, Crash(x) PROVE Tracked'
  <2>1. \A q \in Run : Device(q) # x => Same(q) /\ held'[Device(q)] = held[Device(q)]
    BY <1>16 DEF Crash, Same
  <2>2. \A q \in Run : Device(q) = x => stage'[q] \in {"idle", "done", "dead"}
    BY <1>16 DEF Crash
  <2>3. \A q \in Run : Device(q) = x => HeldAt(q)'
    BY <2>2 DEF HeldAt
  <2>4. \A y \in Executor : FreeAt(y)'
    BY <1>16 DEF Crash, FreeAt
  <2> QED
    BY <2>1, <2>3, <2>4, HeldFrame DEF Tracked
<1>17. ASSUME Tick PROVE Tracked'
  <2>1. /\ \A q \in Run : Same(q) /\ held'[Device(q)] = held[Device(q)]
        /\ \A x \in Executor : FreeAt(x)'
    BY <1>17 DEF Tick, Same, FreeAt
  <2> QED
    BY <2>1, HeldFrame DEF Tracked
<1>18. CASE UNCHANGED vars
  BY <1>18, HeldFrame DEF vars, Same, Tracked, FreeAt
<1> QED
  BY <1>1, <1>2, <1>3, <1>4, <1>5, <1>6, <1>7, <1>8, <1>9, <1>10,
     <1>11, <1>12, <1>13, <1>14, <1>15, <1>16, <1>17, <1>18 DEF Next,
     Advances

-----------------------------------------------------------------------------
(* What a run pressed and is still down: the device remembers it, or the   *)
(* cleanup has still to release it, or its last call returned an error.    *)

Quiet == {"idle", "start", "lock", "loop", "record", "act", "sleep", "check"}

AccountedAt(r) ==
  /\ stage[r] \in Quiet => failed[r] = {}
  /\ stage[r] # "dead" =>
       \A k \in down : presser[k][1] = r =>
         \/ k \in Untracked
         \/ stage[r] \in Acting /\ k \in held[Device(r)]
         \/ k \in releasing[r]
         \/ \E f \in failed[r] : f.key = k /\ f.call # "up"

Accounted == \A r \in Run : AccountedAt(r)

(* The deferred ReleaseAll takes over everything the device remembers. *)
LEMMA CleanupAccounts ==
  ASSUME Typed, Owned, Accounted, NEW r \in Run, stage[r] \in Quiet \cap Acting,
         UNCHANGED <<down, presser, failed>>,
         \/ \E e : Cleanup(r, e, held[Device(r)])
         \/ stage'[r] \in Quiet \cap Acting /\ UNCHANGED <<releasing, held>>
  PROVE  AccountedAt(r)'
<1>1. AccountedAt(r) /\ failed[r] = {}
  BY DEF Accounted, AccountedAt
<1>2. ASSUME NEW k \in down, presser[k][1] = r, k \notin Untracked
      PROVE  k \in held[Device(r)] \/ k \in releasing[r]
  BY <1>1, <1>2 DEF AccountedAt, Quiet
<1>3. CASE stage'[r] \in Quiet \cap Acting /\ UNCHANGED <<releasing, held>>
  BY <1>1, <1>2, <1>3 DEF AccountedAt
<1>4. ASSUME NEW e, Cleanup(r, e, held[Device(r)]) PROVE AccountedAt(r)'
  <2>1. stage'[r] = "release" /\ releasing'[r] = held[Device(r)]
    BY <1>4 DEF Cleanup, Typed, TypeOK
  <2>2. releasing[r] = {}
    BY DEF Owned, OwnsAt, Quiet
  <2> QED
    BY <1>2, <2>1, <2>2 DEF AccountedAt, Quiet
<1> QED
  BY <1>3, <1>4

(* Every step keeps every key that is down accounted for.                  *)
LEMMA AccountedStep ==
  Typed /\ Owned /\ Tracked /\ Accounted /\ [Next]_vars => Accounted'
<1> SUFFICES ASSUME Typed, Owned, Tracked, Accounted, [Next]_vars PROVE Accounted'
  OBVIOUS
<1> /\ stage \in [Run -> Stage] /\ held \in [Executor -> SUBSET Key]
    /\ releasing \in [Run -> SUBSET Key] /\ down \in SUBSET Key
    /\ presser \in [Key -> Presser] /\ failed \in [Run -> SUBSET FailedCall]
    /\ \A r \in Run : AccountedAt(r) /\ HeldAt(r) /\ OwnsAt(r)
  BY DEF Typed, TypeOK, Accounted, Tracked, Owned
<1>1. ASSUME NEW r \in Run, NEW p \in PlansOf[r], NEW x \in Expiries, Begin(r, p, x) PROVE Accounted'
  <2>1. \A q \in Run \ {r} : AccountedAt(q)'
    BY <1>1, OthersWait DEF Begin, AccountedAt, Quiet, Acting
  <2>2. AccountedAt(r)'
    BY <1>1 DEF Begin, AccountedAt, Quiet, Acting
  <2> QED
    BY <2>1, <2>2 DEF Accounted
<1>2. ASSUME NEW r \in Run, JournalStart(r) PROVE Accounted'
  <2>1. \A q \in Run \ {r} : AccountedAt(q)'
    BY <1>2, OthersWait DEF JournalStart, AccountedAt, Quiet, Acting
  <2>2. AccountedAt(r)'
    BY <1>2 DEF JournalStart, AccountedAt, Quiet, Acting
  <2> QED
    BY <2>1, <2>2 DEF Accounted
<1>3. ASSUME NEW r \in Run, LockExecutor(r) PROVE Accounted'
  <2>1. \A q \in Run \ {r} : AccountedAt(q)'
    BY <1>3, OthersWait DEF LockExecutor, AccountedAt, Quiet, Acting
  <2>2. AccountedAt(r)'
    BY <1>3 DEF LockExecutor, AccountedAt, Quiet, Acting
  <2> QED
    BY <2>1, <2>2 DEF Accounted
<1>4. ASSUME NEW r \in Run, LoopChecks(r) PROVE Accounted'
  <2>1. \A q \in Run \ {r} : AccountedAt(q)'
    BY <1>4, OthersWait DEF LoopChecks, Cleanup, AccountedAt, Quiet, Acting
  <2>2. /\ stage[r] \in Quiet \cap Acting /\ UNCHANGED <<down, presser, failed>>
        /\ \/ \E e : Cleanup(r, e, held[Device(r)])
           \/ stage'[r] \in Quiet \cap Acting /\ UNCHANGED <<releasing, held>>
    BY <1>4 DEF LoopChecks, Quiet, Acting
  <2> QED
    BY <2>1, <2>2, CleanupAccounts DEF Accounted
<1>5. ASSUME NEW r \in Run, JournalAction(r) PROVE Accounted'
  <2>1. \A q \in Run \ {r} : AccountedAt(q)'
    BY <1>5, OthersWait DEF JournalAction, Cleanup, AccountedAt, Quiet, Acting
  <2>2. /\ stage[r] \in Quiet \cap Acting /\ UNCHANGED <<down, presser, failed>>
        /\ \/ \E e : Cleanup(r, e, held[Device(r)])
           \/ stage'[r] \in Quiet \cap Acting /\ UNCHANGED <<releasing, held>>
    BY <1>5 DEF JournalAction, Quiet, Acting
  <2> QED
    BY <2>1, <2>2, CleanupAccounts DEF Accounted
<1>6. ASSUME NEW r \in Run, KeyCall(r) PROVE Accounted'
  <2> DEFINE c == Current(r)
  <2>1. /\ stage[r] = "act" /\ c.op \in {"down", "up", "forget"}
        /\ c \in Call /\ c.key \in Key /\ c.tracked \in BOOLEAN
        /\ c.tracked \/ c.key \in Untracked
    <3>1. /\ stage[r] = "act" /\ c.op \in {"down", "up", "forget"}
          /\ step[r] \in 1 .. Len(Calls(r)) /\ WellFormed(Calls(r)) /\ c \in Call
      BY <1>6, CurrentCall DEF KeyCall, Doing
    <3> QED
      BY <3>1, CallCases DEF WellFormed, Bracketed, OnlyUntracked, Current
  <2>2. failed[r] = {}
    BY <2>1 DEF AccountedAt, Quiet
  <2>3. UNCHANGED <<lock>> /\ \A q \in Run \ {r} : stage'[q] = stage[q]
          /\ releasing'[q] = releasing[q] /\ failed'[q] = failed[q]
    <3>1. lock' = lock
      BY <1>6 DEF KeyCall
    <3>2. \A q \in Run \ {r} : stage'[q] = stage[q] /\ releasing'[q] = releasing[q]
      BY <1>6 DEF KeyCall, Advance, Cleanup
    <3>3. \A q \in Run \ {r} : failed'[q] = failed[q]
      BY <1>6 DEF KeyCall, Answered, Errs, LastCall
    <3> QED
      BY <3>1, <3>2, <3>3
  <2>4. ASSUME NEW q \in Run \ {r} PROVE AccountedAt(q)'
    <3>1. \A k \in down' : presser'[k][1] = q => k \in down /\ presser[k][1] = q
      <4>1. /\ down' \subseteq down \cup {c.key}
            /\ \A k \in Key : presser'[k] = presser[k] \/ presser'[k] = <<r, index[r]>>
            /\ c.key \in down' \ down => presser'[c.key] = <<r, index[r]>>
        BY <1>6, <2>1 DEF KeyCall, Deliver, Reaches
      <4> QED
        BY <4>1
    <3>2. stage[q] \in Acting => held'[Device(q)] = held[Device(q)]
      BY <1>6, <2>1, OthersWait DEF KeyCall, Cleanup, Acting
    <3> QED
      BY <2>3, <3>1, <3>2 DEF AccountedAt, Quiet
  <2>5. ASSUME /\ Deliver(r, c) /\ Answered(r, c.key) /\ Advance(r) /\ UNCHANGED releasing
                /\ held' = [held EXCEPT ![Device(r)] = HeldAfter(r, c, TRUE)]
        PROVE  AccountedAt(r)'
    <3>1. stage'[r] \in {"act", "check"} /\ failed'[r] = {}
      BY <2>2, <2>5 DEF Advance, Answered, LastCall
    <3>2. ASSUME NEW k \in down', presser'[k][1] = r, k \notin Untracked
          PROVE  k \in held'[Device(r)]
      <4>1. held'[Device(r)] = HeldAfter(r, c, TRUE)
        BY <2>5
      <4>2. CASE k = c.key
        <5>1. c.op = "down" /\ c.tracked
          BY <2>1, <2>5, <3>2, <4>2 DEF Deliver
        <5> QED
          BY <4>1, <4>2, <5>1 DEF HeldAfter
      <4>3. CASE k # c.key
        <5>1. k \in down /\ presser[k][1] = r
          BY <2>5, <3>2, <4>3 DEF Deliver
        <5>2. k \in held[Device(r)]
          BY <2>1, <2>2, <3>2, <5>1 DEF AccountedAt, Quiet, Owned, OwnsAt
        <5> QED
          BY <2>1, <4>1, <4>3, <5>2 DEF HeldAfter
      <4> QED
        BY <4>2, <4>3
    <3> QED
      BY <3>1, <3>2 DEF AccountedAt, Quiet, Acting
  <2>6. ASSUME /\ Reaches(r, c) /\ Errs(r, c.key, c.op)
                /\ Cleanup(r, "device", HeldAfter(r, c, FALSE))
        PROVE  AccountedAt(r)'
    <3>1. /\ stage'[r] = "release" /\ releasing'[r] = HeldAfter(r, c, FALSE)
          /\ [key |-> c.key, call |-> c.op] \in failed'[r]
      BY <2>6 DEF Cleanup, Errs, LastCall
    <3>2. ASSUME NEW k \in down', presser'[k][1] = r, k \notin Untracked
          PROVE  \/ k \in releasing'[r]
                 \/ \E f \in failed'[r] : f.key = k /\ f.call # "up"
      <4>1. CASE k = c.key /\ c.op # "up"
        BY <3>1, <4>1
      <4>2. CASE k # c.key \/ c.op = "up"
        <5>1. k \in down /\ presser[k][1] = r
          BY <2>1, <2>6, <3>2, <4>2 DEF Reaches, Deliver
        <5>2. k \in held[Device(r)]
          BY <2>1, <2>2, <3>2, <5>1 DEF AccountedAt, Quiet, Owned, OwnsAt
        <5> QED
          BY <2>1, <3>1, <4>2, <5>2 DEF HeldAfter
      <4> QED
        BY <4>1, <4>2
    <3> QED
      BY <3>1, <3>2 DEF AccountedAt, Quiet, Acting
  <2>7. AccountedAt(r)'
    BY <1>6, <2>5, <2>6 DEF KeyCall
  <2> QED
    BY <2>4, <2>7 DEF Accounted
<1>7. ASSUME NEW r \in Run, PlainCall(r) PROVE Accounted'
  <2>1. \A q \in Run \ {r} : AccountedAt(q)'
    BY <1>7, OthersWait DEF PlainCall, Cleanup, Advance, AccountedAt, Quiet, Acting
  <2>2. /\ stage[r] \in Quiet \cap Acting /\ UNCHANGED <<down, presser, failed>>
        /\ \/ \E e : Cleanup(r, e, held[Device(r)])
           \/ stage'[r] \in Quiet \cap Acting /\ UNCHANGED <<releasing, held>>
    BY <1>7 DEF PlainCall, Advance, Quiet, Acting
  <2> QED
    BY <2>1, <2>2, CleanupAccounts DEF Accounted
<1>8. ASSUME NEW r \in Run, Sweep(r) PROVE Accounted'
  <2>1. held[Device(r)] = {} /\ stage[r] = "act"
    BY <1>8, NothingToSweep DEF Sweep
  <2>2. down' = down /\ held' = held
    BY <1>8, <2>1 DEF Sweep
  <2>3. \A q \in Run : AccountedAt(q)'
    BY <1>8, <2>1, <2>2 DEF Sweep, Advance, AccountedAt, Quiet, Acting
  <2> QED
    BY <2>3 DEF Accounted
<1>9. ASSUME NEW r \in Run, FallAsleep(r) PROVE Accounted'
  <2>1. \A q \in Run \ {r} : AccountedAt(q)'
    BY <1>9, OthersWait DEF FallAsleep, Cleanup, AccountedAt, Quiet, Acting
  <2>2. /\ stage[r] \in Quiet \cap Acting /\ UNCHANGED <<down, presser, failed>>
        /\ \/ \E e : Cleanup(r, e, held[Device(r)])
           \/ stage'[r] \in Quiet \cap Acting /\ UNCHANGED <<releasing, held>>
    BY <1>9 DEF FallAsleep, Quiet, Acting
  <2> QED
    BY <2>1, <2>2, CleanupAccounts DEF Accounted
<1>10. ASSUME NEW r \in Run, WakeUp(r) PROVE Accounted'
  <2>1. \A q \in Run \ {r} : AccountedAt(q)'
    BY <1>10, OthersWait DEF WakeUp, Cleanup, Advance, AccountedAt, Quiet, Acting
  <2>2. /\ stage[r] \in Quiet \cap Acting /\ UNCHANGED <<down, presser, failed>>
        /\ \/ \E e : Cleanup(r, e, held[Device(r)])
           \/ stage'[r] \in Quiet \cap Acting /\ UNCHANGED <<releasing, held>>
    BY <1>10 DEF WakeUp, Advance, Quiet, Acting
  <2> QED
    BY <2>1, <2>2, CleanupAccounts DEF Accounted
<1>11. ASSUME NEW r \in Run, CheckAfter(r) PROVE Accounted'
  <2>1. \A q \in Run \ {r} : AccountedAt(q)'
    BY <1>11, OthersWait DEF CheckAfter, Cleanup, AccountedAt, Quiet, Acting
  <2>2. /\ stage[r] \in Quiet \cap Acting /\ UNCHANGED <<down, presser, failed>>
        /\ \/ \E e : Cleanup(r, e, held[Device(r)])
           \/ stage'[r] \in Quiet \cap Acting /\ UNCHANGED <<releasing, held>>
    BY <1>11 DEF CheckAfter, Quiet, Acting
  <2> QED
    BY <2>1, <2>2, CleanupAccounts DEF Accounted
<1>12. ASSUME NEW r \in Run, ReleaseKey(r) PROVE Accounted'
  <2>1. PICK k \in releasing[r] :
          /\ releasing' = [releasing EXCEPT ![r] = @ \ {k}]
          /\ \/ Deliver(r, Up(k)) /\ Answered(r, k)
             \/ Reaches(r, Up(k)) /\ Errs(r, k, "release")
    BY <1>12 DEF ReleaseKey
  <2>2. /\ UNCHANGED <<stage, held, presser>>
        /\ stage[r] = "release"
        /\ down' \subseteq down
    BY <1>12, <2>1, CallFields DEF ReleaseKey, Deliver, Reaches
  <2>3. \A q \in Run \ {r} : failed'[q] = failed[q] /\ releasing'[q] = releasing[q]
    BY <2>1 DEF Answered, Errs, LastCall
  <2>4. \A q \in Run \ {r} : AccountedAt(q)'
    BY <2>2, <2>3 DEF AccountedAt, Quiet
  <2>5. ASSUME NEW x \in down', x = k
        PROVE  \E f \in failed'[r] : f.key = x /\ f.call # "up"
    <3>1. Errs(r, k, "release")
      BY <2>1, <2>5, CallFields DEF Deliver
    <3>2. [key |-> k, call |-> "release"] \in failed'[r]
      BY <3>1 DEF Errs, LastCall
    <3> QED
      BY <3>2, <2>5
  <2>6. ASSUME NEW x \in down', x # k, NEW f \in failed[r], f.key = x
        PROVE  f \in failed'[r]
    BY <2>1, <2>6 DEF Answered, Errs, LastCall
  <2>7. ASSUME NEW x \in releasing[r], x # k PROVE x \in releasing'[r]
    BY <2>1, <2>7
  <2>8. AccountedAt(r)'
    BY <2>2, <2>5, <2>6, <2>7 DEF AccountedAt, Quiet, Acting
  <2> QED
    BY <2>4, <2>8 DEF Accounted
<1>13. ASSUME NEW r \in Run, UnlockExecutor(r) PROVE Accounted'
  <2>1. \A q \in Run \ {r} : AccountedAt(q)'
    BY <1>13, OthersWait DEF UnlockExecutor, AccountedAt, Quiet, Acting
  <2>2. AccountedAt(r)'
    BY <1>13 DEF UnlockExecutor, AccountedAt, HeldAt, Quiet, Acting
  <2> QED
    BY <2>1, <2>2 DEF Accounted
<1>14. ASSUME NEW r \in Run, JournalEnd(r) PROVE Accounted'
  <2>1. \A q \in Run \ {r} : AccountedAt(q)'
    BY <1>14, OthersWait DEF JournalEnd, AccountedAt, Quiet, Acting
  <2>2. AccountedAt(r)'
    BY <1>14 DEF JournalEnd, AccountedAt, Quiet, Acting
  <2> QED
    BY <2>1, <2>2 DEF Accounted
<1>15. ASSUME NEW r \in Run, Cancel(r) PROVE Accounted'
  <2>1. \A q \in Run \ {r} : AccountedAt(q)'
    BY <1>15, OthersWait DEF Cancel, AccountedAt, Quiet, Acting
  <2>2. AccountedAt(r)'
    BY <1>15 DEF Cancel, AccountedAt, Quiet, Acting
  <2> QED
    BY <2>1, <2>2 DEF Accounted
<1>16. ASSUME NEW x \in Executor, Crash(x) PROVE Accounted'
  <2>1. ASSUME NEW q \in Run, Device(q) = x PROVE AccountedAt(q)'
    BY <1>16, <2>1 DEF Crash, AccountedAt, Quiet, Acting
  <2>2. ASSUME NEW q \in Run, Device(q) # x PROVE AccountedAt(q)'
    BY <1>16, <2>2 DEF Crash, AccountedAt, Quiet, Acting
  <2> QED
    BY <2>1, <2>2 DEF Accounted
<1>17. ASSUME Tick PROVE Accounted'
  BY <1>17 DEF Tick, Accounted, AccountedAt, Quiet, Acting
<1>18. CASE UNCHANGED vars
  BY <1>18 DEF vars, Accounted, AccountedAt, Quiet
<1> QED
  BY <1>1, <1>2, <1>3, <1>4, <1>5, <1>6, <1>7, <1>8, <1>9, <1>10,
     <1>11, <1>12, <1>13, <1>14, <1>15, <1>16, <1>17, <1>18 DEF Next,
     Advances

(* When a run has returned, whatever its error, the keys it pressed are up *)
(* again, save Shift, mouse buttons and keys whose last call returned an   *)
(* error the device forgets about (executeUntil's deferred ReleaseAll,     *)
(* KVMDDevice.Key, HoldKey, Text).                                         *)
THEOREM CleanupAlwaysReleases == Spec => []CleanupReleases
<1> DEFINE IInv == Typed /\ Owned /\ Tracked /\ Accounted
<1>1. Init => Owned /\ Tracked /\ Accounted
  BY DEF Init, Owned, OwnsAt, Tracked, HeldAt, FreeAt, Accounted, AccountedAt,
     Acting
<1>2. IInv /\ [Next]_vars => (Owned /\ Tracked /\ Accounted)'
  BY OwnedStep, TrackedStep, AccountedStep
<1>3. IInv => CleanupReleases
  <2> SUFFICES ASSUME IInv PROVE CleanupReleases
    OBVIOUS
  <2>1. NothingHeldBetweenActions
    BY DEF NothingHeldBetweenActions, Tracked, HeldAt
  <2>2. ASSUME NEW r \in Run, stage[r] \in {"end", "done"}, NEW k \in down,
               presser[k][1] = r
        PROVE  k \in Untracked \/ \E f \in failed[r] : f.key = k /\ f.call # "up"
    <3>1. releasing[r] = {} /\ stage[r] \notin Acting
      BY <2>2 DEF Owned, OwnsAt, Acting
    <3> QED
      BY <2>2, <3>1 DEF Accounted, AccountedAt
  <2> QED
    BY <2>1, <2>2 DEF CleanupReleases
<1> QED
  BY <1>1, <1>2, <1>3, TypedInvariant, PTL DEF Spec

-----------------------------------------------------------------------------
(* The journal of a run, by where the run is; and when it made its last    *)
(* check.                                                                  *)

Follows(j, n) ==
  /\ Len(j) = n + 1
  /\ j[1] = Rec("sequence_start", 0)
  /\ \A i \in 1 .. n : j[i + 1] = Rec("action", i)

Timely(r) ==
  finish[r] < expires[r] /\ finish[r] - start[r] < MaxDuration[plan[r]]

JournaledAt(r) ==
  /\ stage[r] \in {"idle", "start"} => journal[r] = <<>>
  /\ stage[r] \in {"lock", "loop", "record"} => Follows(journal[r], index[r] - 1)
  /\ stage[r] \in {"act", "sleep", "check"} => Follows(journal[r], index[r])
  /\ stage[r] = "loop" /\ index[r] # 1 => Timely(r)
  /\ stage[r] \in {"release", "end", "done"} /\ err[r] = "nil" => Timely(r)
  /\ stage[r] \in {"release", "end"} /\ err[r] = "nil" =>
       Follows(journal[r], Len(Actions(r)))
  /\ stage[r] = "done" /\ err[r] = "nil" =>
       \E j \in Seq(Record) : /\ Follows(j, Len(Actions(r)))
                              /\ journal[r] = Append(j, Rec("sequence_end", 0))

Journaled == \A r \in Run : JournaledAt(r)

(* A journal that follows the plan follows it one action further after the *)
(* record of that action.                                                  *)
LEMMA FollowsNext ==
  ASSUME NEW j \in Seq(Record), NEW i \in Nat \ {0}, Follows(j, i - 1)
  PROVE  Follows(Append(j, Rec("action", i)), i)
<1>1. Len(j) = i
  BY DEF Follows
<1> DEFINE k == Append(j, Rec("action", i))
<1>2. Len(k) = i + 1 /\ k[i + 1] = Rec("action", i) /\ \A n \in 1 .. i : k[n] = j[n]
  BY <1>1
<1>3. ASSUME NEW n \in 1 .. i PROVE k[n + 1] = Rec("action", n)
  <2>1. CASE n = i
    BY <1>2, <2>1
  <2>2. CASE n # i
    <3>1. n \in 1 .. i - 1 /\ n + 1 \in 1 .. i
      BY <2>2
    <3> QED
      BY <1>2, <3>1 DEF Follows
  <2> QED
    BY <2>1, <2>2
<1> QED
  BY <1>2, <1>3 DEF Follows

SameRun(q) ==
  /\ stage'[q] = stage[q] /\ plan'[q] = plan[q] /\ index'[q] = index[q]
  /\ journal'[q] = journal[q] /\ err'[q] = err[q] /\ start'[q] = start[q]
  /\ expires'[q] = expires[q] /\ finish'[q] = finish[q]

(* A journal's shape depends on its own run.                               *)
LEMMA JournaledFrame ==
  ASSUME Journaled, NEW q \in Run, SameRun(q)
  PROVE  JournaledAt(q)'
BY DEF SameRun, Journaled, JournaledAt, Timely, Actions

(* Every step keeps the journals in step with the runs.                    *)
LEMMA JournaledStep == Typed /\ Journaled /\ [Next]_vars => Journaled'
<1> SUFFICES ASSUME Typed, Journaled, [Next]_vars PROVE Journaled'
  OBVIOUS
<1> /\ stage \in [Run -> Stage] /\ index \in [Run -> Nat] /\ err \in [Run -> Error]
    /\ plan \in [Run -> Plan \cup {NoRun}] /\ finish \in [Run -> Nat]
    /\ expires \in [Run -> Nat] /\ start \in [Run -> Nat]
    /\ DOMAIN journal = Run
    /\ \A r \in Run : JournaledAt(r)
  BY DEF Typed, TypeOK, Journaled, Journals
<1>1. ASSUME NEW r \in Run, NEW p \in PlansOf[r], NEW x \in Expiries, Begin(r, p, x) PROVE Journaled'
  <2>1. \A q \in Run \ {r} : SameRun(q)
    BY <1>1 DEF Begin, SameRun
  <2>2. JournaledAt(r)'
    BY <1>1 DEF Begin, JournaledAt
  <2> QED
    BY <2>1, <2>2, JournaledFrame DEF Journaled
<1>2. ASSUME NEW r \in Run, JournalStart(r) PROVE Journaled'
  <2>1. \A q \in Run \ {r} : SameRun(q)
    BY <1>2 DEF JournalStart, AppendRecord, SameRun
  <2>2. JournaledAt(r)'
    <3>1. CASE AppendRecord(r, Rec("sequence_start", 0)) /\ stage' = [stage EXCEPT ![r] = "lock"]
      <4>1. /\ journal'[r] = Append(<<>>, Rec("sequence_start", 0)) /\ stage'[r] = "lock"
            /\ index'[r] = 1
        BY <1>2, <3>1 DEF JournalStart, AppendRecord, JournaledAt, Typed, Control, ControlAt
      <4>2. Follows(journal'[r], 0)
        BY <4>1 DEF Follows
      <4> QED
        BY <4>1, <4>2 DEF JournaledAt
    <3>2. CASE err' = [err EXCEPT ![r] = "journal"] /\ stage' = [stage EXCEPT ![r] = "done"]
      BY <3>2 DEF JournaledAt
    <3> QED
      BY <1>2, <3>1, <3>2 DEF JournalStart
  <2> QED
    BY <2>1, <2>2, JournaledFrame DEF Journaled
<1>3. ASSUME NEW r \in Run, LockExecutor(r) PROVE Journaled'
  <2>1. \A q \in Run \ {r} : SameRun(q)
    BY <1>3 DEF LockExecutor, SameRun
  <2>2. JournaledAt(r)'
    BY <1>3 DEF LockExecutor, JournaledAt, Typed, Control, ControlAt
  <2> QED
    BY <2>1, <2>2, JournaledFrame DEF Journaled
<1>4. ASSUME NEW r \in Run, LoopChecks(r) PROVE Journaled'
  <2>1. \A q \in Run \ {r} : SameRun(q)
    BY <1>4 DEF LoopChecks, Cleanup, SameRun
  <2>2. JournaledAt(r)'
    <3>1. CASE AfterLast(r)
      <4>1. /\ plan[r] \in Plan /\ index[r] \in 1 .. Len(Actions(r)) + 1
            /\ Len(Actions(r)) \in Nat \ {0}
        BY <1>4, PlanCalls DEF LoopChecks, Typed, Control, ControlAt, Actions
      <4>2. index[r] = Len(Actions(r)) + 1 /\ index[r] - 1 = Len(Actions(r)) /\ index[r] # 1
        BY <3>1, <4>1 DEF AfterLast
      <4>3. Timely(r) /\ Follows(journal[r], Len(Actions(r)))
        BY <1>4, <4>2 DEF LoopChecks, JournaledAt
      <4>4. stage'[r] = "release" /\ UNCHANGED <<plan, expires, start, finish, journal>>
        BY <1>4, <3>1 DEF LoopChecks, Cleanup
      <4> QED
        BY <4>3, <4>4 DEF JournaledAt, Timely, Actions
    <3>2. CASE ~ AfterLast(r)
      <4>1. \/ stage'[r] = "record"
            \/ stage'[r] = "release" /\ err'[r] # "nil"
        BY <1>4, <3>2 DEF LoopChecks, Cleanup
      <4>2. stage[r] = "loop" /\ UNCHANGED <<index, journal>>
        BY <1>4 DEF LoopChecks
      <4> QED
        BY <4>1, <4>2 DEF JournaledAt
    <3> QED
      BY <3>1, <3>2
  <2> QED
    BY <2>1, <2>2, JournaledFrame DEF Journaled
<1>5. ASSUME NEW r \in Run, JournalAction(r) PROVE Journaled'
  <2>1. \A q \in Run \ {r} : SameRun(q)
    BY <1>5 DEF JournalAction, Cleanup, AppendRecord, SameRun
  <2>2. JournaledAt(r)'
    <3>1. stage[r] = "record" /\ Follows(journal[r], index[r] - 1) /\ index[r] \in Nat \ {0}
          /\ journal[r] \in Seq(Record)
      <4>1. stage[r] = "record"
        BY <1>5 DEF JournalAction
      <4>2. index[r] \in 1 .. Len(Actions(r)) /\ Len(Actions(r)) \in Nat
        BY <4>1, CurrentCall DEF Doing
      <4>3. Follows(journal[r], index[r] - 1)
        BY <4>1 DEF JournaledAt
      <4>4. journal[r] \in Seq(Record)
        BY DEF Typed, TypeOK, Journals
      <4> QED
        BY <4>1, <4>2, <4>3, <4>4
    <3>2. CASE AppendRecord(r, Rec("action", index[r])) /\ stage' = [stage EXCEPT ![r] = "act"]
      <4>1. journal'[r] = Append(journal[r], Rec("action", index[r])) /\ stage'[r] = "act"
            /\ UNCHANGED index
        BY <1>5, <3>2 DEF JournalAction, AppendRecord
      <4>2. Follows(journal'[r], index[r])
        BY <3>1, <4>1, FollowsNext
      <4> QED
        BY <4>1, <4>2 DEF JournaledAt
    <3>3. CASE Cleanup(r, "journal", held[Device(r)])
      BY <3>3 DEF Cleanup, JournaledAt
    <3> QED
      BY <1>5, <3>2, <3>3 DEF JournalAction
  <2> QED
    BY <2>1, <2>2, JournaledFrame DEF Journaled
<1>6. ASSUME NEW r \in Run, KeyCall(r) PROVE Journaled'
  <2>1. \A q \in Run \ {r} : SameRun(q)
    BY <1>6 DEF KeyCall, Advance, Cleanup, SameRun
  <2>2. JournaledAt(r)'
    <3>1. /\ stage[r] \in {"act", "sleep"} /\ UNCHANGED <<index, journal>>
          /\ \/ stage'[r] \in {"act", "sleep", "check"}
             \/ stage'[r] = "release" /\ err'[r] # "nil"
      BY <1>6 DEF KeyCall, Advance, Cleanup
    <3> QED
      BY <3>1 DEF JournaledAt
  <2> QED
    BY <2>1, <2>2, JournaledFrame DEF Journaled
<1>7. ASSUME NEW r \in Run, PlainCall(r) PROVE Journaled'
  <2>1. \A q \in Run \ {r} : SameRun(q)
    BY <1>7 DEF PlainCall, Advance, Cleanup, SameRun
  <2>2. JournaledAt(r)'
    <3>1. /\ stage[r] \in {"act", "sleep"} /\ UNCHANGED <<index, journal>>
          /\ \/ stage'[r] \in {"act", "sleep", "check"}
             \/ stage'[r] = "release" /\ err'[r] # "nil"
      BY <1>7 DEF PlainCall, Advance, Cleanup
    <3> QED
      BY <3>1 DEF JournaledAt
  <2> QED
    BY <2>1, <2>2, JournaledFrame DEF Journaled
<1>8. ASSUME NEW r \in Run, Sweep(r) PROVE Journaled'
  <2>1. \A q \in Run \ {r} : SameRun(q)
    BY <1>8 DEF Sweep, Advance, SameRun
  <2>2. JournaledAt(r)'
    <3>1. /\ stage[r] \in {"act", "sleep"} /\ UNCHANGED <<index, journal>>
          /\ \/ stage'[r] \in {"act", "sleep", "check"}
             \/ stage'[r] = "release" /\ err'[r] # "nil"
      BY <1>8 DEF Sweep, Advance
    <3> QED
      BY <3>1 DEF JournaledAt
  <2> QED
    BY <2>1, <2>2, JournaledFrame DEF Journaled
<1>9. ASSUME NEW r \in Run, FallAsleep(r) PROVE Journaled'
  <2>1. \A q \in Run \ {r} : SameRun(q)
    BY <1>9 DEF FallAsleep, Cleanup, SameRun
  <2>2. JournaledAt(r)'
    <3>1. /\ stage[r] \in {"act", "sleep"} /\ UNCHANGED <<index, journal>>
          /\ \/ stage'[r] \in {"act", "sleep", "check"}
             \/ stage'[r] = "release" /\ err'[r] # "nil"
      BY <1>9 DEF FallAsleep, Cleanup
    <3> QED
      BY <3>1 DEF JournaledAt
  <2> QED
    BY <2>1, <2>2, JournaledFrame DEF Journaled
<1>10. ASSUME NEW r \in Run, WakeUp(r) PROVE Journaled'
  <2>1. \A q \in Run \ {r} : SameRun(q)
    BY <1>10 DEF WakeUp, Advance, Cleanup, SameRun
  <2>2. JournaledAt(r)'
    <3>1. /\ stage[r] \in {"act", "sleep"} /\ UNCHANGED <<index, journal>>
          /\ \/ stage'[r] \in {"act", "sleep", "check"}
             \/ stage'[r] = "release" /\ err'[r] # "nil"
      BY <1>10 DEF WakeUp, Advance, Cleanup
    <3> QED
      BY <3>1 DEF JournaledAt
  <2> QED
    BY <2>1, <2>2, JournaledFrame DEF Journaled
<1>11. ASSUME NEW r \in Run, CheckAfter(r) PROVE Journaled'
  <2>1. \A q \in Run \ {r} : SameRun(q)
    BY <1>11 DEF CheckAfter, Cleanup, SameRun
  <2>2. JournaledAt(r)'
    <3>1. stage[r] = "check" /\ UNCHANGED <<journal, plan, expires, start, now>>
      BY <1>11 DEF CheckAfter
    <3>2. CASE Overdue(r) # "nil"
      BY <1>11, <3>2 DEF CheckAfter, Cleanup, JournaledAt
    <3>3. CASE Overdue(r) = "nil"
      <4>1. stage'[r] = "loop" /\ index'[r] = index[r] + 1 /\ finish'[r] = now
        BY <1>11, <3>3 DEF CheckAfter
      <4>2. now < expires[r] /\ now - start[r] < MaxDuration[plan[r]]
        <5>1. plan[r] \in Plan
          BY <3>1, CurrentCall DEF Doing
        <5>2. /\ now \in Nat /\ expires[r] \in Nat /\ start[r] \in Nat
              /\ MaxDuration[plan[r]] \in Nat
          BY <5>1, PlansAssumption DEF Typed, TypeOK
        <5> QED
          BY <3>3, <5>2 DEF Overdue, Expired, Late, Elapsed
      <4>3. index[r] + 1 - 1 = index[r]
        BY DEF Typed, TypeOK
      <4> QED
        BY <3>1, <4>1, <4>2, <4>3 DEF JournaledAt, Timely
    <3> QED
      BY <3>2, <3>3
  <2> QED
    BY <2>1, <2>2, JournaledFrame DEF Journaled
<1>12. ASSUME NEW r \in Run, ReleaseKey(r) PROVE Journaled'
  <2>1. \A q \in Run : SameRun(q)
    BY <1>12 DEF ReleaseKey, SameRun
  <2> QED
    BY <2>1, JournaledFrame DEF Journaled
<1>13. ASSUME NEW r \in Run, UnlockExecutor(r) PROVE Journaled'
  <2>1. \A q \in Run \ {r} : SameRun(q)
    BY <1>13 DEF UnlockExecutor, SameRun
  <2>2. JournaledAt(r)'
    BY <1>13 DEF UnlockExecutor, JournaledAt, Timely, Actions
  <2> QED
    BY <2>1, <2>2, JournaledFrame DEF Journaled
<1>14. ASSUME NEW r \in Run, JournalEnd(r) PROVE Journaled'
  <2>1. \A q \in Run \ {r} : SameRun(q)
    BY <1>14 DEF JournalEnd, AppendRecord, SameRun
  <2>2. JournaledAt(r)'
    <3>1. stage[r] = "end" /\ UNCHANGED <<plan, expires, start, finish>>
          /\ stage'[r] = "done" /\ journal[r] \in Seq(Record)
      BY <1>14 DEF JournalEnd, Typed, TypeOK, Journals
    <3>2. CASE AppendRecord(r, Rec("sequence_end", 0)) /\ UNCHANGED err
      <4>1. journal'[r] = Append(journal[r], Rec("sequence_end", 0))
        BY <3>2 DEF AppendRecord, Typed, TypeOK, Journals
      <4> QED
        BY <3>1, <3>2, <4>1 DEF JournaledAt, Timely, Actions
    <3>3. CASE err' = [err EXCEPT ![r] = IF @ = "nil" THEN "journal" ELSE @]
      <4>1. err'[r] # "nil"
        BY <3>3
      <4> QED
        BY <3>1, <4>1 DEF JournaledAt
    <3> QED
      BY <1>14, <3>2, <3>3 DEF JournalEnd
  <2> QED
    BY <2>1, <2>2, JournaledFrame DEF Journaled
<1>15. ASSUME NEW r \in Run, Cancel(r) PROVE Journaled'
  <2>1. \A q \in Run : SameRun(q)
    BY <1>15 DEF Cancel, SameRun
  <2> QED
    BY <2>1, JournaledFrame DEF Journaled
<1>16. ASSUME NEW x \in Executor, Crash(x) PROVE Journaled'
  <2>1. \A q \in Run : SameRun(q) \/ stage'[q] = "dead"
    BY <1>16 DEF Crash, SameRun
  <2>2. \A q \in Run : stage'[q] = "dead" => JournaledAt(q)'
    BY DEF JournaledAt
  <2> QED
    BY <2>1, <2>2, JournaledFrame DEF Journaled
<1>17. ASSUME Tick PROVE Journaled'
  <2>1. \A q \in Run : SameRun(q)
    BY <1>17 DEF Tick, SameRun
  <2> QED
    BY <2>1, JournaledFrame DEF Journaled
<1>18. CASE UNCHANGED vars
  BY <1>18, JournaledFrame DEF vars, SameRun, Journaled
<1> QED
  BY <1>1, <1>2, <1>3, <1>4, <1>5, <1>6, <1>7, <1>8, <1>9, <1>10,
     <1>11, <1>12, <1>13, <1>14, <1>15, <1>16, <1>17, <1>18 DEF Next,
     Advances

-----------------------------------------------------------------------------
(* A run whose wait was cut short: when it can be where it is.             *)

CutAt(r) ==
  /\ finish[r] <= now
  /\ stage[r] \in {"idle", "start", "lock"} => ~ clipped[r]
  /\ clipped[r] =>
       \/ stage[r] \in {"release", "end", "done"} /\ err[r] # "nil"
       \/ stage[r] = "dead"
       \/ stage[r] = "sleep" /\ wake[r] + Millisecond > Limit(r)
       \/ stage[r] \in {"act", "check"} /\ now + Millisecond > Limit(r)
       \/ finish[r] + Millisecond > Limit(r)

Cut == \A r \in Run : CutAt(r)

(* What a run's limits depend on.                                          *)
SameLimits(r) ==
  /\ plan'[r] = plan[r] /\ expires'[r] = expires[r] /\ start'[r] = start[r]
  /\ clipped'[r] = clipped[r]

(* The times of a run, and its limit.                                      *)
LEMMA LimitTypes ==
  ASSUME Typed, NEW r \in Run
  PROVE  /\ start[r] \in Nat /\ expires[r] \in Nat /\ finish[r] \in Nat
         /\ wake[r] \in Nat /\ now \in Nat /\ Millisecond \in Nat
         /\ stage[r] # "idle" => Limit(r) \in Int
         /\ SameLimits(r) => Limit(r)' = Limit(r)
<1>1. stage[r] # "idle" => plan[r] \in Plan
  BY DEF Typed, Control, ControlAt
<1>2. /\ start[r] \in Nat /\ expires[r] \in Nat /\ finish[r] \in Nat
      /\ wake[r] \in Nat /\ now \in Nat /\ Millisecond \in Nat
  BY TimesAssumption DEF Typed, TypeOK
<1>3. plan[r] \in Plan => MaxDuration[plan[r]] \in Nat
  BY PlansAssumption
<1>4. SameLimits(r) => Limit(r)' = Limit(r)
  BY DEF SameLimits, Limit, Least
<1> QED
  BY <1>1, <1>2, <1>3, <1>4 DEF Limit, Least

(* A run whose stage, error and times stay is where it was, only later.    *)
LEMMA CutFrame ==
  ASSUME Typed, Cut, NEW q \in Run, SameLimits(q), now' \in Nat, now <= now',
         stage'[q] = stage[q], err'[q] = err[q], wake'[q] = wake[q], finish'[q] = finish[q]
  PROVE  CutAt(q)'
<1>1. CutAt(q) /\ clipped'[q] = clipped[q] /\ Limit(q)' = Limit(q)
  BY LimitTypes DEF Cut, SameLimits
<1>2. /\ finish[q] \in Nat /\ now \in Nat /\ Millisecond \in Nat
      /\ stage[q] # "idle" => Limit(q) \in Int
  BY LimitTypes
<1>3. finish'[q] <= now'
  BY <1>1, <1>2 DEF CutAt
<1>4. stage[q] \in {"idle", "start", "lock"} => ~ clipped[q]
  BY <1>1 DEF CutAt
<1>5. stage[q] \in {"act", "check"} /\ now + Millisecond > Limit(q) =>
        now' + Millisecond > Limit(q)
  BY <1>2
<1> QED
  BY <1>1, <1>3, <1>4, <1>5 DEF CutAt

(* A run that a step moves, without its finish or its limits, from where   *)
(* it was not asleep.                                                      *)
LEMMA CutMoves ==
  ASSUME Typed, Cut, NEW r \in Run, SameLimits(r), now' = now, finish'[r] = finish[r],
         \/ /\ stage[r] \in {"act", "sleep"} /\ stage'[r] \in {"act", "check"}
            /\ stage[r] = "sleep" => wake[r] <= now
         \/ /\ stage[r] \in {"act", "sleep"}
            /\ stage'[r] = "release" /\ err'[r] # "nil"
         \/ /\ stage[r] \in {"loop", "record"}
            /\ stage'[r] \in {"record", "act", "release"}
         \/ /\ stage[r] \in {"release", "end"} /\ stage'[r] \in {"end", "done"}
            /\ err[r] # "nil" => err'[r] # "nil"
         \/ stage[r] \in {"start", "lock"} /\ stage'[r] \in {"lock", "loop", "done"}
         \/ stage'[r] = "dead"
  PROVE  CutAt(r)'
<1>1. CutAt(r) /\ clipped'[r] = clipped[r] /\ Limit(r)' = Limit(r)
  BY LimitTypes DEF Cut, SameLimits
<1>2. /\ finish[r] \in Nat /\ now \in Nat /\ Millisecond \in Nat /\ wake[r] \in Nat
      /\ stage[r] # "idle" => Limit(r) \in Int
  BY LimitTypes
<1>3. finish'[r] <= now'
  BY <1>1 DEF CutAt
<1>4. stage[r] \in {"start", "lock"} => ~ clipped[r]
  BY <1>1 DEF CutAt
<1>5. ASSUME clipped[r], stage[r] \in {"act", "sleep"}, stage'[r] \in {"act", "check"},
             stage[r] = "sleep" => wake[r] <= now
      PROVE  now + Millisecond > Limit(r) \/ finish[r] + Millisecond > Limit(r)
  BY <1>1, <1>2, <1>5 DEF CutAt
<1> QED
  BY <1>1, <1>3, <1>4, <1>5 DEF CutAt

(* Every step keeps a cut wait next to its limit.                          *)
LEMMA CutStep == Typed /\ Cut /\ [Next]_vars => Cut'
<1> SUFFICES ASSUME Typed, Cut, [Next]_vars, NEW q \in Run PROVE CutAt(q)'
  BY DEF Cut
<1> /\ stage \in [Run -> Stage] /\ err \in [Run -> Error] /\ now \in Nat
    /\ plan \in [Run -> Plan \cup {NoRun}] /\ finish \in [Run -> Nat]
    /\ expires \in [Run -> Nat] /\ start \in [Run -> Nat] /\ wake \in [Run -> Nat]
    /\ clipped \in [Run -> BOOLEAN]
  BY DEF Typed, TypeOK
<1>1. ASSUME NEW r \in Run, NEW p \in PlansOf[r], NEW x \in Expiries, Begin(r, p, x)
      PROVE CutAt(q)'
  <2>1. CASE q # r
    BY <1>1, <2>1, CutFrame DEF Begin, SameLimits
  <2>2. CASE q = r
    BY <1>1, <2>2 DEF Begin, Cut, CutAt
  <2> QED
    BY <2>1, <2>2
<1>2. ASSUME NEW r \in Run, JournalStart(r) PROVE CutAt(q)'
  <2>1. CASE q # r
    BY <1>2, <2>1, CutFrame DEF JournalStart, SameLimits
  <2>2. CASE q = r
    BY <1>2, <2>2, CutMoves DEF JournalStart, SameLimits
  <2> QED
    BY <2>1, <2>2
<1>3. ASSUME NEW r \in Run, LockExecutor(r) PROVE CutAt(q)'
  <2>1. CASE q # r
    BY <1>3, <2>1, CutFrame DEF LockExecutor, SameLimits
  <2>2. CASE q = r
    BY <1>3, <2>2 DEF LockExecutor, Cut, CutAt
  <2> QED
    BY <2>1, <2>2
<1>4. ASSUME NEW r \in Run, LoopChecks(r) PROVE CutAt(q)'
  <2>1. CASE q # r
    BY <1>4, <2>1, CutFrame DEF LoopChecks, Cleanup, SameLimits
  <2>2. CASE q = r
    BY <1>4, <2>2, CutMoves DEF LoopChecks, Cleanup, SameLimits
  <2> QED
    BY <2>1, <2>2
<1>5. ASSUME NEW r \in Run, JournalAction(r) PROVE CutAt(q)'
  <2>1. CASE q # r
    BY <1>5, <2>1, CutFrame DEF JournalAction, Cleanup, SameLimits
  <2>2. CASE q = r
    BY <1>5, <2>2, CutMoves DEF JournalAction, Cleanup, SameLimits
  <2> QED
    BY <2>1, <2>2
<1>6. ASSUME NEW r \in Run, KeyCall(r) PROVE CutAt(q)'
  <2>1. CASE q # r
    <3>1. SameLimits(q) /\ now' = now /\ finish'[q] = finish[q] /\ wake'[q] = wake[q]
      BY <1>6 DEF KeyCall, SameLimits
    <3>2. stage'[q] = stage[q] /\ err'[q] = err[q]
      BY <1>6, <2>1 DEF KeyCall, Advance, Cleanup, To
    <3> QED
      BY <3>1, <3>2, CutFrame DEF SameLimits
  <2>2. CASE q = r
    BY <1>6, <2>2, CutMoves DEF KeyCall, Advance, Cleanup, SameLimits
  <2> QED
    BY <2>1, <2>2
<1>7. ASSUME NEW r \in Run, PlainCall(r) PROVE CutAt(q)'
  <2>1. CASE q # r
    BY <1>7, <2>1, CutFrame DEF PlainCall, Advance, Cleanup, SameLimits
  <2>2. CASE q = r
    BY <1>7, <2>2, CutMoves DEF PlainCall, Advance, Cleanup, SameLimits
  <2> QED
    BY <2>1, <2>2
<1>8. ASSUME NEW r \in Run, Sweep(r) PROVE CutAt(q)'
  <2>1. CASE q # r
    BY <1>8, <2>1, CutFrame DEF Sweep, Advance, SameLimits
  <2>2. CASE q = r
    BY <1>8, <2>2, CutMoves DEF Sweep, Advance, SameLimits
  <2> QED
    BY <2>1, <2>2
<1>9. ASSUME NEW r \in Run, FallAsleep(r) PROVE CutAt(q)'
  <2>1. CASE q # r
    BY <1>9, <2>1, CutFrame DEF FallAsleep, Cleanup, SameLimits
  <2>2. CASE q = r /\ Granted(r, Current(r)) <= 0
    BY <1>9, <2>2, CutMoves DEF FallAsleep, Cleanup, SameLimits
  <2>3. CASE q = r /\ ~ (Granted(r, Current(r)) <= 0)
    <3> DEFINE granted == Granted(r, Current(r))
    <3>1. /\ stage[r] = "act" /\ stage'[r] = "sleep" /\ wake'[r] = now + granted
          /\ clipped'[r] = (clipped[r] \/ Clips(r, Current(r)))
          /\ UNCHANGED <<plan, expires, start, finish, now>>
      BY <1>9, <2>3 DEF FallAsleep
    <3>2. /\ Remaining(r) \in Int /\ Limit(r) = now + Remaining(r) /\ granted \in Int
          /\ granted > 0
      BY <1>9, <2>3, GrantedTypes DEF FallAsleep
    <3>3. Limit(r)' = Limit(r)
      BY <3>1 DEF Limit, Least
    <3>4. Clips(r, Current(r)) => wake'[r] + Millisecond > Limit(r)
      <4>1. Clips(r, Current(r)) => granted = Whole(Remaining(r))
        BY DEF Granted
      <4> HIDE DEF granted
      <4> QED
        BY <3>1, <3>2, <4>1, WholeBounds, TimesAssumption
    <3>5. clipped[r] => wake'[r] + Millisecond > Limit(r) \/ finish[r] + Millisecond > Limit(r)
      <4>1. clipped[r] => now + Millisecond > Limit(r) \/ finish[r] + Millisecond > Limit(r)
        BY <3>1 DEF Cut, CutAt
      <4> HIDE DEF granted
      <4> QED
        BY <3>1, <3>2, <4>1, TimesAssumption
    <3>6. finish[r] <= now
      BY DEF Cut, CutAt
    <3> HIDE DEF granted
    <3> QED
      BY <2>3, <3>1, <3>3, <3>4, <3>5, <3>6 DEF CutAt
  <2> QED
    BY <2>1, <2>2, <2>3
<1>10. ASSUME NEW r \in Run, WakeUp(r) PROVE CutAt(q)'
  <2>1. CASE q # r
    BY <1>10, <2>1, CutFrame DEF WakeUp, Advance, Cleanup, SameLimits
  <2>2. CASE q = r
    <3>1. \/ now >= wake[r] /\ Advance(r)
          \/ Cleanup(r, "cancelled", held[Device(r)])
      BY <1>10 DEF WakeUp
    <3> QED
      BY <1>10, <2>2, <3>1, CutMoves DEF WakeUp, Advance, Cleanup, SameLimits
  <2> QED
    BY <2>1, <2>2
<1>11. ASSUME NEW r \in Run, CheckAfter(r) PROVE CutAt(q)'
  <2>1. CASE q # r
    BY <1>11, <2>1, CutFrame DEF CheckAfter, Cleanup, SameLimits
  <2>2. CASE q = r
    <3>1. /\ stage[r] = "check" /\ finish'[r] = now /\ SameLimits(r) /\ now' = now
          /\ stage'[r] \in {"release", "loop"}
      BY <1>11 DEF CheckAfter, Cleanup, SameLimits
    <3>2. Limit(r)' = Limit(r) /\ Limit(r) \in Int /\ Millisecond \in Nat /\ finish[r] \in Nat
      BY <3>1, LimitTypes
    <3>3. clipped[r] => now + Millisecond > Limit(r)
      BY <3>1, <3>2 DEF Cut, CutAt
    <3> QED
      BY <2>2, <3>1, <3>2, <3>3 DEF CutAt, SameLimits
  <2> QED
    BY <2>1, <2>2
<1>12. ASSUME NEW r \in Run, ReleaseKey(r) PROVE CutAt(q)'
  BY <1>12, CutFrame DEF ReleaseKey, SameLimits
<1>13. ASSUME NEW r \in Run, UnlockExecutor(r) PROVE CutAt(q)'
  <2>1. CASE q # r
    BY <1>13, <2>1, CutFrame DEF UnlockExecutor, SameLimits
  <2>2. CASE q = r
    BY <1>13, <2>2, CutMoves DEF UnlockExecutor, SameLimits
  <2> QED
    BY <2>1, <2>2
<1>14. ASSUME NEW r \in Run, JournalEnd(r) PROVE CutAt(q)'
  <2>1. CASE q # r
    BY <1>14, <2>1, CutFrame DEF JournalEnd, SameLimits
  <2>2. CASE q = r
    <3>1. err[r] # "nil" => err'[r] # "nil"
      BY <1>14 DEF JournalEnd
    <3> QED
      BY <1>14, <2>2, <3>1, CutMoves DEF JournalEnd, SameLimits
  <2> QED
    BY <2>1, <2>2
<1>15. ASSUME NEW r \in Run, Cancel(r) PROVE CutAt(q)'
  BY <1>15, CutFrame DEF Cancel, SameLimits
<1>16. ASSUME NEW x \in Executor, Crash(x) PROVE CutAt(q)'
  <2>1. /\ SameLimits(q) /\ now' = now /\ err'[q] = err[q] /\ wake'[q] = wake[q]
        /\ finish'[q] = finish[q]
        /\ stage'[q] = "dead" \/ stage'[q] = stage[q]
    BY <1>16 DEF Crash, SameLimits
  <2> QED
    BY <2>1, CutFrame, CutMoves
<1>17. ASSUME Tick PROVE CutAt(q)'
  BY <1>17, CutFrame DEF Tick, SameLimits
<1>18. CASE UNCHANGED vars
  BY <1>18, CutFrame DEF vars, SameLimits
<1> QED
  BY <1>1, <1>2, <1>3, <1>4, <1>5, <1>6, <1>7, <1>8, <1>9, <1>10,
     <1>11, <1>12, <1>13, <1>14, <1>15, <1>16, <1>17, <1>18 DEF Next,
     Advances

(* The whole journal of a run that did all its actions.                    *)
LEMMA FollowsIsWhole ==
  ASSUME NEW n \in Nat, NEW j \in Seq(Record), Follows(j, n), NEW e \in Record
  PROVE  Append(j, e) =
           <<Rec("sequence_start", 0)>> \o [i \in 1 .. n |-> Rec("action", i)] \o <<e>>
<1> DEFINE s == <<Rec("sequence_start", 0)>>
           f == [i \in 1 .. n |-> Rec("action", i)]
<1>1. s \in Seq(Record) /\ Len(s) = 1 /\ s[1] = Rec("sequence_start", 0)
  BY DEF Rec, Record
<1>2. f \in Seq(Record) /\ Len(f) = n
  <2>1. \A i \in 1 .. n : Rec("action", i) \in Record
    BY DEF Rec, Record
  <2> QED
    BY <2>1, IsASeq
<1>3. \A i \in 1 .. n : f[i] = Rec("action", i)
  OBVIOUS
<1> HIDE DEF s, f
<1>4. /\ s \o f \in Seq(Record) /\ Len(s \o f) = Len(s) + Len(f)
      /\ \A i \in 1 .. Len(s) + Len(f) :
           (s \o f)[i] = IF i <= Len(s) THEN s[i] ELSE f[i - Len(s)]
  <2> s \in Seq(Record) /\ f \in Seq(Record)
    BY <1>1, <1>2
  <2> QED
    BY ConcatProperties
<1>5. \A i \in 1 .. n + 1 : (s \o f)[i] = j[i]
  <2> SUFFICES ASSUME NEW i \in 1 .. n + 1 PROVE (s \o f)[i] = j[i]
    OBVIOUS
  <2>1. CASE i = 1
    BY <1>1, <1>2, <1>4, <2>1 DEF Follows
  <2>2. CASE i # 1
    <3>1. i - 1 \in 1 .. n /\ (i - 1) + 1 = i
      BY <2>2
    <3>2. (s \o f)[i] = f[i - 1]
      BY <1>1, <1>2, <1>4, <2>2
    <3> QED
      BY <1>3, <3>1, <3>2 DEF Follows
  <2> QED
    BY <2>1, <2>2
<1>6. s \o f = j
  <2>1. Len(s \o f) = Len(j) /\ Len(j) = n + 1
    BY <1>1, <1>2, <1>4 DEF Follows
  <2> QED
    BY <1>4, <1>5, <2>1, SeqEqual
<1>7. Append(j, e) = j \o <<e>>
  BY AppendIsConcat
<1> QED
  BY <1>6, <1>7 DEF s, f

(* A run that reports success did every action of its plan, has the whole  *)
(* record of it in its journal and was inside both limits at its last      *)
(* check, in the last millisecond of them if a wait of it was cut short    *)
(* (ExecuteAuthorized, executeUntil).                                      *)
THEOREM SuccessAlwaysComplete == Spec => []SuccessIsComplete
<1>1. Init => Journaled
  BY DEF Init, Journaled, JournaledAt
<1>0. Init => Cut
  BY DEF Init, Cut, CutAt
<1>2. Typed /\ Journaled /\ Cut => SuccessIsComplete
  <2> SUFFICES ASSUME Typed, Journaled, Cut, NEW r \in Run, stage[r] = "done", err[r] = "nil"
               PROVE  /\ journal[r] = <<Rec("sequence_start", 0)>>
                           \o [n \in 1 .. Len(Actions(r)) |-> Rec("action", n)]
                           \o <<Rec("sequence_end", 0)>>
                      /\ finish[r] < Limit(r)
                      /\ clipped[r] => finish[r] > Limit(r) - Millisecond
    BY DEF SuccessIsComplete
  <2>1. plan[r] \in Plan /\ Len(Actions(r)) \in Nat
    BY PlanCalls DEF Typed, Control, ControlAt, Actions
  <2>2. PICK j \in Seq(Record) : /\ Follows(j, Len(Actions(r)))
                                /\ journal[r] = Append(j, Rec("sequence_end", 0))
    BY DEF Journaled, JournaledAt
  <2>3. Rec("sequence_end", 0) \in Record
    BY DEF Rec, Record
  <2>4. Append(j, Rec("sequence_end", 0)) = <<Rec("sequence_start", 0)>>
          \o [n \in 1 .. Len(Actions(r)) |-> Rec("action", n)]
          \o <<Rec("sequence_end", 0)>>
    BY <2>1, <2>2, <2>3, FollowsIsWhole
  <2>5. /\ finish[r] \in Nat /\ start[r] \in Nat /\ expires[r] \in Nat
        /\ MaxDuration[plan[r]] \in Nat /\ Millisecond \in Nat /\ Limit(r) \in Int
    BY <2>1, LimitTypes, PlansAssumption
  <2>6. finish[r] < Limit(r)
    BY <2>5 DEF Journaled, JournaledAt, Timely, Limit, Least
  <2>7. clipped[r] => finish[r] > Limit(r) - Millisecond
    <3>1. clipped[r] => finish[r] + Millisecond > Limit(r)
      BY DEF Cut, CutAt
    <3> QED
      BY <2>5, <3>1
  <2> QED
    BY <2>2, <2>4, <2>6, <2>7
<1> QED
  BY <1>0, <1>1, <1>2, JournaledStep, CutStep, TypedInvariant, PTL DEF Spec

-----------------------------------------------------------------------------
(* The journal is ahead of the target. *)

AccountsFor(r, press) ==
  r \in Run /\ \E n \in 1 .. Len(journal[r]) : journal[r][n] = Rec("action", press[2])

Recorded == \A k \in down : AccountsFor(presser[k][1], presser[k])

(* Nothing is ever taken out of a journal. *)
LEMMA GrowsOnly ==
  ASSUME Typed, NEW q \in Run, NEW rec, AppendRecord(q, rec),
         NEW r \in Run, NEW n \in 1 .. Len(journal[r])
  PROVE  n \in 1 .. Len(journal'[r]) /\ journal'[r][n] = journal[r][n]
<1>1. journal \in Journals /\ journal[r] \in Seq(Record)
  BY DEF Typed, TypeOK, Journals
<1>2. CASE r = q
  <2>1. journal'[r] = Append(journal[r], rec)
    BY <1>1, <1>2 DEF AppendRecord, Journals
  <2> QED
    BY <1>1, <2>1, AppendProperties
<1>3. CASE r # q
  BY <1>1, <1>3 DEF AppendRecord, Journals
<1> QED
  BY <1>2, <1>3

(* Every step but a call appends at most a record and presses no key. *)
LEMMA RecordedStays ==
  ASSUME Typed, Recorded, down' \subseteq down, UNCHANGED presser,
         UNCHANGED journal \/ \E q \in Run : \E rec : AppendRecord(q, rec)
  PROVE  Recorded'
<1> SUFFICES ASSUME NEW k \in down'
             PROVE  /\ presser'[k][1] \in Run
                    /\ \E n \in 1 .. Len(journal'[presser'[k][1]]) :
                         journal'[presser'[k][1]][n] = Rec("action", presser'[k][2])
  BY DEF Recorded, AccountsFor, Rec
<1> DEFINE r == presser[k][1]
           press == presser[k]
<1>1. PICK n \in 1 .. Len(journal[r]) : journal[r][n] = Rec("action", press[2])
  BY DEF Recorded, AccountsFor
<1>2. presser'[k] = press /\ r \in Run
  BY DEF Recorded, AccountsFor
<1>3. n \in 1 .. Len(journal'[r]) /\ journal'[r][n] = journal[r][n]
  <2>1. CASE UNCHANGED journal
    BY <1>1, <2>1
  <2>2. CASE \E q \in Run : \E rec : AppendRecord(q, rec)
    BY <1>1, <1>2, <2>2, GrowsOnly
  <2> QED
    BY <2>1, <2>2
<1> QED
  BY <1>1, <1>2, <1>3

(* Every step keeps the journal ahead of the target.                       *)
LEMMA RecordedStep == Typed /\ Journaled /\ Recorded /\ [Next]_vars => Recorded'
<1> SUFFICES ASSUME Typed, Journaled, Recorded, [Next]_vars PROVE Recorded'
  OBVIOUS
<1> /\ presser \in [Key -> Presser] /\ down \in SUBSET Key
  BY DEF Typed, TypeOK
<1>1. ASSUME NEW r \in Run, NEW p \in PlansOf[r], NEW x \in Expiries, Begin(r, p, x) PROVE Recorded'
  <2>1. UNCHANGED <<down, presser, journal>>
    BY <1>1 DEF Begin
  <2> QED
    BY <2>1, RecordedStays
<1>2. ASSUME NEW r \in Run, JournalStart(r) PROVE Recorded'
  <2>1. /\ down' \subseteq down /\ UNCHANGED presser
        /\ (UNCHANGED journal \/ \E q \in Run : \E rec : AppendRecord(q, rec))
    BY <1>2 DEF JournalStart
  <2> QED
    BY <2>1, RecordedStays
<1>3. ASSUME NEW r \in Run, LockExecutor(r) PROVE Recorded'
  <2>1. UNCHANGED <<down, presser, journal>>
    BY <1>3 DEF LockExecutor
  <2> QED
    BY <2>1, RecordedStays
<1>4. ASSUME NEW r \in Run, LoopChecks(r) PROVE Recorded'
  <2>1. UNCHANGED <<down, presser, journal>>
    BY <1>4 DEF LoopChecks
  <2> QED
    BY <2>1, RecordedStays
<1>5. ASSUME NEW r \in Run, JournalAction(r) PROVE Recorded'
  <2>1. /\ down' \subseteq down /\ UNCHANGED presser
        /\ (UNCHANGED journal \/ \E q \in Run : \E rec : AppendRecord(q, rec))
    BY <1>5 DEF JournalAction
  <2> QED
    BY <2>1, RecordedStays
<1>6. ASSUME NEW r \in Run, KeyCall(r) PROVE Recorded'
  <2> DEFINE c == Current(r)
  <2>1. stage[r] = "act" /\ c.key \in Key /\ index[r] \in Nat /\ UNCHANGED journal
    BY <1>6, CurrentCall, CallCases DEF KeyCall, Doing, Typed, TypeOK
  <2>2. AccountsFor(r, <<r, index[r]>>)
    <3>1. Len(journal[r]) = index[r] + 1 /\ index[r] # 0
      BY <2>1, CurrentCall DEF Journaled, JournaledAt, Follows, Doing
    <3>2. journal[r][index[r] + 1] = Rec("action", index[r])
      BY <2>1, <3>1 DEF Journaled, JournaledAt, Follows
    <3>3. index[r] + 1 \in 1 .. Len(journal[r])
      BY <2>1, <3>1
    <3> QED
      BY <3>2, <3>3 DEF AccountsFor
  <2>3. ASSUME NEW k \in down'
        PROVE  presser'[k] = <<r, index[r]>> \/ (k \in down /\ presser'[k] = presser[k])
    BY <1>6, <2>1 DEF KeyCall, Deliver, Reaches
  <2> QED
    BY <2>1, <2>2, <2>3 DEF Recorded, AccountsFor
<1>7. ASSUME NEW r \in Run, PlainCall(r) PROVE Recorded'
  <2>1. UNCHANGED <<down, presser, journal>>
    BY <1>7 DEF PlainCall
  <2> QED
    BY <2>1, RecordedStays
<1>8. ASSUME NEW r \in Run, Sweep(r) PROVE Recorded'
  <2>1. down' \subseteq down /\ UNCHANGED <<presser, journal>>
    BY <1>8 DEF Sweep
  <2> QED
    BY <2>1, RecordedStays
<1>9. ASSUME NEW r \in Run, FallAsleep(r) PROVE Recorded'
  <2>1. UNCHANGED <<down, presser, journal>>
    BY <1>9 DEF FallAsleep
  <2> QED
    BY <2>1, RecordedStays
<1>10. ASSUME NEW r \in Run, WakeUp(r) PROVE Recorded'
  <2>1. UNCHANGED <<down, presser, journal>>
    BY <1>10 DEF WakeUp
  <2> QED
    BY <2>1, RecordedStays
<1>11. ASSUME NEW r \in Run, CheckAfter(r) PROVE Recorded'
  <2>1. UNCHANGED <<down, presser, journal>>
    BY <1>11 DEF CheckAfter
  <2> QED
    BY <2>1, RecordedStays
<1>12. ASSUME NEW r \in Run, ReleaseKey(r) PROVE Recorded'
  <2>1. down' \subseteq down /\ UNCHANGED <<presser, journal>>
    BY <1>12, CallFields DEF ReleaseKey, Deliver, Reaches
  <2> QED
    BY <2>1, RecordedStays
<1>13. ASSUME NEW r \in Run, UnlockExecutor(r) PROVE Recorded'
  <2>1. UNCHANGED <<down, presser, journal>>
    BY <1>13 DEF UnlockExecutor
  <2> QED
    BY <2>1, RecordedStays
<1>14. ASSUME NEW r \in Run, JournalEnd(r) PROVE Recorded'
  <2>1. /\ down' \subseteq down /\ UNCHANGED presser
        /\ (UNCHANGED journal \/ \E q \in Run : \E rec : AppendRecord(q, rec))
    BY <1>14 DEF JournalEnd
  <2> QED
    BY <2>1, RecordedStays
<1>15. ASSUME NEW r \in Run, Cancel(r) PROVE Recorded'
  <2>1. UNCHANGED <<down, presser, journal>>
    BY <1>15 DEF Cancel
  <2> QED
    BY <2>1, RecordedStays
<1>16. ASSUME NEW x \in Executor, Crash(x) PROVE Recorded'
  <2>1. UNCHANGED <<down, presser, journal>>
    BY <1>16 DEF Crash
  <2> QED
    BY <2>1, RecordedStays
<1>17. ASSUME Tick PROVE Recorded'
  <2>1. UNCHANGED <<down, presser, journal>>
    BY <1>17 DEF Tick
  <2> QED
    BY <2>1, RecordedStays
<1>18. CASE UNCHANGED vars
  BY <1>18, RecordedStays DEF vars, device
<1> QED
  BY <1>1, <1>2, <1>3, <1>4, <1>5, <1>6, <1>7, <1>8, <1>9, <1>10,
     <1>11, <1>12, <1>13, <1>14, <1>15, <1>16, <1>17, <1>18 DEF Next,
     Advances

(* A key is down only because of an action whose record is in the journal: *)
(* executeUntil's record call comes before executeAction.                  *)
THEOREM JournalAlwaysPrecedes == Spec => []JournalPrecedesDevice
<1>1. Init => Journaled /\ Recorded
  BY DEF Init, Journaled, JournaledAt, Recorded
<1>2. Recorded => JournalPrecedesDevice
  BY DEF Recorded, AccountsFor, JournalPrecedesDevice
<1> QED
  BY <1>1, <1>2, JournaledStep, RecordedStep, TypedInvariant, PTL DEF Spec

=============================================================================
