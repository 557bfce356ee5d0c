--------------------------- MODULE RequestsProofs ----------------------------
(***************************************************************************)
(* What Requests satisfies for every number of processes, whatever they    *)
(* run, and for every number of retries.                                   *)
(***************************************************************************)
EXTENDS Requests, TLAPS

-----------------------------------------------------------------------------
(* The requests. *)

(* What a request may ask, also without the cache or with --timeout.       *)
LEMMA AskedTypes ==
  ASSUME NEW c, c.request \in RequestSet, NEW n \in BOOLEAN, NEW t \in BOOLEAN
  PROVE  Asked(c, n, t) \in RequestSet
BY DEF RequestSet, Uncached, Timed, Asked

(* A change that a failure lets the client repeat is one that may be       *)
(* executed twice: it carries a key, or is a PUT or a DELETE.              *)
Repeatable(r) == r.key \/ r.method \in {"PUT", "DELETE"}

(* Of the requests a command line may give, any that a failure repeats is. *)
LEMMA RepeatedIsRepeatable ==
  ASSUME NEW r \in RequestSet, Changes(r), CanRetryAmbiguousFailure(r)
  PROVE  Repeatable(r)
BY DEF RequestSet, Changes, CanRetryAmbiguousFailure, CanRetryRequest, Repeatable

-----------------------------------------------------------------------------
(* Types. *)

(* A worker that goes idle forgets its request, and no other does.         *)
LEMMA Forgets ==
  ASSUME TypeOK, NEW w \in Worker, Forget(w)
  PROVE  /\ pc' \in [Worker -> Label] /\ request' \in [Worker -> RequestSet \cup {NoRequest}]
         /\ elsewhere' \in [Worker -> BOOLEAN] /\ attempt' \in [Worker -> 0 .. MaxRetries]
         /\ late' \in [Worker -> BOOLEAN] /\ body' \in [Worker -> {Mixed, Empty} \cup 0 .. MaxVersion]
         /\ executed' \in [Worker -> Nat] /\ UNCHANGED <<begun, version>>
         /\ pc'[w] = "idle" /\ executed'[w] = 0
         /\ \A x \in Worker \ {w} :
              /\ pc'[x] = pc[x] /\ request'[x] = request[x]
              /\ body'[x] = body[x] /\ executed'[x] = executed[x]
BY BoundsAssumption DEF TypeOK, Label, Forget, To

(* So types hold that hold of what it leaves.                              *)
LEMMA Reset ==
  ASSUME TypeOK, NEW w \in Worker, Forget(w),
         linked' \in [Worker -> BOOLEAN], file' \in {NoFile, Mixed, Empty} \cup 0 .. MaxVersion,
         acked' \in 0 .. version, behind' \in BOOLEAN, left' \in BOOLEAN
  PROVE  TypeOK'
<1>1. \A x \in Worker :
        pc'[x] \in {"answer", "body", "invalidate", "clear"} \cup Filling => body'[x] \in 0 .. version'
  BY Forgets DEF TypeOK, Filling
<1> QED
  BY <1>1, Forgets DEF TypeOK

(* So does a command that returns.                                         *)
LEMMA ReturnTypes == ASSUME TypeOK, NEW w \in Worker, Returns(w) PROVE TypeOK'
<1>1. /\ linked' \in [Worker -> BOOLEAN] /\ file' \in {NoFile, Mixed, Empty} \cup 0 .. MaxVersion
      /\ acked' \in 0 .. version /\ behind' \in BOOLEAN /\ left' \in BOOLEAN
  BY DEF TypeOK, Returns, fills
<1> QED
  BY <1>1, Reset DEF Returns

(* Every step keeps the types.                                             *)
LEMMA TypeStep == TypeOK /\ [Next]_vars => TypeOK'
<1> SUFFICES ASSUME TypeOK, [Next]_vars PROVE TypeOK'
  OBVIOUS
<1>1. ASSUME NEW w \in Worker, NEW c \in Offered[w], NEW n \in BOOLEAN, NEW t \in BOOLEAN,
             NEW l \in BOOLEAN, Begin(w, c, n, t, l)
      PROVE  TypeOK'
  <2>1. request' \in [Worker -> RequestSet \cup {NoRequest}]
    BY <1>1, OfferedAssumption, AskedTypes DEF Begin, TypeOK
  <2>2. elsewhere' \in [Worker -> BOOLEAN] /\ begun' \in 0 .. MaxCommands
    BY <1>1, BoundsAssumption DEF Begin, TypeOK, Changes
  <2>3. PICK label \in {"local", "stat", "send"} : To(w, label)
    BY <1>1 DEF Begin
  <2> QED
    BY <1>1, <2>1, <2>2, <2>3 DEF Begin, To, TypeOK, Label, Filling, progress, fills
<1>2. ASSUME NEW w \in Worker, NEW c \in Offered[w], Unsent(w, c)
      PROVE  TypeOK'
  <2>1. /\ begun < MaxCommands /\ begun' = begun + 1
        /\ UNCHANGED <<pc, asked, progress, version, executed, file, acked, fills>>
    BY <1>2 DEF Unsent
  <2>2. begun' \in 0 .. MaxCommands
    BY <2>1, BoundsAssumption DEF TypeOK
  <2> QED
    BY <2>1, <2>2 DEF TypeOK, asked, progress, fills
<1>3. ASSUME NEW w \in Worker, Stat(w) PROVE TypeOK'
  BY <1>3, BoundsAssumption DEF Stat, To, TypeOK, Label, Filling, NoFile,
     Empty, Mixed, asked, progress, fills
<1>4. ASSUME NEW w \in Worker, ReadFile(w) PROVE TypeOK'
  BY <1>4, BoundsAssumption DEF ReadFile, To, TypeOK, Label, Filling,
     NoFile, Empty, Mixed, asked, progress, fills
<1>5. ASSUME NEW w \in Worker, Execute(w) PROVE TypeOK'
  BY <1>5, BoundsAssumption DEF Execute, To, TypeOK, Label, Filling,
     NoFile, Empty, Mixed, asked, progress, fills
<1>6. ASSUME NEW w \in Worker, Answer(w) PROVE TypeOK'
  BY <1>6, BoundsAssumption DEF Answer, Whole, To, TypeOK, Label, Filling, NoFile,
     Empty, Mixed, asked, progress, fills
<1>7. ASSUME NEW w \in Worker, Fail(w) PROVE TypeOK'
  <2>1. CASE Returns(w)
    BY <2>1, ReturnTypes
  <2>2. CASE ~ Returns(w)
    BY <1>7, <2>2, BoundsAssumption DEF Fail, FallBack, Left, Again, To, TypeOK, Label, Filling, asked, progress, fills
  <2> QED
    BY <2>1, <2>2
<1>8. ASSUME NEW w \in Worker, Refuse(w) PROVE TypeOK'
  <2>1. CASE Returns(w)
    BY <2>1, ReturnTypes
  <2>2. CASE ~ Returns(w)
    BY <1>8, <2>2, BoundsAssumption DEF Refuse, Left, Again, To, TypeOK, Label, Filling, asked, progress, fills
  <2> QED
    BY <2>1, <2>2
<1>9. ASSUME NEW w \in Worker, Wait(w) PROVE TypeOK'
  <2>1. CASE Returns(w)
    BY <2>1, ReturnTypes
  <2>2. CASE ~ Returns(w)
    BY <1>9, <2>2, BoundsAssumption DEF Wait, Left, Again, To, TypeOK, Label, Filling, asked, progress, fills
  <2> QED
    BY <2>1, <2>2
<1>10. ASSUME NEW w \in Worker, Invalidate(w) PROVE TypeOK'
  <2>1. Forget(w) /\ acked' \in 0 .. version
    BY <1>10 DEF Invalidate, TypeOK
  <2>2. linked' \in [Worker -> BOOLEAN] /\ left' \in BOOLEAN /\ behind' = behind /\ file' \in {file, NoFile}
    BY <1>10 DEF Invalidate, Invalidates, TypeOK, fills
  <2> QED
    BY <2>1, <2>2, Reset DEF TypeOK
<1>11. ASSUME NEW w \in Worker, ClearFile(w) PROVE TypeOK'
  BY <1>11, BoundsAssumption DEF ClearFile, To, TypeOK, Label, Filling,
     NoFile, Empty, Mixed, asked, progress, fills
<1>12. ASSUME NEW w \in Worker, CreateFile(w) PROVE TypeOK'
  BY <1>12, BoundsAssumption DEF CreateFile, To, TypeOK, Label, Filling,
     NoFile, Empty, Mixed, asked, progress, fills
<1>13. ASSUME NEW w \in Worker, WriteFile(w) PROVE TypeOK'
  <2>1. body[w] \in 0 .. MaxVersion
    BY <1>13, BoundsAssumption DEF WriteFile, TypeOK, Filling
  <2>2. file' \in {NoFile, Mixed, Empty} \cup 0 .. MaxVersion
    BY <1>13, <2>1 DEF WriteFile, Over, TypeOK
  <2>3. behind' \in BOOLEAN
    <3>1. (body[w] < acked) \in BOOLEAN
      OBVIOUS
    <3> QED
      BY <1>13, <3>1, Zenon DEF WriteFile, TypeOK
  <2> QED
    BY <1>13, <2>2, <2>3 DEF WriteFile, To, TypeOK, Label, Filling, asked
<1>14. ASSUME NEW w \in Worker, Use(w) PROVE TypeOK'
  BY <1>14, ReturnTypes DEF Use
<1>15. ASSUME NEW w \in Worker, Local(w) PROVE TypeOK'
  BY <1>15, ReturnTypes DEF Local
<1>16. ASSUME NEW w \in Worker, Deadline(w) PROVE TypeOK'
  BY <1>16, BoundsAssumption DEF Deadline, TypeOK, Label, Filling, NoFile,
     Empty, Mixed, asked, progress, fills
<1>17. ASSUME NEW w \in Worker, Crash(w) PROVE TypeOK'
  <2>1. linked' \in [Worker -> BOOLEAN]
    BY <1>17 DEF Crash, TypeOK
  <2> QED
    BY <1>17, <2>1, Reset DEF Crash, TypeOK, fills
<1>18. ASSUME NEW w \in Worker, ReadBody(w) PROVE TypeOK'
  <2>1. CASE Returns(w)
    BY <2>1, ReturnTypes
  <2>2. CASE ~ Returns(w)
    BY <1>18, <2>2, BoundsAssumption DEF ReadBody, Whole, FallBack, To, TypeOK, Label, Filling, asked, progress, fills
  <2> QED
    BY <2>1, <2>2
<1>19. CASE UNCHANGED vars
  BY <1>19 DEF vars, TypeOK, Label, Filling, NoFile, Empty, Mixed, asked,
     progress, fills
<1> QED
  BY <1>1, <1>2, <1>3, <1>4, <1>5, <1>6, <1>7, <1>8, <1>9, <1>10, <1>11,
     <1>12, <1>13, <1>14, <1>15, <1>16, <1>17, <1>18, <1>19 DEF Next, Step

-----------------------------------------------------------------------------
(* What the KVM executes. *)

(* A change that the KVM has executed and that may not be executed again   *)
(* is past the loop of attempts: it waits for its answer, or has it.       *)
Once ==
  \A w \in Worker : executed[w] > 0 =>
    /\ pc[w] # "idle" /\ Changes(request[w])
    /\ Repeatable(request[w]) \/ (executed[w] = 1 /\ pc[w] \in {"answer", "body", "invalidate"})

(* Every step keeps Once.                                                  *)
LEMMA OnceStep == TypeOK /\ Once /\ [Next]_vars => Once'
<1> SUFFICES ASSUME TypeOK, Once, [Next]_vars PROVE Once'
  OBVIOUS
<1>a. /\ \A w \in Worker : executed[w] \in Nat
      /\ pc = [w \in Worker |-> pc[w]] /\ request = [w \in Worker |-> request[w]]
      /\ executed = [w \in Worker |-> executed[w]]
  BY DEF TypeOK
<1>b. \A w \in Worker : Changes(request[w]) /\ CanRetry(w) => Repeatable(request[w])
  <2> SUFFICES ASSUME NEW w \in Worker, Changes(request[w]), CanRetry(w)
               PROVE  Repeatable(request[w])
    OBVIOUS
  <2>1. request[w] # NoRequest
    BY DEF CanRetry, CanRetryAmbiguousFailure, CanRetryRequest, NoRequest
  <2> QED
    BY <2>1, RepeatedIsRepeatable DEF CanRetry, TypeOK
<1>1. ASSUME NEW w \in Worker, NEW c \in Offered[w], NEW n \in BOOLEAN, NEW t \in BOOLEAN,
             NEW l \in BOOLEAN, Begin(w, c, n, t, l)
      PROVE  Once'
  BY <1>1, <1>a DEF Begin, To, Once, asked, progress, fills
<1>2. ASSUME NEW w \in Worker, NEW c \in Offered[w], Unsent(w, c)
      PROVE  Once'
  BY <1>2, <1>a DEF Unsent, Once, asked, progress, fills
<1>3. ASSUME NEW w \in Worker, Stat(w) PROVE Once'
  BY <1>3, <1>a DEF Stat, To, Once, asked, progress, fills
<1>4. ASSUME NEW w \in Worker, ReadFile(w) PROVE Once'
  BY <1>4, <1>a DEF ReadFile, To, Once, asked, progress, fills
<1>5. ASSUME NEW w \in Worker, Execute(w) PROVE Once'
  BY <1>5, <1>a DEF Execute, To, Once, asked, progress, fills
<1>6. ASSUME NEW w \in Worker, Answer(w) PROVE Once'
  BY <1>6, <1>a DEF Answer, Whole, To, Once, asked, progress, fills
<1>7. ASSUME NEW w \in Worker, Fail(w) PROVE Once'
  <2>1. CASE Returns(w)
    BY <2>1, Forgets DEF Returns, Once
  <2>2. CASE CanRetry(w) /\ Again(w)
    BY <2>2, <1>a, <1>b DEF Again, CanRetry, To, Once, asked, progress
  <2>3. CASE ~ Changes(request[w]) /\ To(w, "local") /\ UNCHANGED <<asked, executed>>
    BY <2>3, <1>a DEF To, Once, asked
  <2> QED
    BY <1>7, <2>1, <2>2, <2>3 DEF Fail, FallBack
<1>8. ASSUME NEW w \in Worker, Refuse(w) PROVE Once'
  <2>1. CASE Returns(w)
    BY <2>1, Forgets DEF Returns, Once
  <2>2. CASE CanRetry(w) /\ Again(w)
    BY <2>2, <1>a, <1>b DEF Again, CanRetry, To, Once, asked, progress
  <2> QED
    BY <1>8, <2>1, <2>2 DEF Refuse
<1>9. ASSUME NEW w \in Worker, Wait(w) PROVE Once'
  <2>1. CASE Returns(w)
    BY <2>1, Forgets DEF Returns, Once
  <2>2. CASE ~ Returns(w)
    BY <1>9, <2>2, <1>a DEF Wait, CanRetry, Again, To, Once, asked, progress
  <2> QED
    BY <2>1, <2>2
<1>10. ASSUME NEW w \in Worker, Invalidate(w) PROVE Once'
  BY <1>10, Forgets DEF Invalidate, Returns, Once
<1>11. ASSUME NEW w \in Worker, ClearFile(w) PROVE Once'
  BY <1>11, <1>a DEF ClearFile, To, Once, asked, progress, fills
<1>12. ASSUME NEW w \in Worker, CreateFile(w) PROVE Once'
  BY <1>12, <1>a DEF CreateFile, To, Once, asked, progress, fills
<1>13. ASSUME NEW w \in Worker, WriteFile(w) PROVE Once'
  BY <1>13, <1>a DEF WriteFile, Over, To, Once, asked, progress, fills
<1>14. ASSUME NEW w \in Worker, Use(w) PROVE Once'
  BY <1>14, Forgets DEF Use, Returns, Once
<1>15. ASSUME NEW w \in Worker, Local(w) PROVE Once'
  BY <1>15, Forgets DEF Local, Returns, Once
<1>16. ASSUME NEW w \in Worker, Deadline(w) PROVE Once'
  BY <1>16, <1>a DEF Deadline, Once, asked, progress, fills
<1>17. ASSUME NEW w \in Worker, Crash(w) PROVE Once'
  BY <1>17, Forgets DEF Crash, Returns, Once
<1>18. ASSUME NEW w \in Worker, ReadBody(w) PROVE Once'
  <2>1. CASE Returns(w)
    BY <2>1, Forgets DEF Returns, Once
  <2>2. CASE ~ Returns(w)
    BY <1>18, <2>2, <1>a DEF ReadBody, Whole, FallBack, To, Once, asked, progress, fills
  <2> QED
    BY <2>1, <2>2
<1>19. CASE UNCHANGED vars
  BY <1>19 DEF vars, Once, asked, progress, fills
<1> QED
  BY <1>1, <1>2, <1>3, <1>4, <1>5, <1>6, <1>7, <1>8, <1>9, <1>10, <1>11,
     <1>12, <1>13, <1>14, <1>15, <1>16, <1>17, <1>18, <1>19 DEF Next, Step

-----------------------------------------------------------------------------
(* What the cache serves. *)

(* Every step keeps the cache current: a file is filled with a body that   *)
(* the history compares with what was acknowledged, and an acknowledged    *)
(* mutation removes the file or leaves a trace of its failure.             *)
LEMMA CacheStep == TypeOK /\ CacheIsCurrent /\ [Next]_vars => CacheIsCurrent'
<1> SUFFICES ASSUME TypeOK, CacheIsCurrent, [Next]_vars PROVE CacheIsCurrent'
  OBVIOUS
<1>a. acked \in Nat /\ \A w \in Worker : pc[w] \in {"invalidate", "write"} => body[w] \in Nat
  BY DEF TypeOK, Filling
<1>1. ASSUME NEW w \in Worker, NEW c \in Offered[w], NEW n \in BOOLEAN, NEW t \in BOOLEAN,
             NEW l \in BOOLEAN, Begin(w, c, n, t, l)
      PROVE  CacheIsCurrent'
  BY <1>1, <1>a DEF Begin, To, CacheIsCurrent, NoFile, Empty, Mixed, asked,
     progress, fills
<1>2. ASSUME NEW w \in Worker, NEW c \in Offered[w], Unsent(w, c)
      PROVE  CacheIsCurrent'
  BY <1>2, <1>a DEF Unsent, CacheIsCurrent, NoFile, Empty, Mixed, asked,
     progress, fills
<1>3. ASSUME NEW w \in Worker, Stat(w) PROVE CacheIsCurrent'
  BY <1>3, <1>a DEF Stat, To, CacheIsCurrent, NoFile, Empty, Mixed, asked,
     progress, fills
<1>4. ASSUME NEW w \in Worker, ReadFile(w) PROVE CacheIsCurrent'
  BY <1>4, <1>a DEF ReadFile, To, CacheIsCurrent, NoFile, Empty, Mixed,
     asked, progress, fills
<1>5. ASSUME NEW w \in Worker, Execute(w) PROVE CacheIsCurrent'
  BY <1>5, <1>a DEF Execute, To, CacheIsCurrent, NoFile, Empty, Mixed,
     asked, progress, fills
<1>6. ASSUME NEW w \in Worker, Answer(w) PROVE CacheIsCurrent'
  BY <1>6, <1>a DEF Answer, Whole, To, CacheIsCurrent, NoFile, Empty, Mixed,
     asked, progress, fills
<1>7. ASSUME NEW w \in Worker, Fail(w) PROVE CacheIsCurrent'
  BY <1>7, <1>a DEF Fail, FallBack, Again, Returns, Forget, To, CacheIsCurrent,
     NoFile, Empty, Mixed, asked, progress, fills
<1>8. ASSUME NEW w \in Worker, Refuse(w) PROVE CacheIsCurrent'
  BY <1>8, <1>a DEF Refuse, Again, Returns, Forget, To, CacheIsCurrent,
     NoFile, Empty, Mixed, asked, progress, fills
<1>9. ASSUME NEW w \in Worker, Wait(w) PROVE CacheIsCurrent'
  BY <1>9, <1>a DEF Wait, Returns, Forget, To, CacheIsCurrent, NoFile,
     Empty, Mixed, asked, progress, fills
<1>10. ASSUME NEW w \in Worker, Invalidate(w) PROVE CacheIsCurrent'
  BY <1>10, <1>a DEF Invalidate, Invalidates, Forget, To, CacheIsCurrent,
     NoFile, Empty, Mixed, asked, progress, fills
<1>11. ASSUME NEW w \in Worker, ClearFile(w) PROVE CacheIsCurrent'
  BY <1>11, <1>a DEF ClearFile, To, CacheIsCurrent, NoFile, Empty, Mixed,
     asked, progress, fills
<1>12. ASSUME NEW w \in Worker, CreateFile(w) PROVE CacheIsCurrent'
  BY <1>12, <1>a DEF CreateFile, To, CacheIsCurrent, NoFile, Empty, Mixed,
     asked, progress, fills
<1>13. ASSUME NEW w \in Worker, WriteFile(w) PROVE CacheIsCurrent'
  <2>1. acked' = acked /\ left' = left /\ body[w] \in Nat
    BY <1>13, <1>a DEF WriteFile
  <2>2. CASE file' \in {file, Mixed} /\ behind' = behind
    BY <2>1, <2>2 DEF CacheIsCurrent, Mixed
  <2>3. CASE file' \in {body[w], Mixed} /\ behind' = (body[w] < acked)
    <3>1. CASE body[w] < acked
      <4>1. behind'
        BY <2>3, <3>1, Zenon
      <4> QED
        BY <4>1 DEF CacheIsCurrent
    <3>2. CASE ~ (body[w] < acked)
      BY <2>1, <2>3, <3>2 DEF CacheIsCurrent, Mixed
    <3> QED
      BY <3>1, <3>2
  <2>4. Over(file, body[w]) \subseteq {body[w], Mixed}
    BY DEF Over
  <2>5. \/ UNCHANGED <<file, behind>>
        \/ file' \in Over(file, body[w]) /\ behind' = (body[w] < acked)
        \/ file' \in {file, Mixed} /\ UNCHANGED behind
    BY <1>13, Zenon DEF WriteFile
  <2> QED
    BY <2>2, <2>3, <2>4, <2>5, Zenon
<1>14. ASSUME NEW w \in Worker, Use(w) PROVE CacheIsCurrent'
  BY <1>14, <1>a DEF Use, Returns, Forget, To, CacheIsCurrent, NoFile,
     Empty, Mixed, asked, progress, fills
<1>15. ASSUME NEW w \in Worker, Local(w) PROVE CacheIsCurrent'
  BY <1>15, <1>a DEF Local, Returns, Forget, To, CacheIsCurrent, NoFile,
     Empty, Mixed, asked, progress, fills
<1>16. ASSUME NEW w \in Worker, Deadline(w) PROVE CacheIsCurrent'
  BY <1>16, <1>a DEF Deadline, CacheIsCurrent, NoFile, Empty, Mixed, asked,
     progress, fills
<1>17. ASSUME NEW w \in Worker, Crash(w) PROVE CacheIsCurrent'
  BY <1>17, <1>a DEF Crash, Forget, To, CacheIsCurrent, NoFile, Empty,
     Mixed, asked, progress, fills
<1>18. ASSUME NEW w \in Worker, ReadBody(w) PROVE CacheIsCurrent'
  BY <1>18, <1>a DEF ReadBody, Whole, FallBack, Returns, Forget, To, CacheIsCurrent,
     NoFile, Empty, Mixed, asked, progress, fills
<1>19. CASE UNCHANGED vars
  BY <1>19 DEF vars, CacheIsCurrent, NoFile, Empty, Mixed, asked, progress,
     fills
<1> QED
  BY <1>1, <1>2, <1>3, <1>4, <1>5, <1>6, <1>7, <1>8, <1>9, <1>10, <1>11,
     <1>12, <1>13, <1>14, <1>15, <1>16, <1>17, <1>18, <1>19 DEF Next, Step

-----------------------------------------------------------------------------

(* Requests keeps its types.                                               *)
THEOREM TypeCorrect == Spec => []TypeOK
<1>1. Init => TypeOK
  <2> SUFFICES ASSUME Init PROVE TypeOK
    OBVIOUS
  <2>1. /\ pc \in [Worker -> Label] /\ request \in [Worker -> RequestSet \cup {NoRequest}]
        /\ elsewhere \in [Worker -> BOOLEAN] /\ late \in [Worker -> BOOLEAN]
        /\ linked \in [Worker -> BOOLEAN] /\ behind \in BOOLEAN /\ left \in BOOLEAN
    BY DEF Init, Label
  <2>2. /\ attempt \in [Worker -> 0 .. MaxRetries] /\ executed \in [Worker -> Nat]
        /\ body \in [Worker -> {Mixed, Empty} \cup 0 .. MaxVersion]
        /\ begun \in 0 .. MaxCommands /\ version \in 0 .. MaxVersion
        /\ file \in {NoFile, Mixed, Empty} \cup 0 .. MaxVersion /\ acked \in 0 .. version
    BY BoundsAssumption DEF Init
  <2>3. \A w \in Worker :
          pc[w] \in {"answer", "body", "invalidate", "clear"} \cup Filling => body[w] \in 0 .. version
    BY DEF Init, Filling
  <2> QED
    BY <2>1, <2>2, <2>3 DEF TypeOK
<1> QED
  BY <1>1, TypeStep, PTL DEF Spec

(* The KVM executes a command's mutation once, unless it is one that may   *)
(* be repeated: Client.doInternal never sends again what it is not sure    *)
(* was left unexecuted (client.go:1106).                                   *)
THEOREM AlwaysWrittenOnce == Spec => []WrittenOnce
<1>1. Init => Once
  BY DEF Init, Once
<1>2. TypeOK /\ Once => WrittenOnce
  BY DEF TypeOK, Once, WrittenOnce, Repeatable
<1> QED
  BY <1>1, <1>2, OnceStep, TypeCorrect, PTL DEF Spec

(* No answer older than an acknowledged mutation is in the cache, but for  *)
(* a GET that was answered before the mutation and filled the cache after  *)
(* it, and for a removal that failed (client.go:734).                      *)
THEOREM CacheAlwaysCurrent == Spec => []CacheIsCurrent
<1>1. Init => CacheIsCurrent
  BY DEF Init, CacheIsCurrent, NoFile
<1>2. TypeOK /\ CacheIsCurrent /\ [Next]_vars => CacheIsCurrent'
  BY CacheStep
<1> QED
  BY <1>1, <1>2, TypeCorrect, PTL DEF Spec
=============================================================================
