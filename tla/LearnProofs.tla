----------------------------- MODULE LearnProofs -----------------------------
(***************************************************************************)
(* What the package internal/learn satisfies.                              *)
(*                                                                         *)
(* Learnings (teach, recall and patterns): for every set of questions,     *)
(* words, resources, templates and lookups, and any number of processes    *)
(* and commands.                                                           *)
(*                                                                         *)
(* FlagDerivation (the journal and the derivation of flag corrections):    *)
(* for any number of invocations at once, in any number of sessions, for   *)
(* every window, length of a day and limit of the journal, and for every   *)
(* kind of trouble.  What the journal owes only while one process works on *)
(* it is shown as far as the first moment two did.                         *)
(***************************************************************************)
EXTENDS Learnings, FlagDerivation, FiniteSetTheorems, WellFoundedInduction, TLAPS

-----------------------------------------------------------------------------
(* Teach, recall and patterns.                                             *)

(* The operators. *)

(* A finite set that is not empty is like itself (Jaccard).                *)
LEMMA LikeItself ==
  ASSUME NEW A, IsFiniteSet(A), A # {}
  PROVE  AtLeast(A, A, 6) /\ AtLeast(A, A, 3)
<1>1. Cardinality(A) \in Nat
  BY FS_CardinalityType
<1>2. A \cap A = A /\ A \cup A = A
  OBVIOUS
<1>3. 10 * Cardinality(A) >= 6 * Cardinality(A) /\ 10 * Cardinality(A) >= 3 * Cardinality(A)
  BY <1>1
<1> QED
  BY <1>2, <1>3 DEF AtLeast

(* What a question is cut into are words, finitely many of the reader's.   *)
LEMMA QuestionWords ==
  ASSUME NEW q \in Question, NEW aliases
  PROVE  /\ Entities(q, aliases) \subseteq Words[q]
         /\ Entities(q, aliases) \subseteq DOMAIN Split
         /\ Pattern(q) \subseteq DOMAIN Split
         /\ IsFiniteSet(Tokens(q)) /\ IsFiniteSet(Entities(q, aliases))
<1>1. Entities(q, aliases) \subseteq Words[q]
  BY QuestionAssumption DEF Entities, Named
<1>2. Tokens(q) \subseteq Words[q]
  BY DEF Tokens
<1>3. Pattern(q) \subseteq DOMAIN Split
  BY QuestionAssumption DEF Pattern
<1>4. IsFiniteSet(Words[q]) /\ Words[q] \subseteq DOMAIN Split
  BY QuestionAssumption
<1>5. IsFiniteSet(Tokens(q)) /\ IsFiniteSet(Entities(q, aliases))
  BY <1>1, <1>2, <1>4, FS_Subset
<1> QED
  BY <1>1, <1>3, <1>4, <1>5

(* The rows of a shape, as Extract groups them.                            *)
Usable(R, s) == {r \in R : r.ents # {} /\ Shape(r) = s}

(* A group is the usable rows of one shape.                                *)
LEMMA GroupsAre ==
  ASSUME NEW R
  PROVE  /\ \A g \in Groups(R) : \E s : s # {} /\ g = Usable(R, s) /\ g # {}
         /\ \A s : s # {} /\ Usable(R, s) # {} => Usable(R, s) \in Groups(R)
<1> DEFINE usable == {r \in R : r.ents # {} /\ Shape(r) # {}}
<1>1. Groups(R) = {{r \in usable : Shape(r) = s} : s \in {Shape(r) : r \in usable}}
  BY DEF Groups
<1>2. \A s : s # {} => {r \in usable : Shape(r) = s} = Usable(R, s)
  BY DEF Usable
<1>3. ASSUME NEW g \in Groups(R) PROVE \E s : s # {} /\ g = Usable(R, s) /\ g # {}
  <2>1. PICK s \in {Shape(r) : r \in usable} : g = {r \in usable : Shape(r) = s}
    BY <1>1
  <2>2. PICK r \in usable : s = Shape(r)
    BY <2>1
  <2> QED
    BY <1>2, <2>1, <2>2
<1>4. ASSUME NEW s, s # {}, Usable(R, s) # {} PROVE Usable(R, s) \in Groups(R)
  <2>1. PICK r : r \in Usable(R, s)
    BY <1>4
  <2>2. r \in usable /\ Shape(r) = s
    BY <1>4, <2>1 DEF Usable
  <2> QED
    BY <1>1, <1>2, <1>4, <2>2
<1> QED
  BY <1>3, <1>4

(* The pattern a group leads to, if it leads to one.                       *)
Leads(g) == Cardinality(g) >= 2 /\ OneEntity(g) /\ \E t \in Template : Binds(t, g)
Found(g, s) == [shape |-> s, template |-> CHOOSE t \in Template : Binds(t, g)]

(* No rows lead to none.                                                   *)
LEMMA NothingLeads == ~Leads({})
BY FS_EmptySet DEF Leads

(* Extract finds the pattern of every group that leads to one.             *)
LEMMA InferredAre ==
  ASSUME NEW R
  PROVE  /\ \A s : s # {} /\ Leads(Usable(R, s)) => Found(Usable(R, s), s) \in Inferred(R)
         /\ \A x \in Inferred(R) : \E s : \E g \in SUBSET R :
              x = Found(g, s) /\ (\E t \in Template : Binds(t, g)) /\ \E r \in R : s = Shape(r)
<1> DEFINE led == {h \in Groups(R) :
                     Cardinality(h) >= 2 /\ OneEntity(h) /\ \E t \in Template : Binds(t, h)}
           made(g) == [shape |-> Shape(CHOOSE r \in g : TRUE),
                       template |-> CHOOSE t \in Template : Binds(t, g)]
<1>1. Inferred(R) = {made(g) : g \in led}
  BY DEF Inferred
<1>2. ASSUME NEW s, s # {}, Usable(R, s) # {} PROVE Shape(CHOOSE r \in Usable(R, s) : TRUE) = s
  BY <1>2 DEF Usable
<1>3. ASSUME NEW s, s # {}, Leads(Usable(R, s)) PROVE Found(Usable(R, s), s) \in Inferred(R)
  <2>1. Usable(R, s) # {}
    BY <1>3, NothingLeads
  <2>2. Usable(R, s) \in led
    BY <1>3, <2>1, GroupsAre DEF Leads
  <2>3. made(Usable(R, s)) = Found(Usable(R, s), s)
    BY <1>2, <1>3, <2>1 DEF Found
  <2> QED
    BY <1>1, <2>2, <2>3
<1>4. ASSUME NEW x \in Inferred(R)
      PROVE  \E s : \E g \in SUBSET R :
               x = Found(g, s) /\ (\E t \in Template : Binds(t, g)) /\ \E r \in R : s = Shape(r)
  <2>1. PICK g \in led : x = made(g)
    BY <1>1
  <2>2. PICK s : s # {} /\ g = Usable(R, s) /\ g # {}
    BY <2>1, GroupsAre
  <2>3. x = Found(g, s)
    BY <1>2, <2>1, <2>2 DEF Found
  <2>4. g \in SUBSET R /\ \E r \in R : s = Shape(r)
    BY <2>2 DEF Usable
  <2> QED
    BY <2>1, <2>3, <2>4
<1> QED
  BY <1>3, <1>4

-----------------------------------------------------------------------------
(* Types. *)

(* A row is what a teach made of its question.                             *)
Origin == \A x \in rows : x.words = Pattern(x.by) /\ x.ents = Entities(x.by, x.under)

(* So is the task of a teach that still has rows to record.                *)
Drafted ==
  \A p \in Process : pc[p] = "record" =>
    task[p].ents = Entities(task[p].by, task[p].under)

Typed == TypeOK /\ Origin /\ Drafted

(* What a process that is not in a teach has to do.                        *)
LEMMA NoTaskType == NoTask \in Task
BY QuestionAssumption DEF NoTask, Task

(* The patterns that rows lead to.                                         *)
LEMMA InferredTypes ==
  ASSUME NEW R \in SUBSET Row PROVE Inferred(R) \subseteq Shaped
<1> SUFFICES ASSUME NEW x \in Inferred(R) PROVE x \in Shaped
  OBVIOUS
<1>1. \E s : \E g \in SUBSET R :
        x = Found(g, s) /\ (\E t \in Template : Binds(t, g)) /\ \E r \in R : s = Shape(r)
  BY InferredAre
<1>2. PICK s : \E g \in SUBSET R :
        x = Found(g, s) /\ (\E t \in Template : Binds(t, g)) /\ \E r \in R : s = Shape(r)
  BY <1>1
<1>3. PICK g \in SUBSET R :
        x = Found(g, s) /\ (\E t \in Template : Binds(t, g)) /\ \E r \in R : s = Shape(r)
  BY <1>2
<1>4. (CHOOSE t \in Template : Binds(t, g)) \in Template
  BY <1>3
<1>5. s \in SUBSET DOMAIN Split
  BY <1>3 DEF Shape, Row
<1> QED
  BY <1>3, <1>4, <1>5 DEF Found, Shaped

(* The end of a teach.                                                     *)
LEMMA EndTypes ==
  ASSUME Typed, NEW p \in Process, End(p)
  PROVE  /\ pc' \in [Process -> {"idle", "record", "extract", "save"}]
         /\ task' \in [Process -> Task]
         /\ found' \in [Process -> SUBSET Shaped]
         /\ read' \in [Process -> SUBSET Row]
         /\ \A q \in Process : pc'[q] = "record" => pc[q] = "record" /\ task'[q] = task[q]
BY NoTaskType DEF End, To, Typed, TypeOK

(* A row that is recorded.                                                 *)
LEMMA UpsertTypes ==
  ASSUME Typed, NEW p \in Process, UpsertLearning(p)
  PROVE  Typed'
<1>1. PICK r \in task[p].todo :
        LET words == Pattern(task[p].by)
            row == [words |-> words, ents |-> task[p].ents, res |-> r,
                    by |-> task[p].by, under |-> task[p].under]
            old == {x \in rows : x.words = words /\ x.res = r}
            new == IF old = {} THEN {row} ELSE {}
        IN /\ rows' = rows \cup new
           /\ \E x \in old \cup new : newer' = Observed(x, rows)
           /\ fresh' = fresh \cup new
           /\ task' = [task EXCEPT ![p].todo = @ \ {r}]
           /\ To(p, IF task[p].todo = {r} THEN "extract" ELSE "record")
  BY DEF UpsertLearning
<1> DEFINE words == Pattern(task[p].by)
           row == [words |-> words, ents |-> task[p].ents, res |-> r,
                   by |-> task[p].by, under |-> task[p].under]
           old == {x \in rows : x.words = words /\ x.res = r}
           new == IF old = {} THEN {row} ELSE {}
<1>2. pc[p] = "record" /\ UNCHANGED <<patterns, lookups, found, read, passed, removed, commands>>
  BY DEF UpsertLearning
<1>3. task[p] \in Task
  BY DEF Typed, TypeOK
<1>4. row \in Row /\ row.words = Pattern(row.by) /\ row.ents = Entities(row.by, row.under)
  <2>1. words \in SUBSET DOMAIN Split
    BY <1>3, QuestionWords DEF Task
  <2>2. task[p].ents = Entities(task[p].by, task[p].under)
    BY <1>2 DEF Typed, Drafted
  <2> QED
    BY <1>3, <2>1, <2>2 DEF Task, Row
<1>5. \A x \in new : /\ x = row
                     /\ \A y \in rows : ~(y.words = row.words /\ y.res = row.res)
  OBVIOUS
<1>6. rows' = rows \cup new /\ fresh' = fresh \cup new
  BY <1>1
<1>9. /\ old \subseteq rows
      /\ \E x \in old \cup new : newer' = Observed(x, rows)
  BY <1>1
<1> HIDE DEF row, new, words, old
<1>10. newer' \subseteq rows' \X rows'
  <2>1. PICK x \in old \cup new : newer' = Observed(x, rows)
    BY <1>9
  <2>2. newer \subseteq rows \X rows
    BY DEF Typed, TypeOK
  <2>3. x \in rows' /\ rows \subseteq rows'
    BY <1>6, <1>9
  <2> QED
    BY <2>1, <2>2, <2>3 DEF Observed
<1>7. /\ rows' \subseteq Row /\ fresh' \subseteq rows' /\ passed' \subseteq rows'
      /\ \A x, y \in rows' : x.words = y.words /\ x.res = y.res => x = y
      /\ Origin'
  BY <1>2, <1>4, <1>5, <1>6 DEF Typed, TypeOK, Origin, Pattern, Entities, Named, Resolve
<1>8. /\ task' \in [Process -> Task] /\ pc' \in [Process -> {"idle", "record", "extract", "save"}]
      /\ Drafted'
  <2>1. task' = [task EXCEPT ![p].todo = @ \ {r}]
        /\ To(p, IF task[p].todo = {r} THEN "extract" ELSE "record")
    BY <1>1
  <2>2. pc' \in [Process -> {"idle", "record", "extract", "save"}]
        /\ \A q \in Process : pc'[q] = "record" => pc[q] = "record"
    BY <1>2, <2>1 DEF To, Typed, TypeOK
  <2>3. task' \in [Process -> Task]
        /\ \A q \in Process : /\ task'[q].ents = task[q].ents /\ task'[q].by = task[q].by
                              /\ task'[q].under = task[q].under
    BY <2>1, <1>3 DEF Typed, TypeOK, Task
  <2> QED
    BY <2>2, <2>3 DEF Typed, Drafted, Entities, Named, Resolve
<1> QED
  BY <1>2, <1>7, <1>8, <1>10 DEF Typed, TypeOK

(* Every step keeps the types, and makes of a question what it makes of    *)
(* it alone.                                                               *)
LEMMA TypedStep == Typed /\ [Next]_vars => Typed'
<1> SUFFICES ASSUME Typed, [Next]_vars PROVE Typed'
  OBVIOUS
<1>1. ASSUME NEW p \in Process, Teach(p) PROVE Typed'
  <2>1. PICK q \in Question, R \in SUBSET Resource :
          task' = [task EXCEPT ![p] = [by |-> q, ents |-> Entities(q, lookups),
                                       under |-> lookups, todo |-> R]]
    BY <1>1, QuestionAssumption DEF Teach
  <2> DEFINE new == [by |-> q, ents |-> Entities(q, lookups), under |-> lookups, todo |-> R]
  <2>2. new \in Task
    BY <2>1, QuestionWords DEF Task, Typed, TypeOK
  <2>3. new.ents = Entities(new.by, new.under)
    OBVIOUS
  <2> HIDE DEF new
  <2>4. task' = [task EXCEPT ![p] = new]
    BY <2>1 DEF new
  <2>5. UNCHANGED <<rows, newer, patterns, lookups, found, read, fresh, passed, removed>>
        /\ commands' = commands + 1 /\ pc' = [pc EXCEPT ![p] = "record"]
    BY <1>1 DEF Teach, Counted, To, store, history
  <2>6. TypeOK'
    BY <2>2, <2>4, <2>5 DEF Typed, TypeOK
  <2>7. Drafted'
    BY <2>3, <2>4, <2>5 DEF Typed, TypeOK, Drafted
  <2> QED
    BY <2>5, <2>6, <2>7 DEF Typed, Origin
<1>2. ASSUME NEW p \in Process, UpsertLearning(p) PROVE Typed'
  BY <1>2, UpsertTypes
<1>3. ASSUME NEW p \in Process, Extract(p) PROVE Typed'
  <2>0. Latest \in SUBSET rows
    BY DEF Latest
  <2>1. Inferred(Latest) \in SUBSET Shaped
    BY <2>0, InferredTypes DEF Typed, TypeOK
  <2> QED
    BY <1>3, <2>0, <2>1 DEF Extract, To, store, Typed, TypeOK, Origin, Drafted
<1>4. ASSUME NEW p \in Process, UpsertPattern(p) PROVE Typed'
  BY <1>4 DEF UpsertPattern, history, Typed, TypeOK, Origin, Drafted
<1>5. ASSUME NEW p \in Process, SkipPattern(p) PROVE Typed'
  BY <1>5 DEF SkipPattern, store, history, Typed, TypeOK, Origin, Drafted
<1>6. ASSUME NEW p \in Process, EndTeach(p) PROVE Typed'
  BY <1>6, EndTypes DEF EndTeach, store, Typed, TypeOK, Origin, Drafted
<1>7. ASSUME NEW p \in Process, Fail(p) PROVE Typed'
  BY <1>7, EndTypes DEF Fail, store, history, Typed, TypeOK, Origin, Drafted
<1>8. ASSUME NEW q \in Question, NEW R \in SUBSET Resource, Forget(q, R) PROVE Typed'
  <2> DEFINE gone == {x \in rows : x.words = Pattern(q) /\ x.res \in R}
  <2>1. /\ rows' = rows \ gone /\ fresh' = fresh \ gone /\ passed' = passed \ gone
        /\ newer' = {y \in newer : y[1] \notin gone /\ y[2] \notin gone}
        /\ removed' = removed \cup {Shape(x) : x \in gone}
        /\ commands' = commands + 1
        /\ UNCHANGED <<patterns, lookups, pc, task, found, read>>
    BY <1>8 DEF Forget, Counted
  <2>2. {Shape(x) : x \in gone} \subseteq SUBSET DOMAIN Split
    BY DEF Typed, TypeOK, Row, Shape
  <2> HIDE DEF gone
  <2> QED
    BY <2>1, <2>2 DEF Typed, TypeOK, Origin, Drafted
<1>9. ASSUME NEW a \in Alias, TeachLookup(a) PROVE Typed'
  BY <1>9 DEF TeachLookup, Counted, history, Typed, TypeOK, Origin, Drafted
<1>10. ASSUME NEW x \in TaughtPattern, TeachPattern(x) PROVE Typed'
  BY <1>10, PatternAssumption DEF TeachPattern, Counted, history, Typed, TypeOK, Origin, Drafted
<1>11. CASE UNCHANGED vars
  BY <1>11 DEF vars, store, history, Typed, TypeOK, Origin, Drafted
<1> QED
  BY <1>1, <1>2, <1>3, <1>4, <1>5, <1>6, <1>7, <1>8, <1>9, <1>10, <1>11 DEF Next

(* The types hold in every state.                                          *)
LEMMA AlwaysTyped == Spec => []Typed
<1>1. Init => Typed
  BY NoTaskType DEF Init, Typed, TypeOK, Origin, Drafted
<1> QED
  BY <1>1, TypedStep, PTL DEF Spec

-----------------------------------------------------------------------------
(* What was taught is found again. *)

(* Whoever taught a question written as this one is, what recall takes for *)
(* the entities of its row are the question's own.                         *)
LEMMA SameEntities ==
  ASSUME Typed, NEW row \in rows, NEW q \in Question,
         Pattern(q) = row.words, Plain(q), SeenAlike(q, row)
  PROVE  /\ row.words = Words[q]
         /\ KnownOf(row) = Entities(q, lookups)
         /\ Rest(row) = Tokens(q)
<1>1. row.words = Words[q]
  <2>1. \A w \in Words[q] : Split[w] = {w}
    BY DEF Plain
  <2>2. \A x : x \in Pattern(q) <=> \E w \in Words[q] : x \in Split[w]
    BY DEF Pattern
  <2>3. \A x : x \in Pattern(q) <=> x \in Words[q]
    BY <2>1, <2>2
  <2> QED
    BY <2>3
<1>2. row.ents = Entities(row.by, row.under)
  BY DEF Typed, Origin
<1>3. KnownOf(row) = Entities(q, lookups)
  <2>1. CASE row.ents # {}
    BY <1>2, <2>1 DEF KnownOf, SeenAlike
  <2>2. CASE row.ents = {}
    <3>1. Capital[q] = {}
      BY <1>2, <2>2 DEF SeenAlike, Entities
    <3> QED
      BY <1>1, <2>2, <3>1 DEF KnownOf, Entities
  <2> QED
    BY <2>1, <2>2
<1> QED
  BY <1>1, <1>3 DEF Rest, Tokens

(* The best of the hits are all of them, or as many as an answer holds.    *)
LEMMA BestAre ==
  ASSUME NEW H, NEW K \in Best(H)
  PROVE  K = H \/ (Crowded(H) /\ Full(K))
BY DEF Best, Full

(* An answer to a question is the rows and what the patterns add, or full. *)
LEMMA AnswerIs ==
  ASSUME NEW q, NEW S, NEW answer \in Answers(q, S), ~Full(answer)
  PROVE  \E h \in PatternHits(q, S) :
           /\ \A row \in rows : Listed(q, row, S) => \E hit \in answer : hit.res = row.res
           /\ \A x \in DOMAIN h : \E hit \in answer : hit.res = h[x]
<1> DEFINE direct == {row \in rows : Listed(q, row, S)}
           known == {row.res : row \in direct}
           Hits(h) == {[res |-> row.res, of |-> {row}] : row \in direct}
                        \cup {[res |-> r, of |-> {}] : r \in {h[x] : x \in DOMAIN h} \ known}
<1>1. PICK h \in PatternHits(q, S) : answer \in Best(Hits(h))
  BY DEF Answers
<1>2. answer = Hits(h)
  BY <1>1, BestAre
<1>3. ASSUME NEW row \in direct PROVE \E hit \in answer : hit.res = row.res
  <2>1. [res |-> row.res, of |-> {row}] \in answer
    BY <1>2
  <2> QED
    BY <2>1
<1>4. ASSUME NEW x \in DOMAIN h PROVE \E hit \in answer : hit.res = h[x]
  <2>1. CASE h[x] \in known
    BY <1>3, <2>1
  <2>2. CASE h[x] \notin known
    <3>1. [res |-> h[x], of |-> {}] \in answer
      BY <1>2, <2>2
    <3> QED
      BY <3>1
  <2> QED
    BY <2>1, <2>2
<1> QED
  BY <1>3, <1>4

(* What recall takes for the entities of its row are its own: the row is   *)
(* a mismatch for it only if the store knows its resource by another name. *)
LEMMA OwnVerdict ==
  ASSUME NEW row, NEW q, NEW S, KnownOf(row) = Entities(q, lookups), ~Disowned(q, row.res, S)
  PROVE  Verdict(q, row, row.res \in S) # "mismatch"
<1> DEFINE asked == Entities(q, lookups)
           stored == row.res \in S
<1>1. CASE ~stored
  <2>1. Evidence(row, stored) = asked
    BY <1>1 DEF Evidence
  <2>2. \A u \in asked : SameName(u, u)
    BY DEF SameName
  <2>3. Classify(asked, asked) # "mismatch"
    BY <2>2 DEF Classify
  <2> QED
    BY <2>1, <2>3 DEF Verdict
<1>2. CASE stored
  <2>1. Evidence(row, stored) = Title[row.res]
    BY <1>2 DEF Evidence
  <2>2. CASE asked = {} \/ Title[row.res] = {}
    BY <2>1, <2>2 DEF Verdict, Classify
  <2>3. CASE ~(asked = {} \/ Title[row.res] = {})
    <3>1. PICK e \in asked : Resolve(e, lookups) # {} \/ \E x \in Title[row.res] : SameName(e, x)
      BY <1>2, <2>3 DEF Disowned
    <3>2. CASE Resolve(e, lookups) # {}
      <4>1. Overlap(q, row)
        BY <3>2 DEF Overlap, ResolveSet
      <4> QED
        BY <4>1 DEF Verdict
    <3>3. CASE \E x \in Title[row.res] : SameName(e, x)
      <4>1. Classify(asked, Title[row.res]) = "exact"
        BY <2>3, <3>3 DEF Classify
      <4> QED
        BY <2>1, <4>1 DEF Verdict
    <3> QED
      BY <3>1, <3>2, <3>3
  <2> QED
    BY <2>2, <2>3
<1> QED
  BY <1>1, <1>2

(* teach and recall cut a question with two tokenizers and promote its     *)
(* words from two states of the lookups (teach.go:224, recall.go:302): a   *)
(* question is still answered with the resource taught for it, unless the  *)
(* store knows that by another name or the answer has no room.             *)
THEOREM TaughtIsAlwaysRecalled == Spec => []TaughtIsRecalled
<1>1. ASSUME Typed, NEW row \in rows, NEW q \in Question, NEW S \in SUBSET Resource,
             Pattern(q) = row.words, Plain(q), SeenAlike(q, row), ~Disowned(q, row.res, S)
      PROVE  Listed(q, row, S)
  <2>1. KnownOf(row) = Entities(q, lookups) /\ Rest(row) = Tokens(q)
    BY <1>1, SameEntities
  <2>2. IsFiniteSet(Tokens(q)) /\ IsFiniteSet(Entities(q, lookups))
    BY QuestionWords
  <2>3. CASE Tokens(q) # {}
    <3>1. Alike(q, row)
      BY <2>1, <2>2, <2>3, LikeItself DEF Alike
    <3> QED
      BY <1>1, <2>1, <3>1, OwnVerdict DEF Listed, Scored
  <2>4. CASE Tokens(q) = {}
    <3>1. Entities(q, lookups) # {}
      BY <1>1, <2>4 DEF Plain, Tokens
    <3>2. \A pieces : Entities(q, lookups) \cup (Tokens(q) \ pieces) = Entities(q, lookups)
      BY <2>4
    <3>3. AtLeast(Entities(q, lookups), Entities(q, lookups), 6)
      BY <2>2, <3>1, LikeItself
    <3>4. IdentifierOnly(q, row)
      BY <2>1, <2>4, <3>1, <3>2, <3>3 DEF IdentifierOnly
    <3>5. Scored(q, row)
      BY <3>4 DEF Scored, Alike
    <3> QED
      BY <1>1, <2>1, <3>5, OwnVerdict DEF Listed
  <2> QED
    BY <2>3, <2>4
<1>2. Typed => TaughtIsRecalled
  <2> SUFFICES ASSUME Typed, NEW row \in rows, NEW q \in Question, NEW S \in SUBSET Resource,
                      Pattern(q) = row.words, Plain(q), SeenAlike(q, row),
                      ~Disowned(q, row.res, S), NEW answer \in Answers(q, S)
               PROVE  Full(answer) \/ \E hit \in answer : hit.res = row.res
    BY DEF TaughtIsRecalled
  <2> QED
    BY <1>1, AnswerIs
<1> QED
  BY <1>2, AlwaysTyped, PTL

(* Learnings keeps its types: there is one row of a question's words and a *)
(* resource.                                                               *)
THEOREM TypeCorrect == Spec => []TypeOK
<1>1. Typed => TypeOK
  BY DEF Typed
<1> QED
  BY <1>1, AlwaysTyped, PTL

-----------------------------------------------------------------------------
(* What can be generalized is. *)

(* The shapes of which no row was forgotten, or left out by an Extract.    *)
Whole == {s \in SUBSET DOMAIN Split :
            s # {} /\ s \notin removed /\ Usable(rows, s) \cap passed = {}}

Nested(g, h) == g \subseteq h \/ h \subseteq g

(* What a teach has read of such a shape is still there, and the pattern   *)
(* it leads to is saved or will be, by this teach; of two teaches one has  *)
(* read what the other has.                                                *)
ReadBy(p) ==
  \A s \in Whole :
    /\ Usable(read[p], s) \subseteq Usable(rows, s)
    /\ Leads(Usable(read[p], s)) => Found(Usable(read[p], s), s) \in found[p] \cup patterns
    /\ \A q \in Process : Nested(Usable(read[p], s), Usable(read[q], s))

(* The rows of the shape that are not fresh were read together, by an      *)
(* Extract whose teach has saved what they lead to.                        *)
Covers(h, s) ==
  /\ h \subseteq Usable(rows, s)
  /\ Usable(rows, s) \ fresh \subseteq h
  /\ Leads(h) => Found(h, s) \in patterns
  /\ \A p \in Process : Nested(h, Usable(read[p], s))
Covered == \A s \in Whole : \E h : Covers(h, s)

Gathered == (\A p \in Process : ReadBy(p)) /\ Covered

(* A step that reads nothing and lets only the patterns grow.              *)
LEMMA GatheredQuiet ==
  ASSUME Gathered, read' = read, fresh' = fresh, rows' = rows, removed' = removed,
         passed' = passed,
         patterns \subseteq patterns',
         \A p \in Process : found[p] \cup patterns \subseteq found'[p] \cup patterns'
  PROVE  Gathered'
<1>1. Whole' = Whole
  BY DEF Whole, Usable, Shape
<1>2. ASSUME NEW p \in Process PROVE ReadBy(p)'
  BY <1>1 DEF Gathered, ReadBy
<1>3. ASSUME NEW s \in Whole' PROVE \E h : Covers(h, s)'
  <2>1. PICK h : Covers(h, s)
    BY <1>1 DEF Gathered, Covered
  <2>2. Covers(h, s)'
    BY <2>1 DEF Covers, Nested, Found, Leads, Usable, Shape, OneEntity, Binds
  <2> QED
    BY <2>2
<1> QED
  BY <1>2, <1>3 DEF Gathered, Covered

(* A row that is recorded is fresh.                                        *)
LEMMA GatheredUpsert ==
  ASSUME Gathered, NEW p \in Process, UpsertLearning(p)
  PROVE  Gathered'
<1>1. /\ read' = read /\ removed' = removed /\ patterns' = patterns /\ found' = found
      /\ passed' = passed /\ rows \subseteq rows' /\ fresh \subseteq fresh'
      /\ \E new : rows' = rows \cup new /\ fresh' = fresh \cup new
  BY DEF UpsertLearning
<1>3. \A s : /\ Usable(rows, s) \subseteq Usable(rows, s)'
             /\ (Usable(rows, s) \ fresh)' \subseteq Usable(rows, s) \ fresh
  BY <1>1 DEF Usable, Shape
<1>2. Whole' \subseteq Whole
  BY <1>1, <1>3 DEF Whole
<1>4. ASSUME NEW q \in Process PROVE ReadBy(q)'
  <2>1. ASSUME NEW s \in Whole
        PROVE  /\ Usable(read'[q], s) \subseteq Usable(rows', s)
               /\ Leads(Usable(read'[q], s)) => Found(Usable(read'[q], s), s) \in found'[q] \cup patterns'
               /\ \A r \in Process : Nested(Usable(read'[q], s), Usable(read'[r], s))
    BY <1>1, <1>3 DEF Gathered, ReadBy
  <2> QED
    BY <1>2, <2>1 DEF ReadBy
<1>5. ASSUME NEW s \in Whole' PROVE \E h : Covers(h, s)'
  <2>1. PICK h : Covers(h, s)
    BY <1>2 DEF Gathered, Covered
  <2>2. Covers(h, s)'
    BY <1>1, <1>3, <2>1 DEF Covers, Nested, Found, Leads, Usable, Shape, OneEntity, Binds
  <2> QED
    BY <2>2
<1> QED
  BY <1>4, <1>5 DEF Gathered, Covered

(* An Extract reads all there is of the shapes it does not pass over.      *)
LEMMA GatheredExtract ==
  ASSUME Typed, Gathered, NEW p \in Process, Extract(p)
  PROVE  Gathered'
<1>1. /\ UNCHANGED <<rows, patterns, fresh, removed>> /\ passed' = passed \cup (rows \ Latest)
      /\ read' [p] = Latest /\ found'[p] = Inferred(Latest)
      /\ \A q \in Process \ {p} : read'[q] = read[q] /\ found'[q] = found[q]
  BY DEF Extract, store, Typed, TypeOK
<1>2. \A s \in Whole' : s \in Whole /\ s # {} /\ Usable(Latest, s) = Usable(rows, s)
  BY <1>1 DEF Whole, Usable, Latest, Shape
<1>3. ASSUME NEW s \in Whole', NEW q \in Process
      PROVE  Usable(read'[q], s) \subseteq Usable(rows, s)
  BY <1>1, <1>2 DEF Gathered, ReadBy
<1>4. ASSUME NEW s \in Whole', NEW q \in Process
      PROVE  /\ Leads(Usable(read'[q], s)) => Found(Usable(read'[q], s), s) \in found'[q] \cup patterns
             /\ \A r \in Process : Nested(Usable(read'[q], s), Usable(read'[r], s))
  <2>1. CASE q = p
    <3>1. Leads(Usable(Latest, s)) => Found(Usable(Latest, s), s) \in Inferred(Latest)
      BY <1>2, InferredAre
    <3> QED
      BY <1>1, <1>2, <1>3, <2>1, <3>1 DEF Nested
  <2>2. CASE q # p
    <3>1. ASSUME NEW r \in Process PROVE Nested(Usable(read'[q], s), Usable(read'[r], s))
      <4>1. CASE r = p
        BY <1>1, <1>2, <1>3, <4>1 DEF Nested
      <4>2. CASE r # p
        BY <1>1, <1>2, <2>2, <4>2 DEF Gathered, ReadBy
      <4> QED
        BY <4>1, <4>2
    <3> QED
      BY <1>1, <1>2, <2>2, <3>1 DEF Gathered, ReadBy
  <2> QED
    BY <2>1, <2>2
<1>5. ASSUME NEW q \in Process PROVE ReadBy(q)'
  BY <1>1, <1>3, <1>4 DEF ReadBy
<1>6. ASSUME NEW s \in Whole' PROVE \E h : Covers(h, s)'
  <2>1. PICK h : Covers(h, s)
    BY <1>2 DEF Gathered, Covered
  <2>2. \A q \in Process : Nested(h, Usable(read'[q], s))
    <3> SUFFICES ASSUME NEW q \in Process PROVE Nested(h, Usable(read'[q], s))
      OBVIOUS
    <3>1. CASE q = p
      BY <1>1, <1>2, <2>1, <3>1 DEF Covers, Nested
    <3>2. CASE q # p
      BY <1>1, <2>1, <3>2 DEF Covers
    <3> QED
      BY <3>1, <3>2
  <2>3. Covers(h, s)'
    BY <1>1, <2>1, <2>2 DEF Covers, Nested, Found, Leads, Usable, Shape, OneEntity, Binds
  <2> QED
    BY <2>3
<1> QED
  BY <1>5, <1>6 DEF Gathered, Covered

(* A teach that ends, or gives up a pattern, has read nothing any more.    *)
(* With every pattern saved, what it has read is fresh no longer.          *)
LEMMA GatheredEnd ==
  ASSUME Typed, Gathered, NEW p \in Process,
         UNCHANGED <<rows, patterns, passed, removed>>,
         read' = [read EXCEPT ![p] = {}],
         \A q \in Process \ {p} : found'[q] = found[q],
         fresh' = fresh \/ (found[p] = {} /\ fresh' = fresh \ read[p])
  PROVE  Gathered'
<1>1. read'[p] = {} /\ \A q \in Process \ {p} : read'[q] = read[q]
  BY DEF Typed, TypeOK
<1>2. Whole' = Whole
  BY DEF Whole, Usable, Shape
<1>3. \A s : Usable({}, s) = {}
  BY DEF Usable
<1>4. ASSUME NEW s \in Whole, NEW q \in Process
      PROVE  /\ Usable(read'[q], s) \subseteq Usable(rows, s)
             /\ Leads(Usable(read'[q], s)) => Found(Usable(read'[q], s), s) \in found'[q] \cup patterns
             /\ \A r \in Process : Nested(Usable(read'[q], s), Usable(read'[r], s))
  <2>1. CASE q = p
    BY <1>1, <1>3, <2>1, NothingLeads DEF Nested
  <2>2. CASE q # p
    <3>1. ASSUME NEW r \in Process PROVE Nested(Usable(read'[q], s), Usable(read'[r], s))
      BY <1>1, <1>3, <2>2 DEF Gathered, ReadBy, Nested
    <3> QED
      BY <1>1, <2>2, <3>1 DEF Gathered, ReadBy
  <2> QED
    BY <2>1, <2>2
<1>5. ASSUME NEW q \in Process PROVE ReadBy(q)'
  BY <1>2, <1>4 DEF ReadBy
<1>6. ASSUME NEW s \in Whole' PROVE \E h : Covers(h, s)'
  <2>1. PICK h : Covers(h, s)
    BY <1>2 DEF Gathered, Covered
  <2>2. ASSUME NEW g, g \subseteq Usable(rows, s), Usable(rows, s) \ fresh' \subseteq g,
               Leads(g) => Found(g, s) \in patterns,
               \A q \in Process : Nested(g, Usable(read[q], s))
        PROVE  Covers(g, s)'
    <3>1. \A q \in Process : Nested(g, Usable(read'[q], s))
      BY <1>1, <1>3, <2>2 DEF Nested
    <3> QED
      BY <2>2, <3>1 DEF Covers, Nested, Found, Leads, Usable, Shape, OneEntity, Binds
  <2> DEFINE G == Usable(read[p], s)
  <2>3. CASE fresh' = fresh
    BY <2>1, <2>2, <2>3 DEF Covers
  <2>4. CASE found[p] = {} /\ fresh' = fresh \ read[p]
    <3>1. Usable(rows, s) \ fresh' \subseteq h \cup G
      BY <2>1, <2>4 DEF Covers, Usable
    <3>2. /\ G \subseteq Usable(rows, s)
          /\ Leads(G) => Found(G, s) \in patterns
          /\ \A q \in Process : Nested(G, Usable(read[q], s))
      BY <1>2, <2>4 DEF Gathered, ReadBy
    <3>3. Nested(h, G)
      BY <2>1 DEF Covers
    <3>4. CASE h \subseteq G
      <4> HIDE DEF G
      <4>1. PICK g : g = G
        OBVIOUS
      <4>2. Covers(g, s)'
        BY <2>2, <3>1, <3>2, <3>4, <4>1
      <4> QED
        BY <4>2
    <3>5. CASE G \subseteq h
      BY <2>1, <2>2, <3>1, <3>5 DEF Covers
    <3> QED
      BY <3>3, <3>4, <3>5 DEF Nested
  <2> QED
    BY <2>3, <2>4
<1> QED
  BY <1>5, <1>6 DEF Gathered, Covered

(* A forget leaves the rows of every other shape.                          *)
LEMMA GatheredForget ==
  ASSUME Gathered, NEW q \in Question, NEW R, Forget(q, R)
  PROVE  Gathered'
<1> DEFINE gone == {x \in rows : x.words = Pattern(q) /\ x.res \in R}
<1>1. /\ rows' = rows \ gone /\ fresh' = fresh \ gone /\ passed' = passed \ gone
      /\ removed' = removed \cup {Shape(x) : x \in gone}
      /\ UNCHANGED <<patterns, found, read>>
  BY DEF Forget
<1> HIDE DEF gone
<1>2. \A s \in Whole' : s \in Whole /\ \A x \in gone : Shape(x) # s
  BY <1>1 DEF Whole, Usable, Shape
<1>3. ASSUME NEW s \in Whole'
      PROVE  Usable(rows', s) = Usable(rows, s) /\ Usable(rows', s) \ fresh' = Usable(rows, s) \ fresh
  BY <1>1, <1>2 DEF Usable
<1>4. ASSUME NEW p \in Process PROVE ReadBy(p)'
  <2>1. ASSUME NEW s \in Whole'
        PROVE  /\ Usable(read'[p], s) \subseteq Usable(rows', s)
               /\ Leads(Usable(read'[p], s)) => Found(Usable(read'[p], s), s) \in found'[p] \cup patterns'
               /\ \A r \in Process : Nested(Usable(read'[p], s), Usable(read'[r], s))
    BY <1>1, <1>2, <1>3 DEF Gathered, ReadBy
  <2> QED
    BY <2>1 DEF ReadBy
<1>5. ASSUME NEW s \in Whole' PROVE \E h : Covers(h, s)'
  <2>1. PICK h : Covers(h, s)
    BY <1>2 DEF Gathered, Covered
  <2>2. /\ h \subseteq Usable(rows', s) /\ Usable(rows', s) \ fresh' \subseteq h
        /\ Leads(h) => Found(h, s) \in patterns'
        /\ \A r \in Process : Nested(h, Usable(read'[r], s))
    BY <1>1, <1>3, <2>1 DEF Covers
  <2>3. Covers(h, s)'
    BY <2>2 DEF Covers, Usable, Shape, Leads, Found, Nested, OneEntity, Binds
  <2> QED
    BY <2>3
<1> QED
  BY <1>4, <1>5 DEF Gathered, Covered

(* Every step.                                                             *)
LEMMA GatheredStep == Typed /\ Gathered /\ [Next]_vars => Gathered'
<1> SUFFICES ASSUME Typed, Gathered, [Next]_vars PROVE Gathered'
  OBVIOUS
<1>1. ASSUME NEW p \in Process, Teach(p) PROVE Gathered'
  BY <1>1, GatheredQuiet DEF Teach, store, history
<1>2. ASSUME NEW p \in Process, UpsertLearning(p) PROVE Gathered'
  BY <1>2, GatheredUpsert
<1>3. ASSUME NEW p \in Process, Extract(p) PROVE Gathered'
  BY <1>3, GatheredExtract
<1>4. ASSUME NEW p \in Process, UpsertPattern(p) PROVE Gathered'
  <2>1. PICK x \in found[p] : patterns' = patterns \cup {x} /\ found' = [found EXCEPT ![p] = @ \ {x}]
    BY <1>4 DEF UpsertPattern
  <2>2. \A q \in Process : found[q] \cup patterns \subseteq found'[q] \cup patterns'
    BY <2>1 DEF Typed, TypeOK
  <2> QED
    BY <1>4, <2>1, <2>2, GatheredQuiet DEF UpsertPattern, history
<1>5. ASSUME NEW p \in Process, SkipPattern(p) PROVE Gathered'
  <2>1. UNCHANGED <<rows, patterns, removed, fresh, passed>> /\ read' = [read EXCEPT ![p] = {}]
        /\ \A q \in Process \ {p} : found'[q] = found[q]
    BY <1>5 DEF SkipPattern, store, history, Typed, TypeOK
  <2> QED
    BY <2>1, GatheredEnd
<1>6. ASSUME NEW p \in Process, EndTeach(p) PROVE Gathered'
  <2>1. UNCHANGED <<rows, patterns, removed, passed>> /\ read' = [read EXCEPT ![p] = {}]
        /\ found[p] = {} /\ fresh' = fresh \ read[p]
        /\ \A q \in Process \ {p} : found'[q] = found[q]
    BY <1>6 DEF EndTeach, End, store, Typed, TypeOK
  <2> QED
    BY <2>1, GatheredEnd
<1>7. ASSUME NEW p \in Process, Fail(p) PROVE Gathered'
  <2>1. UNCHANGED <<rows, patterns, removed, fresh, passed>> /\ read' = [read EXCEPT ![p] = {}]
        /\ \A q \in Process \ {p} : found'[q] = found[q]
    BY <1>7 DEF Fail, End, store, history, Typed, TypeOK
  <2> QED
    BY <2>1, GatheredEnd
<1>8. ASSUME NEW q \in Question, NEW R, Forget(q, R) PROVE Gathered'
  BY <1>8, GatheredForget
<1>9. ASSUME NEW a \in Alias, TeachLookup(a) PROVE Gathered'
  BY <1>9, GatheredQuiet DEF TeachLookup, history
<1>10. ASSUME NEW x \in TaughtPattern, TeachPattern(x) PROVE Gathered'
  <2>1. /\ UNCHANGED <<rows, read, fresh, passed, removed, found>> /\ patterns \subseteq patterns'
    BY <1>10 DEF TeachPattern, history
  <2> QED
    BY <2>1, GatheredQuiet
<1>11. CASE UNCHANGED vars
  BY <1>11, GatheredQuiet DEF vars, store, history
<1> QED
  BY <1>1, <1>2, <1>3, <1>4, <1>5, <1>6, <1>7, <1>8, <1>9, <1>10, <1>11 DEF Next

(* The first state.                                                        *)
LEMMA GatheredInit == Init => Gathered
<1> SUFFICES ASSUME Init PROVE Gathered
  OBVIOUS
<1>1. rows = {} /\ \A p \in Process : read[p] = {}
  BY DEF Init
<1>2. \A s : Usable({}, s) = {}
  BY DEF Usable
<1>3. \A p \in Process : ReadBy(p)
  BY <1>1, <1>2, NothingLeads DEF ReadBy, Nested
<1>4. \A s : Covers({}, s)
  BY <1>1, <1>2, NothingLeads DEF Covers, Nested
<1> QED
  BY <1>3, <1>4 DEF Gathered, Covered

(* Teaches that run next to each other and infer each from what it reads   *)
(* (extract.go:69, teach.go:241) leave no rows from which a pattern could  *)
(* have been made without one, unless an Extract left one of them out of   *)
(* its window: the next question of their shape is answered for an entity  *)
(* nobody taught, as far as there is room.                                 *)
THEOREM AlwaysGeneralized == Spec => []Generalized
<1>1. ASSUME Typed, Gathered, NEW g \in Groups(rows),
             Leads(g), g \cap (fresh \cup passed) = {}, \A r \in g : Shape(r) \notin removed
      PROVE  \E t \in Template :
               /\ Binds(t, g)
               /\ \A r \in g : [shape |-> Shape(r), template |-> t] \in patterns
  <2>1. PICK s : s # {} /\ g = Usable(rows, s) /\ g # {}
    BY GroupsAre
  <2>2. \A r \in g : r \in rows /\ Shape(r) = s
    BY <2>1 DEF Usable
  <2>3. s \in Whole
    BY <1>1, <2>1, <2>2 DEF Whole, Typed, TypeOK, Row, Shape
  <2>4. PICK h : Covers(h, s)
    BY <1>1, <2>3 DEF Gathered, Covered
  <2>5. h = g
    BY <1>1, <2>1, <2>4 DEF Covers
  <2>6. Found(g, s) \in patterns
    BY <1>1, <2>4, <2>5 DEF Covers
  <2>7. \E t \in Template : Binds(t, g)
    BY <1>1 DEF Leads
  <2> QED
    BY <2>2, <2>6, <2>7 DEF Found
<1>2. ASSUME Typed, NEW x \in patterns, NEW q \in Question, NEW S, NEW answer \in Answers(q, S),
             Tokens(q) = x.shape, x.shape # {}, LeadsTo(x, q, S) # {},
             ~Full(answer), ~Crowded(Applied(q, S))
      PROVE  \E hit \in answer : hit.res \in LeadsTo(x, q, S)
  <2>1. x \in Applied(q, S)
    BY <1>2, QuestionWords, LikeItself DEF Applied
  <2>2. PICK h \in PatternHits(q, S) : \A y \in DOMAIN h : \E hit \in answer : hit.res = h[y]
    BY <1>2, AnswerIs
  <2>3. PICK K \in Best(Applied(q, S)) :
          h \in [K -> Resource] /\ \A y \in K : h[y] \in LeadsTo(y, q, S)
    BY DEF PatternHits
  <2>4. K = Applied(q, S)
    BY <1>2, <2>3, BestAre
  <2> QED
    BY <2>1, <2>2, <2>3, <2>4
<1>3. Typed /\ Gathered => Generalized
  <2> SUFFICES ASSUME Typed, Gathered, NEW g \in Groups(rows),
                      Leads(g), g \cap (fresh \cup passed) = {}, \A r \in g : Shape(r) \notin removed
               PROVE  \E t \in Template :
                        /\ Binds(t, g)
                        /\ \A q \in Question : \A r \in g : \A S \in SUBSET Resource :
                             LET x == [shape |-> Shape(r), template |-> t]
                             IN Tokens(q) = Shape(r) /\ LeadsTo(x, q, S) # {} =>
                                  \A answer \in Answers(q, S) :
                                    \/ \E hit \in answer : hit.res \in LeadsTo(x, q, S)
                                    \/ Full(answer) \/ Crowded(Applied(q, S))
    BY DEF Generalized, Leads
  <2>1. PICK t \in Template :
          Binds(t, g) /\ \A r \in g : [shape |-> Shape(r), template |-> t] \in patterns
    BY <1>1
  <2>2. \A r \in g : Shape(r) # {}
    BY GroupsAre DEF Usable
  <2>3. ASSUME NEW q \in Question, NEW r \in g, NEW S, NEW answer \in Answers(q, S),
               NEW x, x = [shape |-> Shape(r), template |-> t],
               Tokens(q) = Shape(r), LeadsTo(x, q, S) # {},
               ~Full(answer), ~Crowded(Applied(q, S))
        PROVE  \E hit \in answer : hit.res \in LeadsTo(x, q, S)
    <3>1. x \in patterns /\ x.shape = Shape(r)
      BY <2>1, <2>3
    <3> QED
      BY <1>2, <2>2, <2>3, <3>1
  <2> QED
    BY <2>1, <2>3
<1> QED
  BY <1>3, GatheredInit, GatheredStep, AlwaysTyped, PTL DEF Spec

-----------------------------------------------------------------------------
(* The journal and the derivation of flag corrections.                     *)

(* A set of naturals that is not empty has a least element. *)
LEMMA LeastNat ==
  ASSUME NEW T \in SUBSET Nat, T # {}
  PROVE  \E n \in T : \A m \in T : n <= m
<1> DEFINE R == {ss \in Nat \X Nat : ss[1] < ss[2]}
<1>1. IsWellFoundedOn(R, Nat)
  BY NatLessThanWellFounded DEF OpToRel
<1> HIDE DEF R
<1>2. PICK n \in T : \A m \in T : ~ (<<m, n>> \in R)
  BY <1>1, WFMin
<1>3. \A m \in T : ~ (m < n)
  BY <1>2 DEF R
<1> QED
  BY <1>3

(* The day of a later moment is no earlier.                                *)
LEMMA DaysInOrder ==
  /\ \A t \in Nat : Day(t) \in Nat
  /\ \A s, t \in Nat : s <= t => Day(s) <= Day(t)
  /\ \A t \in 0 .. MaxTime : Day(t) \in Days
<1>0. DayLength \in Nat \ {0} /\ MaxTime \in Nat
  BY BoundsAssumption
<1>1. \A t \in Nat : /\ t \div DayLength \in Nat
                     /\ DayLength * (t \div DayLength) <= t
                     /\ t < DayLength * ((t \div DayLength) + 1)
  BY <1>0
<1>2. ASSUME NEW s \in Nat, NEW t \in Nat, s <= t
      PROVE  s \div DayLength <= t \div DayLength
  <2> DEFINE a == s \div DayLength
             b == t \div DayLength
  <2>1. a \in Nat /\ b \in Nat /\ DayLength * a <= s /\ t < DayLength * (b + 1)
    BY <1>1
  <2> HIDE DEF a, b
  <2> SUFFICES ASSUME a >= b + 1 PROVE FALSE
    BY <2>1 DEF a, b
  <2>2. DayLength * a >= DayLength * (b + 1)
    BY <2>1, <1>0
  <2> QED
    BY <1>0, <1>2, <2>1, <2>2
<1> QED
  BY <1>0, <1>1, <1>2 DEF Day, Days

-----------------------------------------------------------------------------
(* What a journal holds. *)

(* Every segment is a sequence of lines, of which only the last is torn.   *)
Lines(j) ==
  /\ j \in [Days -> Seq(Line) \cup {NoFile}]
  /\ \A d \in Days : j[d] # NoFile =>
       \A l \in DOMAIN j[d] : j[d][l] = Torn => l = Len(j[d])

SegmentsIn(j) == {d \in Days : j[d] # NoFile}
TornIn(j, d) == j[d] # NoFile /\ j[d] # << >> /\ Last(j[d]) = Torn
Upto(j, d) == Len(j[d]) - IF TornIn(j, d) THEN 1 ELSE 0
PlacesIn(j) ==
  {x \in Place : x.day \in SegmentsIn(j) /\ x.line \in DOMAIN j[x.day]
                 /\ j[x.day][x.line] = x.entry}

(* A segment's complete lines are all of them, or all but a torn last one. *)
LEMMA UptoIs ==
  ASSUME NEW j, Lines(j), NEW d \in SegmentsIn(j)
  PROVE  /\ j[d] \in Seq(Line) /\ Len(j[d]) \in Nat /\ DOMAIN j[d] = 1 .. Len(j[d])
         /\ Upto(j, d) \in 0 .. Len(j[d])
         /\ \A l \in DOMAIN j[d] : j[d][l] # Torn => l <= Upto(j, d)
         /\ TornIn(j, d) => /\ j[d] # << >> /\ j[d][Len(j[d])] = Torn
                            /\ Upto(j, d) = Len(j[d]) - 1
         /\ ~ TornIn(j, d) => /\ \A l \in DOMAIN j[d] : j[d][l] # Torn
                              /\ Upto(j, d) = Len(j[d])
<1>1. d \in Days /\ j[d] # NoFile /\ j[d] \in Seq(Line)
  BY DEF Lines, SegmentsIn
<1>2. Len(j[d]) \in Nat /\ DOMAIN j[d] = 1 .. Len(j[d]) /\ (j[d] # << >> <=> Len(j[d]) > 0)
  BY <1>1
<1>3. \A l \in DOMAIN j[d] : j[d][l] = Torn => l = Len(j[d])
  BY <1>1 DEF Lines
<1>4. TornIn(j, d) <=> j[d] # << >> /\ j[d][Len(j[d])] = Torn
  BY <1>1 DEF TornIn, Last
<1>5. CASE TornIn(j, d)
  <2>1. Upto(j, d) = Len(j[d]) - 1
    BY <1>5 DEF Upto
  <2> QED
    BY <1>1, <1>2, <1>4, <1>5, <2>1
<1>6. CASE ~ TornIn(j, d)
  <2>1. Upto(j, d) = Len(j[d]) - 0
    BY <1>6 DEF Upto
  <2> QED
    BY <1>1, <1>2, <1>3, <1>4, <1>6, <2>1
<1> QED
  BY <1>5, <1>6

(* What is written is the entries on the lines.                            *)
LEMMA PlacesAre ==
  ASSUME NEW j, Lines(j)
  PROVE  UNION {{[day |-> d, line |-> l, entry |-> j[d][l]] :
                   l \in {l \in 1 .. Upto(j, d) : j[d][l] \notin {Torn, Junk}}} :
                d \in SegmentsIn(j)} = PlacesIn(j)
<1> DEFINE of(d) == {[day |-> d, line |-> l, entry |-> j[d][l]] :
                       l \in {l \in 1 .. Upto(j, d) : j[d][l] \notin {Torn, Junk}}}
<1>1. ASSUME NEW d \in SegmentsIn(j), NEW x \in of(d) PROVE x \in PlacesIn(j)
  <2>1. PICK l \in 1 .. Upto(j, d) :
          j[d][l] \notin {Torn, Junk} /\ x = [day |-> d, line |-> l, entry |-> j[d][l]]
    BY <1>1
  <2>2. l \in DOMAIN j[d] /\ l \in Nat \ {0} /\ j[d][l] \in Line
    BY UptoIs
  <2>3. j[d][l] \in Entry /\ d \in Days
    BY <2>1, <2>2 DEF Line, SegmentsIn
  <2> QED
    BY <2>1, <2>2, <2>3 DEF PlacesIn, Place
<1>2. ASSUME NEW x \in PlacesIn(j) PROVE x.day \in SegmentsIn(j) /\ x \in of(x.day)
  <2>1. x \in Place /\ x.day \in SegmentsIn(j) /\ x.line \in DOMAIN j[x.day]
        /\ j[x.day][x.line] = x.entry
    BY <1>2 DEF PlacesIn
  <2>2. x.entry \in Entry /\ x.entry \notin {Torn, Junk} /\ x.line \in Nat \ {0}
    BY <2>1, MarksAssumption DEF Place
  <2>3. x.line \in 1 .. Upto(j, x.day)
    BY <2>1, <2>2, UptoIs
  <2>4. x = [day |-> x.day, line |-> x.line, entry |-> j[x.day][x.line]]
    BY <2>1 DEF Place
  <2> QED
    BY <2>1, <2>2, <2>3, <2>4
<1> HIDE DEF of
<1>3. UNION {of(d) : d \in SegmentsIn(j)} = PlacesIn(j)
  BY <1>1, <1>2
<1> QED
  BY <1>3 DEF of

(* So much for the names that the model has for them.                      *)
LEMMA WrittenIs ==
  /\ Segments = SegmentsIn(journal) /\ Segments' = SegmentsIn(journal')
  /\ \A d : Complete(d) = Upto(journal, d) /\ HasTornTail(d) = TornIn(journal, d)
  /\ Lines(journal) => Written = PlacesIn(journal)
  /\ Lines(journal') => Written' = PlacesIn(journal')
<1>1. Segments = SegmentsIn(journal) /\ Segments' = SegmentsIn(journal')
  BY DEF Segments, SegmentsIn
<1>2. \A d : Complete(d) = Upto(journal, d) /\ HasTornTail(d) = TornIn(journal, d)
  BY DEF Complete, HasTornTail, Upto, TornIn
<1>3. \A d : Complete(d)' = Upto(journal', d)
  BY DEF Complete, HasTornTail, Upto, TornIn
<1>4. Lines(journal) => Written = PlacesIn(journal)
  BY <1>1, <1>2, PlacesAre DEF Written, EntriesOf
<1>5. Lines(journal') => Written' = PlacesIn(journal')
  BY <1>1, <1>3, PlacesAre DEF Written, EntriesOf
<1> QED
  BY <1>1, <1>2, <1>4, <1>5

-----------------------------------------------------------------------------
(* What an operation on one segment does to its lines. *)

(* The last line is replaced.                                              *)
LEMMA LastReplaced ==
  ASSUME NEW f \in Seq(Line), f # << >>, NEW v \in Line
  PROVE  LET g == Append(Front(f), v) IN
         /\ g \in Seq(Line) /\ Len(g) = Len(f) /\ g[Len(f)] = v
         /\ \A l \in 1 .. Len(f) : l # Len(f) => g[l] = f[l]
<1>1. Len(f) \in Nat /\ Len(f) > 0
  OBVIOUS
<1>2. /\ Front(f) \in Seq(Line) /\ Len(Front(f)) = Len(f) - 1
      /\ \A l \in 1 .. (Len(f) - 1) : Front(f)[l] = f[l]
  <2> DEFINE n == Len(f) - 1
  <2>1. Front(f) = SubSeq(f, 1, n)
    BY DEF Front
  <2>2. /\ 1 \in Int /\ n \in Int /\ n \in Nat /\ Len(f) = n + 1
        /\ \A i \in 1 .. n : f[i] \in Line
    BY <1>1
  <2> HIDE DEF n
  <2>3. Len(SubSeq(f, 1, n)) = n
    BY <2>2
  <2>4. \A i \in 1 .. n : SubSeq(f, 1, n)[i] = f[i]
    BY <2>2
  <2>5. SubSeq(f, 1, n) \in Seq(Line)
    BY <2>2
  <2> QED
    BY <2>1, <2>3, <2>4, <2>5 DEF n
<1> DEFINE h == Front(f)
<1> HIDE DEF h
<1>3. /\ Append(h, v) \in Seq(Line) /\ Len(Append(h, v)) = Len(h) + 1
      /\ Append(h, v)[Len(h) + 1] = v
      /\ \A l \in 1 .. Len(h) : Append(h, v)[l] = h[l]
  BY <1>2 DEF h
<1>4. Len(h) = Len(f) - 1 /\ \A l \in 1 .. (Len(f) - 1) : h[l] = f[l]
  BY <1>2 DEF h
<1>5. /\ Append(h, v) \in Seq(Line) /\ Len(Append(h, v)) = Len(f)
      /\ Append(h, v)[Len(f)] = v
      /\ \A l \in 1 .. Len(f) : l # Len(f) => Append(h, v)[l] = f[l]
  BY <1>1, <1>3, <1>4
<1> QED
  BY <1>5 DEF h

(* A line goes to the end, or what was torn there is made junk.            *)
LEMMA LineAdded ==
  ASSUME Lines(journal), NEW d \in Segments, NEW v \in Entry \cup {Torn}
  PROVE  /\ Added(d, v) \in Seq(Line)
         /\ ~ TornIn(journal, d) => Added(d, v) = Append(journal[d], v)
         /\ Len(Added(d, v)) >= Len(journal[d])
         /\ \A l \in DOMAIN Added(d, v) : Added(d, v)[l] = Torn => l = Len(Added(d, v))
<1>1. d \in Days /\ journal[d] # NoFile /\ journal[d] \in Seq(Line)
  BY DEF Lines, Segments
<1>2. v \in Line /\ Junk \in Line /\ Torn \in Line
  BY DEF Line
<1>3. \A l \in DOMAIN journal[d] : journal[d][l] = Torn => l = Len(journal[d])
  BY <1>1 DEF Lines
<1>4. CASE TornIn(journal, d)
  <2> DEFINE w == IF v = Torn THEN Torn ELSE Junk
  <2>1. Added(d, v) = Append(Front(journal[d]), w) /\ journal[d] # << >>
    BY <1>4 DEF Added, HasTornTail, TornIn
  <2>2. w \in Line
    BY <1>2
  <2> HIDE DEF w
  <2>3. /\ Added(d, v) \in Seq(Line) /\ Len(Added(d, v)) = Len(journal[d])
        /\ \A l \in 1 .. Len(journal[d]) : l # Len(journal[d]) => Added(d, v)[l] = journal[d][l]
    BY <1>1, <2>1, <2>2, LastReplaced
  <2> QED
    BY <1>1, <1>3, <1>4, <2>3
<1>5. CASE ~ TornIn(journal, d)
  <2>1. Added(d, v) = Append(journal[d], v)
    BY <1>5 DEF Added, HasTornTail, TornIn
  <2>2. \A l \in DOMAIN journal[d] : journal[d][l] # Torn
    BY <1>5, WrittenIs, UptoIs
  <2> QED
    BY <1>1, <1>2, <1>5, <2>1, <2>2
<1> QED
  BY <1>4, <1>5

(* One segment is written, as a whole.                                     *)
Rewritten(j, k, d, g) ==
  /\ Lines(k) /\ k[d] = g
  /\ SegmentsIn(k) = SegmentsIn(j) \cup {d}
  /\ \A e \in SegmentsIn(j) : e # d => Upto(k, e) = Upto(j, e)
  /\ \A x \in Place : x.day # d => (x \in PlacesIn(k) <=> x \in PlacesIn(j))
  /\ \A x \in Place : x.day = d =>
       (x \in PlacesIn(k) <=> x.line \in DOMAIN g /\ g[x.line] = x.entry)

(* That is what a segment's assignment does.                               *)
LEMMA SegmentWritten ==
  ASSUME NEW j, Lines(j), NEW d \in Days, NEW g \in Seq(Line),
         \A l \in DOMAIN g : g[l] = Torn => l = Len(g)
  PROVE  Rewritten(j, [j EXCEPT ![d] = g], d, g)
<1> DEFINE k == [j EXCEPT ![d] = g]
<1>1. k[d] = g /\ \A e \in Days : e # d => k[e] = j[e]
  BY DEF Lines
<1>2. g # NoFile
  BY MarksAssumption
<1>3. k \in [Days -> Seq(Line) \cup {NoFile}]
  BY DEF Lines
<1> HIDE DEF k
<1>4. Lines(k)
  BY <1>1, <1>2, <1>3 DEF Lines
<1>5. SegmentsIn(k) = SegmentsIn(j) \cup {d}
  BY <1>1, <1>2 DEF SegmentsIn
<1>6. \A e \in SegmentsIn(j) : e # d => Upto(k, e) = Upto(j, e)
  BY <1>1 DEF SegmentsIn, Upto, TornIn
<1>7. \A x \in Place : x.day # d => (x \in PlacesIn(k) <=> x \in PlacesIn(j))
  BY <1>1, <1>5 DEF PlacesIn, Place
<1>8. \A x \in Place : x.day = d =>
        (x \in PlacesIn(k) <=> x.line \in DOMAIN g /\ g[x.line] = x.entry)
  BY <1>1, <1>5 DEF PlacesIn, Place
<1> QED
  BY <1>1, <1>4, <1>5, <1>6, <1>7, <1>8 DEF Rewritten, k

-----------------------------------------------------------------------------
(* Types. *)

(* A process that appends has an entry, none of the future.                *)
Carried ==
  \A p \in Invocation : stage[p] \in {"repair", "open", "write", "cleanup"} =>
    /\ entry[p] \in Entry
    /\ entry[p].at <= now
    /\ entry[p].id <= issued

(* The segment it has opened is there while it is said to be.              *)
Linked ==
  \A p \in Invocation : stage[p] = "write" /\ linked[p] => DayOf(p) \in Segments

Attributed == JournalTypeOK /\ Carried /\ Linked

(* The day a process writes on.                                            *)
LEMMA DayOfTypes ==
  ASSUME Attributed, NEW p \in Invocation,
         stage[p] \in {"repair", "open", "write", "cleanup"}
  PROVE  entry[p] \in Entry /\ entry[p].at \in Nat /\ DayOf(p) \in Days /\ Lines(journal)
<1>1. entry[p] \in Entry /\ entry[p].at <= now /\ Lines(journal) /\ now \in 0 .. MaxTime
  BY DEF Attributed, Carried, JournalTypeOK, Lines
<1>2. entry[p].at \in 0 .. MaxTime
  BY <1>1, BoundsAssumption DEF Entry
<1> QED
  BY <1>1, <1>2, DaysInOrder DEF DayOf

(* A step that grows the journal loses no complete line.                   *)
Extends(k, j) ==
  SegmentsIn(j) \subseteq SegmentsIn(k) /\ \A d \in SegmentsIn(j) : Upto(k, d) >= Upto(j, d)

(* A repair makes a torn tail a line of its own, and nothing else.         *)
LEMMA RepairLines ==
  ASSUME Attributed, NEW p \in Invocation, Repair(p)
  PROVE  /\ Lines(journal') /\ Segments' = Segments /\ Written' = Written
         /\ Extends(journal', journal) /\ ~ TornIn(journal', DayOf(p))
<1>1. PICK d \in Days : d = DayOf(p)
  BY DayOfTypes DEF Repair
<1>2. Lines(journal)
  BY DayOfTypes DEF Repair
<1>3. CASE ~ TornIn(journal, d)
  <2>1. journal' = journal
    BY <1>1, <1>3, WrittenIs DEF Repair
  <2>2. \A e \in SegmentsIn(journal) : Upto(journal, e) \in Nat
    BY <1>2, UptoIs
  <2> QED
    BY <1>1, <1>2, <1>3, <2>1, <2>2, WrittenIs DEF Extends
<1>4. CASE TornIn(journal, d)
  <2> DEFINE f == journal[d]
             g == Append(Front(f), Junk)
  <2>1. d \in SegmentsIn(journal)
    BY <1>4 DEF TornIn, SegmentsIn
  <2>2. f \in Seq(Line) /\ f # << >> /\ f[Len(f)] = Torn
        /\ Upto(journal, d) = Len(f) - 1 /\ Len(f) \in Nat
    BY <1>2, <1>4, <2>1, UptoIs
  <2>3. Junk \in Line /\ Junk # Torn /\ Junk \notin Entry /\ Torn \notin Entry
    BY MarksAssumption DEF Line
  <2>4. journal' = [journal EXCEPT ![d] = g]
    BY <1>1, <1>4, WrittenIs DEF Repair
  <2>5. /\ g \in Seq(Line) /\ Len(g) = Len(f) /\ g[Len(f)] = Junk
        /\ \A l \in 1 .. Len(f) : l # Len(f) => g[l] = f[l]
    BY <2>2, <2>3, LastReplaced
  <2>6. \A l \in DOMAIN f : f[l] = Torn => l = Len(f)
    BY <1>2, <2>1 DEF Lines, SegmentsIn
  <2> HIDE DEF f, g
  <2>7. \A l \in DOMAIN g : g[l] # Torn
    BY <2>2, <2>3, <2>5, <2>6
  <2>8. \A l \in DOMAIN g : g[l] = Torn => l = Len(g)
    BY <2>7
  <2>9. Rewritten(journal, journal', d, g)
    BY <1>1, <1>2, <2>4, <2>5, <2>8, SegmentWritten
  <2>10. \A x \in Place : x.day = d => (x \in PlacesIn(journal') <=> x \in PlacesIn(journal))
    <3>1. \A x \in Place : x.day = d =>
            (x \in PlacesIn(journal) <=> x.line \in DOMAIN f /\ f[x.line] = x.entry)
      BY <2>1 DEF PlacesIn, f
    <3>2. DOMAIN f = 1 .. Len(f) /\ DOMAIN g = 1 .. Len(f)
      BY <2>2, <2>5
    <3>3. ASSUME NEW v \in Entry, NEW l
          PROVE  l \in DOMAIN g /\ g[l] = v <=> l \in DOMAIN f /\ f[l] = v
      <4>1. CASE l = Len(f)
        BY <2>2, <2>3, <2>5, <4>1
      <4>2. CASE l # Len(f)
        <5>1. \A m \in 1 .. Len(f) : m # Len(f) => g[m] = f[m]
          BY <2>5
        <5>2. l \in DOMAIN g => g[l] = f[l]
          BY <3>2, <4>2, <5>1
        <5>3. l \in DOMAIN g <=> l \in DOMAIN f
          BY <3>2
        <5> QED
          BY <5>2, <5>3
      <4> QED
        BY <4>1, <4>2
    <3>4. \A x \in Place : x.entry \in Entry
      BY DEF Place
    <3>5. \A x \in Place : x.day = d =>
            (x \in PlacesIn(journal') <=> x.line \in DOMAIN g /\ g[x.line] = x.entry)
      BY <2>9 DEF Rewritten
    <3> QED
      BY <3>1, <3>3, <3>4, <3>5
  <2>11. SegmentsIn(journal') = SegmentsIn(journal)
    BY <2>1, <2>9 DEF Rewritten
  <2>12. PlacesIn(journal') = PlacesIn(journal)
    BY <2>9, <2>10 DEF PlacesIn, Rewritten
  <2>13. ~ TornIn(journal', d) /\ Upto(journal', d) = Len(g)
    <3>1. TornIn(journal', d) => g # << >> /\ g[Len(g)] = Torn
      BY <2>9 DEF TornIn, Last, Rewritten
    <3>2. Len(g) \in DOMAIN g
      BY <2>2, <2>5
    <3> QED
      BY <2>1, <2>7, <2>9, <2>11, <3>1, <3>2, UptoIs DEF Rewritten
  <2>14. \A e \in SegmentsIn(journal) : Upto(journal', e) >= Upto(journal, e)
    <3>1. \A e \in SegmentsIn(journal) : Upto(journal, e) \in Nat
      BY <1>2, UptoIs
    <3> QED
      BY <2>2, <2>5, <2>9, <2>13, <3>1 DEF Rewritten
  <2> QED
    BY <1>1, <1>2, <2>9, <2>11, <2>12, <2>13, <2>14, WrittenIs DEF Extends, Rewritten
<1> QED
  BY <1>3, <1>4

(* Opening the segment of the day creates it, empty, when it is not there. *)
LEMMA OpenLines ==
  ASSUME Attributed, NEW p \in Invocation, Open(p)
  PROVE  /\ Lines(journal') /\ Segments' = Segments \cup {DayOf(p)}
         /\ Written' = Written /\ Extends(journal', journal)
         /\ ~ TornIn(journal, DayOf(p)) => ~ TornIn(journal', DayOf(p))
<1>1. PICK d \in Days : d = DayOf(p)
  BY DayOfTypes DEF Open
<1>2. Lines(journal)
  BY DayOfTypes DEF Open
<1>3. \A e \in SegmentsIn(journal) : Upto(journal, e) \in Nat
  BY <1>2, UptoIs
<1>4. CASE journal[d] # NoFile
  <2>1. journal' = journal
    BY <1>1, <1>2, <1>4 DEF Open, Lines
  <2>2. d \in SegmentsIn(journal)
    BY <1>4 DEF SegmentsIn
  <2> QED
    BY <1>1, <1>2, <1>3, <2>1, <2>2, WrittenIs DEF Extends
<1>5. CASE journal[d] = NoFile
  <2>1. journal' = [journal EXCEPT ![d] = << >>]
    BY <1>1, <1>2, <1>5 DEF Open, Lines
  <2>2. << >> \in Seq(Line) /\ DOMAIN << >> = {}
    OBVIOUS
  <2>3. Rewritten(journal, journal', d, << >>)
    BY <1>2, <2>1, <2>2, SegmentWritten
  <2>4. \A x \in Place : x.day = d => x \notin PlacesIn(journal)
    BY <1>5 DEF PlacesIn, SegmentsIn
  <2>5. PlacesIn(journal') = PlacesIn(journal)
    BY <2>2, <2>3, <2>4 DEF Rewritten, PlacesIn
  <2>6. ~ TornIn(journal', d)
    BY <2>3 DEF TornIn, Rewritten
  <2>7. \A e \in SegmentsIn(journal) : Upto(journal', e) >= Upto(journal, e)
    BY <1>3, <1>5, <2>3 DEF Rewritten, SegmentsIn
  <2> QED
    BY <1>1, <1>2, <2>3, <2>5, <2>6, <2>7, WrittenIs DEF Extends, Rewritten
<1> QED
  BY <1>4, <1>5

(* Where the entry goes that a process writes.                             *)
PlaceOf(p) ==
  [day |-> DayOf(p), line |-> Upto(journal, DayOf(p)) + 1, entry |-> entry[p]]

(* What is written at the end of a segment is one line more, and an entry  *)
(* that does not meet a torn tail is there.                                *)
LEMMA AddedLines ==
  ASSUME Attributed, NEW d \in Segments, NEW v \in Entry \cup {Torn},
         journal' = [journal EXCEPT ![d] = Added(d, v)]
  PROVE  /\ Lines(journal') /\ Segments' = Segments /\ Extends(journal', journal)
         /\ TornIn(journal, d) => Written' = Written
         /\ ~ TornIn(journal, d) =>
              /\ v = Torn => Written' = Written
              /\ v \in Entry =>
                   /\ Written' = Written \cup
                        {[day |-> d, line |-> Upto(journal, d) + 1, entry |-> v]}
                   /\ journal'[d] # NoFile /\ Last(journal'[d]) = v
                   /\ Upto(journal', d) = Upto(journal, d) + 1
<1> DEFINE f == journal[d]
           g == Added(d, v)
<1>1. Lines(journal)
  BY DEF Attributed, JournalTypeOK, Lines
<1>2. d \in SegmentsIn(journal) /\ d \in Days
  BY WrittenIs DEF SegmentsIn
<1>3. f \in Seq(Line) /\ Len(f) \in Nat /\ Upto(journal, d) \in 0 .. Len(f)
  BY <1>1, <1>2, UptoIs
<1>4. /\ g \in Seq(Line) /\ (~ TornIn(journal, d) => g = Append(f, v)) /\ Len(g) >= Len(f)
      /\ \A l \in DOMAIN g : g[l] = Torn => l = Len(g)
  BY <1>1, LineAdded
<1> HIDE DEF f, g
<1>5. Rewritten(journal, journal', d, g)
  BY <1>1, <1>2, <1>4, SegmentWritten DEF g
<1>6. SegmentsIn(journal') = SegmentsIn(journal)
  BY <1>2, <1>5 DEF Rewritten
<1>7. /\ Lines(journal') /\ journal'[d] = g /\ Upto(journal', d) \in Nat
      /\ TornIn(journal', d) => Upto(journal', d) = Len(g) - 1
      /\ ~ TornIn(journal', d) => Upto(journal', d) = Len(g)
      /\ TornIn(journal', d) => g[Len(g)] = Torn
  <2>1. Lines(journal') /\ journal'[d] = g /\ d \in SegmentsIn(journal')
    BY <1>2, <1>5, <1>6 DEF Rewritten
  <2> DEFINE k == journal'
  <2>2. Lines(k) /\ k[d] = g /\ d \in SegmentsIn(k)
    BY <2>1
  <2> HIDE DEF k
  <2>3. /\ Upto(k, d) \in 0 .. Len(k[d]) /\ Len(k[d]) \in Nat
        /\ TornIn(k, d) => Upto(k, d) = Len(k[d]) - 1 /\ k[d][Len(k[d])] = Torn
        /\ ~ TornIn(k, d) => Upto(k, d) = Len(k[d])
    BY <2>2, UptoIs
  <2> QED
    BY <2>1, <2>2, <2>3 DEF k
<1>8. Upto(journal', d) >= Upto(journal, d)
  <2>1. CASE TornIn(journal, d)
    BY <1>1, <1>2, <1>3, <1>4, <1>7, <2>1, UptoIs DEF f
  <2>2. CASE ~ TornIn(journal, d)
    <3>1. Len(g) = Len(f) + 1
      BY <1>3, <1>4, <2>2
    <3> QED
      BY <1>3, <1>7, <3>1
  <2> QED
    BY <2>1, <2>2
<1>9. Extends(journal', journal)
  <2>1. \A e \in SegmentsIn(journal) : Upto(journal, e) \in Nat
    BY <1>1, UptoIs
  <2>2. \A e \in SegmentsIn(journal) : e # d => Upto(journal', e) = Upto(journal, e)
    BY <1>5 DEF Rewritten
  <2>3. ASSUME NEW e \in SegmentsIn(journal) PROVE Upto(journal', e) >= Upto(journal, e)
    <3>1. CASE e = d
      BY <1>8, <3>1
    <3>2. CASE e # d
      <4>1. Upto(journal', e) = Upto(journal, e) /\ Upto(journal, e) \in Nat
        BY <2>1, <2>2, <3>2
      <4> QED
        BY <4>1
    <3> QED
      BY <3>1, <3>2
  <2> QED
    BY <1>6, <2>3 DEF Extends
<1>10. ASSUME ~ TornIn(journal, d)
       PROVE  /\ v = Torn => Written' = Written
              /\ v \in Entry =>
                   /\ Written' = Written \cup
                        {[day |-> d, line |-> Upto(journal, d) + 1, entry |-> v]}
                   /\ journal'[d] # NoFile /\ Last(journal'[d]) = v
                   /\ Upto(journal', d) = Upto(journal, d) + 1
  <2> DEFINE y == [day |-> d, line |-> Upto(journal, d) + 1, entry |-> v]
  <2>1. g = Append(f, v) /\ Upto(journal, d) = Len(f)
    BY <1>1, <1>2, <1>4, <1>10, UptoIs DEF f
  <2>2. /\ Len(g) = Len(f) + 1 /\ DOMAIN g = 1 .. Len(g) /\ DOMAIN f = 1 .. Len(f)
        /\ g[Len(g)] = v /\ \A l \in DOMAIN f : g[l] = f[l]
    BY <1>3, <2>1 DEF Line
  <2>3. \A x \in Place : x.day = d =>
          (x \in PlacesIn(journal) <=> x.line \in DOMAIN f /\ f[x.line] = x.entry)
    BY <1>2 DEF PlacesIn, f
  <2>4. \A x \in Place : x.day = d =>
          (x \in PlacesIn(journal') <=>
             x \in PlacesIn(journal) \/ (x.line = Len(f) + 1 /\ v = x.entry))
    <3>1. \A x \in Place : x.day = d =>
            (x \in PlacesIn(journal') <=> x.line \in DOMAIN g /\ g[x.line] = x.entry)
      BY <1>5 DEF Rewritten
    <3>2. \A l \in DOMAIN g : l \in DOMAIN f \/ l = Len(f) + 1
      BY <1>3, <2>2
    <3>3. DOMAIN f \subseteq DOMAIN g /\ Len(f) + 1 \in DOMAIN g /\ g[Len(f) + 1] = v
          /\ Len(f) + 1 \notin DOMAIN f
      BY <1>3, <2>2
    <3> QED
      BY <2>2, <2>3, <3>1, <3>2, <3>3
  <2>5. CASE v = Torn
    <3>1. \A x \in Place : x.entry # v
      BY <2>5, MarksAssumption DEF Place
    <3>2. PlacesIn(journal') = PlacesIn(journal)
      BY <1>5, <2>4, <3>1 DEF PlacesIn, Rewritten
    <3> QED
      BY <1>1, <1>7, <2>5, <3>2, WrittenIs, MarksAssumption
  <2>6. CASE v \in Entry
    <3>1. y \in Place /\ y.day = d /\ y.line = Len(f) + 1 /\ y.entry = v
      BY <1>2, <1>3, <2>1, <2>6 DEF Place
    <3>2. \A x \in Place : x.day = d /\ x.line = Len(f) + 1 /\ v = x.entry => x = y
      BY <2>1 DEF Place
    <3> HIDE DEF y
    <3>3. PlacesIn(journal') = PlacesIn(journal) \cup {y}
      BY <1>5, <2>4, <3>1, <3>2 DEF PlacesIn, Rewritten
    <3>4. Last(g) = v /\ v # Torn
      BY <2>2, <2>6, MarksAssumption DEF Last
    <3>5. journal'[d] # NoFile
      BY <1>2, <1>6 DEF SegmentsIn
    <3>6. Upto(journal', d) = Len(g)
      BY <1>7, <2>2, <3>4
    <3> QED
      BY <1>1, <1>7, <2>1, <2>2, <2>6, <3>3, <3>4, <3>5, <3>6, WrittenIs, MarksAssumption
         DEF y
  <2> QED
    BY <2>5, <2>6
<1>11. ASSUME TornIn(journal, d) PROVE Written' = Written
  <2> DEFINE w == IF v = Torn THEN Torn ELSE Junk
  <2>1. f # << >> /\ f[Len(f)] = Torn
    BY <1>1, <1>2, <1>11, UptoIs DEF f
  <2>2. g = Append(Front(f), w)
    BY <1>11 DEF Added, HasTornTail, TornIn, f, g
  <2>3. w \in Line /\ w \notin Entry /\ Torn \notin Entry
    BY MarksAssumption DEF Line
  <2> HIDE DEF w
  <2>4. /\ Len(g) = Len(f) /\ g[Len(f)] = w
        /\ \A l \in 1 .. Len(f) : l # Len(f) => g[l] = f[l]
    BY <1>3, <2>1, <2>2, <2>3, LastReplaced
  <2>5. DOMAIN f = 1 .. Len(f) /\ DOMAIN g = 1 .. Len(f)
    BY <1>3, <1>4, <2>4
  <2>6. ASSUME NEW u \in Entry, NEW l
        PROVE  l \in DOMAIN g /\ g[l] = u <=> l \in DOMAIN f /\ f[l] = u
    <3>1. CASE l = Len(f)
      BY <2>1, <2>3, <2>4, <3>1
    <3>2. CASE l # Len(f)
      <4>1. \A m \in 1 .. Len(f) : m # Len(f) => g[m] = f[m]
        BY <2>4
      <4>2. l \in DOMAIN g => g[l] = f[l]
        BY <2>5, <3>2, <4>1, Zenon
      <4>3. l \in DOMAIN g <=> l \in DOMAIN f
        BY <2>5
      <4> QED
        BY <4>2, <4>3
    <3> QED
      BY <3>1, <3>2
  <2>7. \A x \in Place : x.entry \in Entry
    BY DEF Place
  <2>8. \A x \in Place : x.day = d =>
          (x \in PlacesIn(journal) <=> x.line \in DOMAIN f /\ f[x.line] = x.entry)
    BY <1>2 DEF PlacesIn, f
  <2>9. \A x \in Place : x.day = d =>
          (x \in PlacesIn(journal') <=> x.line \in DOMAIN g /\ g[x.line] = x.entry)
    BY <1>5 DEF Rewritten
  <2>10. ASSUME NEW x \in Place PROVE x \in PlacesIn(journal') <=> x \in PlacesIn(journal)
    <3>1. CASE x.day = d
      <4>1. x.line \in DOMAIN g /\ g[x.line] = x.entry <=> x.line \in DOMAIN f /\ f[x.line] = x.entry
        BY <2>6, <2>7
      <4> QED
        BY <2>8, <2>9, <3>1, <4>1
    <3>2. CASE x.day # d
      BY <1>5, <3>2 DEF Rewritten
    <3> QED
      BY <3>1, <3>2
  <2>11. PlacesIn(journal') = PlacesIn(journal)
    BY <2>10 DEF PlacesIn
  <2> QED
    BY <1>1, <1>7, <2>11, WrittenIs
<1> QED
  BY <1>5, <1>6, <1>9, <1>10, <1>11, WrittenIs DEF Rewritten

-----------------------------------------------------------------------------
(* Cleaning up. *)

(* The newest of the segments.                                             *)
LEMMA NewestIs ==
  ASSUME NEW S \in SUBSET Days, S # {}
  PROVE  Max(S) \in S /\ \A e \in S : e <= Max(S)
<1>1. Day(MaxTime) \in Nat /\ S \subseteq 0 .. Day(MaxTime)
  BY DaysInOrder, BoundsAssumption DEF Days
<1> DEFINE T == {n \in Nat : \A e \in S : e <= n}
<1>2. Day(MaxTime) \in T
  BY <1>1
<1>3. PICK n \in T : \A m \in T : n <= m
  BY <1>2, LeastNat, Zenon
<1>4. n \in S
  <2> SUFFICES ASSUME n \notin S PROVE FALSE
    OBVIOUS
  <2>1. PICK e \in S : TRUE
    OBVIOUS
  <2>2. n \in Nat /\ \A d \in S : d \in Nat /\ d < n
    BY <1>1, <1>3
  <2>3. n - 1 \in T
    BY <2>1, <2>2
  <2> HIDE DEF T
  <2> QED
    BY <1>3, <2>2, <2>3
<1>5. \A e \in S : n >= e
  BY <1>1, <1>3
<1> QED
  BY <1>4, <1>5, <1>1 DEF Max

(* What is deleted are the oldest of the segments, never the newest.       *)
LEMMA DeletedAre ==
  /\ Deleted \subseteq Segments
  /\ \A d \in Deleted : \A e \in Segments : e <= d => e \in Deleted
  /\ \A o \in Int : (\E e \in Segments : e > o) => \E e \in Segments \ Deleted : e > o
<1>1. Segments \subseteq Days /\ Days \subseteq Int /\ Deleted \subseteq Segments
  BY DaysInOrder, BoundsAssumption DEF Segments, Deleted, Days
<1>2. ASSUME NEW d \in Deleted, NEW e \in Segments, e <= d PROVE e \in Deleted
  <2>1. PICK n \in Segments : n > d
    BY DEF Deleted
  <2>2. \A i \in Segments : i <= d => Outlived(i)
    BY DEF Deleted
  <2>3. d \in Int /\ e \in Int /\ n \in Int /\ Segments \subseteq Int
    BY <1>1
  <2>4. n > e /\ \A i \in Segments : i <= e => i <= d
    BY <1>2, <2>1, <2>3
  <2> QED
    BY <2>2, <2>4 DEF Deleted
<1>3. ASSUME NEW o \in Int, NEW e \in Segments, e > o
      PROVE  \E i \in Segments \ Deleted : i > o
  <2>1. PICK n \in Segments : \A i \in Segments : i <= n
    BY <1>1, NewestIs
  <2>2. n \notin Deleted
    <3> SUFFICES ASSUME n \in Deleted PROVE FALSE
      OBVIOUS
    <3>1. PICK i \in Segments : i > n
      BY DEF Deleted
    <3> QED
      BY <1>1, <2>1, <3>1
  <2>3. n > o
    BY <1>1, <1>3, <2>1
  <2> QED
    BY <2>2, <2>3
<1> QED
  BY <1>1, <1>2, <1>3

(* The other segments stay as they are.                                    *)
LEMMA CleanupLines ==
  ASSUME Lines(journal), NEW p \in Invocation, Cleanup(p)
  PROVE  /\ Lines(journal') /\ Segments' = Segments \ Deleted
         /\ Written' = {x \in Written : x.day \notin Deleted}
         /\ \A d \in Segments' : journal'[d] = journal[d] /\ Upto(journal', d) = Upto(journal, d)
<1>1. journal' = [d \in Days |-> IF d \in Deleted THEN NoFile ELSE journal[d]]
  BY DEF Cleanup
<1>2. \A d \in Days : /\ d \in Deleted => journal'[d] = NoFile
                      /\ d \notin Deleted => journal'[d] = journal[d]
  BY <1>1
<1>3. Deleted \subseteq Segments /\ Segments \subseteq Days
  BY DeletedAre DEF Segments
<1>4. journal' \in [Days -> Seq(Line) \cup {NoFile}]
  BY <1>1 DEF Lines
<1>5. Lines(journal')
  BY <1>2, <1>4 DEF Lines
<1>6. SegmentsIn(journal') = SegmentsIn(journal) \ Deleted
  BY <1>2 DEF SegmentsIn
<1>7. \A d \in SegmentsIn(journal') : journal'[d] = journal[d]
  BY <1>2, <1>6 DEF SegmentsIn
<1>8. \A d \in SegmentsIn(journal') : Upto(journal', d) = Upto(journal, d)
  BY <1>7 DEF Upto, TornIn
<1>9. PlacesIn(journal') = {x \in PlacesIn(journal) : x.day \notin Deleted}
  BY <1>6, <1>7 DEF PlacesIn
<1> QED
  BY <1>5, <1>6, <1>7, <1>8, <1>9, WrittenIs

-----------------------------------------------------------------------------
(* The types are kept. *)

(* What a scan finds has the type of what it keeps.                        *)
LEMMA ScanTypes ==
  ASSUME Lines(journal), NEW off \in Offset
  PROVE  /\ EntriesFrom(off) \subseteq Place /\ EndFrom(off) \in Offset
         /\ \/ /\ \A d \in Segments : d < off.day
               /\ EndFrom(off) = off
            \/ \E d \in Segments :
                 /\ d >= off.day /\ \A e \in Segments : e <= d
                 /\ EndFrom(off) = [day |-> d, line |-> Upto(journal, d)]
<1>1. EntriesFrom(off) \subseteq Place
  BY WrittenIs DEF EntriesFrom, PlacesIn
<1>2. Segments \subseteq Days /\ Days \subseteq Int /\ off.day \in Int
  BY DaysInOrder, BoundsAssumption DEF Segments, Days, Offset
<1>3. CASE \E d \in Segments : d >= off.day
  <2>1. PICK d \in Segments : d = Max(Segments) /\ \A e \in Segments : e <= d
    BY <1>2, <1>3, NewestIs
  <2>2. EndFrom(off) = [day |-> d, line |-> Upto(journal, d)]
    BY <1>3, <2>1, WrittenIs DEF EndFrom
  <2>3. d >= off.day
    BY <1>2, <1>3, <2>1
  <2>4. Upto(journal, d) \in Nat
    BY WrittenIs, UptoIs
  <2>5. [day |-> d, line |-> Upto(journal, d)] \in Offset
    BY <1>2, <2>4 DEF Offset
  <2> QED
    BY <1>1, <2>1, <2>2, <2>3, <2>5
<1>4. CASE ~ \E d \in Segments : d >= off.day
  <2>1. EndFrom(off) = off
    BY <1>4 DEF EndFrom
  <2>2. \A d \in Segments : d < off.day
    BY <1>2, <1>4
  <2> QED
    BY <1>1, <2>1, <2>2
<1> QED
  BY <1>3, <1>4

(* What each process holds.                                                *)
Locals ==
  /\ stage \in [Invocation -> Stage]
  /\ entry \in [Invocation -> Entry \cup {NoEntry}]
  /\ linked \in [Invocation -> BOOLEAN]
  /\ batch \in [Invocation -> SUBSET Place]
  /\ next \in [Invocation -> Offset]
  /\ todo \in [Invocation -> SUBSET Place]

(* A process that ends holds nothing any more.                             *)
LEMMA LeaveTypes ==
  ASSUME Locals, NEW p \in Invocation, Leave(p)
  PROVE  /\ Locals' /\ stage'[p] = "idle"
         /\ \A q \in Invocation : q # p =>
              /\ stage'[q] = stage[q] /\ entry'[q] = entry[q] /\ linked'[q] = linked[q]
<1>1. Start \in Offset /\ "idle" \in Stage
  BY DEF Start, Offset, Stage
<1>2. stage' = [stage EXCEPT ![p] = "idle"] /\ stage' \in [Invocation -> Stage]
  BY <1>1 DEF Leave, Goto, Locals
<1>3. entry' = [entry EXCEPT ![p] = NoEntry]
      /\ entry' \in [Invocation -> Entry \cup {NoEntry}]
  BY DEF Leave, Locals
<1>4. linked' = [linked EXCEPT ![p] = FALSE] /\ linked' \in [Invocation -> BOOLEAN]
  BY DEF Leave, Locals
<1>5. batch' \in [Invocation -> SUBSET Place] /\ todo' \in [Invocation -> SUBSET Place]
  BY DEF Leave, Locals
<1>6. next' \in [Invocation -> Offset]
  BY <1>1 DEF Leave, Locals
<1>7. Locals'
  BY <1>2, <1>3, <1>4, <1>5, <1>6 DEF Locals
<1> QED
  BY <1>2, <1>3, <1>4, <1>7 DEF Locals

LEMMA ExitTypes ==
  ASSUME Locals, NEW p \in Invocation, Exit(p)
  PROVE  /\ Locals' /\ stage'[p] = "idle" /\ stale' = stale \ {p}
         /\ \A q \in Invocation : q # p =>
              /\ stage'[q] = stage[q] /\ entry'[q] = entry[q] /\ linked'[q] = linked[q]
BY LeaveTypes DEF Exit

(* One that gives up its entry holds the rest.                             *)
LEMMA AppendedTypes ==
  ASSUME Locals, NEW p \in Invocation, Appended(p), linked' \in [Invocation -> BOOLEAN],
         UNCHANGED scan
  PROVE  /\ Locals' /\ stage'[p] = "load"
         /\ \A q \in Invocation : q # p => stage'[q] = stage[q] /\ entry'[q] = entry[q]
<1>1. "load" \in Stage /\ stage' = [stage EXCEPT ![p] = "load"]
  BY DEF Stage, Appended, Goto
<1>2. stage' \in [Invocation -> Stage] /\ stage'[p] = "load"
      /\ \A q \in Invocation : q # p => stage'[q] = stage[q]
  BY <1>1 DEF Locals
<1>3. entry' \in [Invocation -> Entry \cup {NoEntry}]
      /\ \A q \in Invocation : q # p => entry'[q] = entry[q]
  BY DEF Locals, Appended
<1> QED
  BY <1>2, <1>3 DEF Locals, scan

(* A process that goes on holds what it held.                              *)
LEMMA GotoTypes ==
  ASSUME Locals, NEW p \in Invocation, NEW s \in Stage, Goto(p, s)
  PROVE  /\ stage' \in [Invocation -> Stage] /\ stage'[p] = s
         /\ \A q \in Invocation : q # p => stage'[q] = stage[q]
BY DEF Goto, Locals

(* An invocation that begins is one of those that the bounds allow.        *)
LEMMA IssuedLess ==
  ASSUME issued \in Nat, NEW p \in Invocation, NEW s, NEW k, Begin(p, s, k)
  PROVE  issued < MaxEntries
<1>1. CASE \E q \in Invocation : stage[q] # "idle"
  <2>1. issued < MaxTogether
    BY <1>1 DEF Begin
  <2> QED
    BY <2>1, BoundsAssumption
<1>2. CASE ~ \E q \in Invocation : stage[q] # "idle"
  BY <1>2 DEF Begin
<1> QED
  BY <1>1, <1>2

(* Every step keeps what the processes hold in type.                       *)
LEMMA LocalsStep ==
  ASSUME Attributed, [JournalNext]_journalVars
  PROVE  Locals'
<1>1. /\ Locals /\ Lines(journal) /\ offset \in Offset /\ now \in 0 .. MaxTime
      /\ issued \in Nat
  BY DEF Attributed, JournalTypeOK, Locals, Lines
<1>2. ASSUME NEW p \in Invocation, Exit(p) PROVE Locals'
  BY <1>1, <1>2, ExitTypes
<1>3. ASSUME NEW p \in Invocation, NEW s \in Stage, Goto(p, s),
             UNCHANGED <<entry, linked, scan>>
      PROVE  Locals'
  <2>1. stage' \in [Invocation -> Stage]
    BY <1>1, <1>3, GotoTypes
  <2> QED
    BY <1>1, <1>3, <2>1 DEF Locals, scan
<1>4. ASSUME UNCHANGED <<stage, entry, linked, scan>> PROVE Locals'
  BY <1>1, <1>4 DEF Locals, scan
<1>5. {"idle", "repair", "open", "write", "cleanup", "load", "read", "pair", "count",
       "store"} = Stage
  BY DEF Stage
<1>6. ASSUME NEW p \in Invocation, NEW s \in Session,
             NEW k \in {"failed", "fixed", "other"}, Begin(p, s, k)
      PROVE  Locals'
  <2> DEFINE e == [id |-> issued + 1, session |-> s, kind |-> k, at |-> now]
  <2>1. e \in Entry
    <3>1. issued + 1 \in 1 .. MaxEntries /\ now \in Nat
      BY <1>1, <1>6, IssuedLess, BoundsAssumption
    <3> QED
      BY <3>1 DEF Entry, Id
  <2>2. entry' = [entry EXCEPT ![p] = e]
    BY <1>6 DEF Begin
  <2> HIDE DEF e
  <2>3. entry' \in [Invocation -> Entry \cup {NoEntry}]
    BY <1>1, <2>1, <2>2 DEF Locals
  <2>4. stage' \in [Invocation -> Stage]
    BY <1>1, <1>5, <1>6, GotoTypes DEF Begin
  <2>5. UNCHANGED <<linked, batch, next, todo>>
    BY <1>6 DEF Begin, scan
  <2> QED
    BY <1>1, <2>3, <2>4, <2>5 DEF Locals
<1>7. ASSUME NEW p \in Invocation, Repair(p) PROVE Locals'
  BY <1>3, <1>5, <1>7 DEF Repair
<1>8. ASSUME NEW p \in Invocation, Open(p) PROVE Locals'
  <2>1. linked' \in [Invocation -> BOOLEAN]
    BY <1>1, <1>8 DEF Open, Locals
  <2>2. stage' \in [Invocation -> Stage]
    BY <1>1, <1>5, <1>8, GotoTypes DEF Open
  <2> QED
    BY <1>1, <1>8, <2>1, <2>2 DEF Open, Locals, scan
<1>9. ASSUME NEW p \in Invocation, Write(p) PROVE Locals'
  BY <1>3, <1>5, <1>9 DEF Write
<1>10. ASSUME NEW p \in Invocation, WriteTorn(p) PROVE Locals'
  <2>1. CASE Exit(p)
    BY <1>2, <2>1
  <2>2. CASE Appended(p) /\ linked' = [linked EXCEPT ![p] = FALSE] /\ UNCHANGED scan
    <3>1. linked' \in [Invocation -> BOOLEAN]
      BY <1>1, <2>2 DEF Locals
    <3> QED
      BY <1>1, <2>2, <3>1, AppendedTypes
  <2> QED
    BY <1>10, <2>1, <2>2 DEF WriteTorn
<1>11. ASSUME NEW p \in Invocation, Cleanup(p) PROVE Locals'
  <2>1. linked' \in [Invocation -> BOOLEAN]
    <3> DEFINE still(q) == q # p /\ linked[q] /\ (stage[q] = "write" => DayOf(q) \notin Deleted)
    <3>1. linked' = [q \in Invocation |-> still(q)]
      BY <1>11 DEF Cleanup
    <3>2. \A q \in Invocation : still(q) \in BOOLEAN
      OBVIOUS
    <3> HIDE DEF still
    <3> QED
      BY <3>1, <3>2
  <2> QED
    BY <1>1, <1>11, <2>1, AppendedTypes DEF Cleanup
<1>12. ASSUME NEW p \in Invocation, Load(p) PROVE Locals'
  <2>1. CASE Exit(p)
    BY <1>2, <2>1
  <2>2. CASE /\ next' = [next EXCEPT ![p] = offset] /\ Goto(p, "read")
             /\ UNCHANGED <<entry, linked, batch, todo>>
    <3>1. next' \in [Invocation -> Offset]
      BY <1>1, <2>2 DEF Locals
    <3>2. stage' \in [Invocation -> Stage]
      BY <1>1, <1>5, <2>2, GotoTypes
    <3> QED
      BY <1>1, <2>2, <3>1, <3>2 DEF Locals
  <2> QED
    BY <1>12, <2>1, <2>2 DEF Load
<1>13. ASSUME NEW p \in Invocation, Read(p) PROVE Locals'
  <2>1. CASE Exit(p)
    BY <1>2, <2>1
  <2>2. CASE /\ batch' = [batch EXCEPT ![p] = EntriesFrom(next[p])]
             /\ next' = [next EXCEPT ![p] = EndFrom(next[p])]
             /\ Goto(p, "pair") /\ UNCHANGED <<entry, linked, todo>>
    <3>0. next[p] \in Offset
      BY <1>1 DEF Locals
    <3>1. next' \in [Invocation -> Offset]
      BY <1>1, <2>2, <3>0, ScanTypes DEF Locals
    <3>2. batch' \in [Invocation -> SUBSET Place]
      BY <1>1, <2>2, <3>0, ScanTypes DEF Locals
    <3>3. stage' \in [Invocation -> Stage]
      BY <1>1, <1>5, <2>2, GotoTypes
    <3> QED
      BY <1>1, <2>2, <3>1, <3>2, <3>3 DEF Locals
  <2> QED
    BY <1>13, <2>1, <2>2, Zenon DEF Read
<1>14. ASSUME NEW p \in Invocation, Pair(p) PROVE Locals'
  <2>1. CASE Exit(p)
    BY <1>2, <2>1
  <2>2. CASE /\ todo' = [todo EXCEPT ![p] = Paired(batch[p])]
             /\ batch' = [batch EXCEPT ![p] = Paired(batch[p])]
             /\ Goto(p, "count") /\ UNCHANGED <<entry, linked, next>>
    <3>0. batch[p] \subseteq Place
      BY <1>1 DEF Locals
    <3>1. Paired(batch[p]) \subseteq Place
      BY <3>0 DEF Paired
    <3>2. todo' \in [Invocation -> SUBSET Place] /\ batch' \in [Invocation -> SUBSET Place]
      BY <1>1, <2>2, <3>1 DEF Locals
    <3>3. stage' \in [Invocation -> Stage]
      BY <1>1, <1>5, <2>2, GotoTypes
    <3> QED
      BY <1>1, <2>2, <3>2, <3>3 DEF Locals
  <2> QED
    BY <1>14, <2>1, <2>2, Zenon DEF Pair
<1>15. ASSUME NEW p \in Invocation, Count(p) PROVE Locals'
  <2>0. todo[p] \subseteq Place /\ UNCHANGED <<entry, linked, batch, next>>
    BY <1>1, <1>15 DEF Count, Locals
  <2>1. CASE Goto(p, "store") /\ UNCHANGED todo
    BY <1>3, <1>5, <2>0, <2>1 DEF scan
  <2>2. CASE UNCHANGED stage /\ \E x : todo' = [todo EXCEPT ![p] = @ \ {x}]
    <3>1. todo' \in [Invocation -> SUBSET Place]
      BY <1>1, <2>0, <2>2 DEF Locals
    <3> QED
      BY <1>1, <2>0, <2>2, <3>1 DEF Locals
  <2> QED
    BY <1>15, <2>1, <2>2 DEF Count
<1>16. ASSUME NEW p \in Invocation, StoreOffset(p) \/ StoreError(p) \/ Die(p) PROVE Locals'
  BY <1>1, <1>2, <1>16, LeaveTypes DEF StoreOffset, Stored, StoreError, Die
<1>17. ASSUME NEW p \in Invocation, DiskError(p) PROVE Locals'
  <2>1. CASE Exit(p)
    BY <1>2, <2>1
  <2>2. CASE Appended(p) /\ linked' = [linked EXCEPT ![p] = FALSE] /\ UNCHANGED scan
    <3>1. linked' \in [Invocation -> BOOLEAN]
      BY <1>1, <2>2 DEF Locals
    <3> QED
      BY <1>1, <2>2, <3>1, AppendedTypes
  <2> QED
    BY <1>17, <2>1, <2>2 DEF DiskError
<1>18. CASE Tick
  BY <1>4, <1>18 DEF Tick
<1>19. CASE UNCHANGED journalVars
  BY <1>4, <1>19 DEF journalVars, scan
<1> QED
  BY <1>6, <1>7, <1>8, <1>9, <1>10, <1>11, <1>12, <1>13, <1>14, <1>15, <1>16, <1>17, <1>18,
     <1>19 DEF JournalNext

(* Every step keeps the history and the clock, which only grow.            *)
LEMMA HistoryStep ==
  ASSUME Attributed, [JournalNext]_journalVars
  PROVE  /\ offset' \in Offset
         /\ now' \in 0 .. MaxTime /\ now' >= now
         /\ issued' \in Nat /\ issued' >= issued
         /\ counted' \in [Id -> Nat]
         /\ cut' \in Nat /\ cut' >= cut
<1>1. /\ offset \in Offset /\ now \in 0 .. MaxTime /\ issued \in Nat
      /\ counted \in [Id -> Nat] /\ cut \in Nat /\ Locals /\ MaxTime \in Nat
  BY BoundsAssumption DEF Attributed, JournalTypeOK, Locals
<1>2. ASSUME UNCHANGED <<offset, now, issued, counted, cut>>
      PROVE  /\ offset' \in Offset
             /\ now' \in 0 .. MaxTime /\ now' >= now
             /\ issued' \in Nat /\ issued' >= issued
             /\ counted' \in [Id -> Nat]
             /\ cut' \in Nat /\ cut' >= cut
  BY <1>1, <1>2
<1>3. ASSUME NEW p \in Invocation, NEW x \in Earliest(todo[p])
      PROVE  [counted EXCEPT ![x.entry.id] = @ + 1] \in [Id -> Nat]
  <2>1. x.entry.id \in Id
    BY <1>1 DEF Earliest, Locals, Place, Entry
  <2> QED
    BY <1>1, <2>1
<1>4. ASSUME NEW p \in Invocation, NEW s \in Session,
             NEW k \in {"failed", "fixed", "other"}, Begin(p, s, k)
      PROVE  /\ UNCHANGED <<offset, now, counted, cut>>
             /\ issued' \in Nat /\ issued' >= issued
  BY <1>1, <1>4 DEF Begin
<1>5. ASSUME NEW p \in Invocation,
             \/ Repair(p) \/ Open(p) \/ Write(p) \/ WriteTorn(p) \/ Cleanup(p)
             \/ Load(p) \/ Read(p) \/ Pair(p)
      PROVE  UNCHANGED <<offset, now, issued, counted, cut>>
  BY <1>5 DEF Repair, Open, Write, WriteTorn, Cleanup, Load, Read, Pair
<1>6. ASSUME NEW p \in Invocation, Count(p)
      PROVE  counted' \in [Id -> Nat] /\ UNCHANGED <<offset, now, issued, cut>>
  BY <1>1, <1>3, <1>6 DEF Count
<1>7. ASSUME NEW p \in Invocation, StoreOffset(p)
      PROVE  offset' \in Offset /\ UNCHANGED <<now, issued, counted, cut>>
  BY <1>1, <1>7 DEF StoreOffset, Stored, Locals
<1>8. ASSUME NEW p \in Invocation, StoreError(p)
      PROVE  /\ counted' \in [Id -> Nat] /\ UNCHANGED <<offset, now, issued>>
             /\ cut' = cut + 1
  BY <1>1, <1>3, <1>8 DEF StoreError
<1>9. ASSUME NEW p \in Invocation, DiskError(p) \/ Die(p)
      PROVE  /\ UNCHANGED <<offset, now, issued, counted>>
             /\ cut' = cut \/ cut' = cut + 1
  BY <1>1, <1>9 DEF DiskError, Die, CutShort
<1>10. CASE Tick
  BY <1>1, <1>10 DEF Tick
<1>11. CASE UNCHANGED journalVars
  BY <1>2, <1>11 DEF journalVars
<1>12. CASE \E p \in Invocation, s \in Session, k \in {"failed", "fixed", "other"} :
              Begin(p, s, k)
  BY <1>1, <1>4, <1>12
<1>13. CASE \E p \in Invocation :
              \/ Repair(p) \/ Open(p) \/ Write(p) \/ WriteTorn(p) \/ Cleanup(p)
              \/ Load(p) \/ Read(p) \/ Pair(p)
  BY <1>2, <1>5, <1>13
<1>14. CASE \E p \in Invocation :
              Count(p) \/ StoreOffset(p) \/ StoreError(p) \/ DiskError(p) \/ Die(p)
  BY <1>1, <1>6, <1>7, <1>8, <1>9, <1>14
<1> QED
  BY <1>10, <1>11, <1>12, <1>13, <1>14 DEF JournalNext

(* What is remembered of passes that met.                                  *)
LEMMA MeetingStep ==
  ASSUME Attributed, [JournalNext]_journalVars
  PROVE  /\ stale' \in SUBSET Invocation /\ overtaken' \in Nat
         /\ together' \in BOOLEAN /\ (together => together')
<1>1. /\ stale \in SUBSET Invocation /\ overtaken \in Nat /\ together \in BOOLEAN
  BY DEF Attributed, JournalTypeOK
<1>2. ASSUME NEW p \in Invocation, Exit(p) PROVE stale' \in SUBSET Invocation
  BY <1>1, <1>2 DEF Exit
<1>3. ASSUME NEW p \in Invocation, NEW s \in Session,
             NEW k \in {"failed", "fixed", "other"}, Begin(p, s, k)
      PROVE  /\ UNCHANGED <<stale, overtaken>>
             /\ together' \in BOOLEAN /\ (together => together')
  <2>1. together' = (together \/ \E q \in Invocation : stage[q] # "idle")
        /\ UNCHANGED <<stale, overtaken>>
    BY <1>3 DEF Begin
  <2> QED
    BY <2>1, Zenon
<1>4. ASSUME NEW p \in Invocation, Repair(p) \/ Open(p) \/ Write(p) \/ Cleanup(p) \/ Count(p)
      PROVE  UNCHANGED meeting
  BY <1>4 DEF Repair, Open, Write, Cleanup, Count
<1>5. ASSUME NEW p \in Invocation,
             \/ WriteTorn(p) \/ Load(p) \/ Read(p) \/ Pair(p) \/ StoreError(p)
             \/ DiskError(p) \/ Die(p)
      PROVE  UNCHANGED <<overtaken, together>> /\ (UNCHANGED stale \/ Exit(p))
  BY <1>5 DEF WriteTorn, Load, Read, Pair, StoreError, DiskError, Die
<1>6. ASSUME NEW p \in Invocation, StoreOffset(p)
      PROVE  /\ stale' \in SUBSET Invocation /\ overtaken' \in Nat /\ UNCHANGED together
  <2>1. /\ overtaken' = overtaken + IF p \in stale THEN 1 ELSE 0
        /\ stale' = {q \in Invocation \ {p} :
                       q \in stale \/ stage[q] \in {"read", "pair", "count", "store"}}
        /\ UNCHANGED together
    BY <1>6 DEF StoreOffset, Stored
  <2>2. overtaken' \in Nat
    BY <1>1, <2>1
  <2>3. stale' \in SUBSET Invocation
    BY <2>1
  <2> QED
    BY <2>1, <2>2, <2>3
<1>7. CASE Tick \/ UNCHANGED journalVars
  BY <1>1, <1>7 DEF Tick, journalVars, meeting
<1>8. CASE \E p \in Invocation, s \in Session, k \in {"failed", "fixed", "other"} :
             Begin(p, s, k)
  BY <1>1, <1>3, <1>8, Zenon
<1>9. CASE \E p \in Invocation :
             Repair(p) \/ Open(p) \/ Write(p) \/ Cleanup(p) \/ Count(p)
  BY <1>1, <1>4, <1>9 DEF meeting
<1>10. CASE \E p \in Invocation :
              \/ WriteTorn(p) \/ Load(p) \/ Read(p) \/ Pair(p) \/ StoreError(p)
              \/ DiskError(p) \/ Die(p)
  BY <1>1, <1>2, <1>5, <1>10
<1>11. CASE \E p \in Invocation : StoreOffset(p)
  BY <1>1, <1>6, <1>11
<1> QED
  BY <1>7, <1>8, <1>9, <1>10, <1>11 DEF JournalNext

(* The steps that write to the journal, and what each does to the file.    *)
LEMMA JournalStep ==
  ASSUME Attributed, [JournalNext]_journalVars
  PROVE  /\ Lines(journal')
         /\ \/ UNCHANGED journal
            \/ \E p \in Invocation :
                 \/ Repair(p) \/ Open(p) \/ Cleanup(p)
                 \/ Write(p) /\ linked[p] /\ DayOf(p) \in Segments
                    /\ journal' = [journal EXCEPT ![DayOf(p)] = Added(DayOf(p), entry[p])]
                 \/ WriteTorn(p) /\ DayOf(p) \in Segments
                    /\ journal' = [journal EXCEPT ![DayOf(p)] = Added(DayOf(p), Torn)]
<1>1. Lines(journal)
  BY DEF Attributed, JournalTypeOK, Lines
<1>2. ASSUME NEW p \in Invocation, Repair(p) \/ Open(p) \/ Cleanup(p)
      PROVE  Lines(journal')
  BY <1>1, <1>2, RepairLines, OpenLines, CleanupLines
<1>3. ASSUME NEW p \in Invocation, Write(p), linked[p]
      PROVE  /\ Lines(journal') /\ DayOf(p) \in Segments
             /\ journal' = [journal EXCEPT ![DayOf(p)] = Added(DayOf(p), entry[p])]
  <2>1. stage[p] = "write" /\ entry[p] \in Entry
    BY <1>3, DayOfTypes DEF Write
  <2>2. DayOf(p) \in Segments
    BY <1>3, <2>1 DEF Attributed, Linked
  <2>3. journal' = [journal EXCEPT ![DayOf(p)] = Added(DayOf(p), entry[p])]
    BY <1>3 DEF Write
  <2> QED
    BY <2>1, <2>2, <2>3, AddedLines
<1>4. ASSUME NEW p \in Invocation, Write(p), ~ linked[p]
      PROVE  UNCHANGED journal
  BY <1>4 DEF Write
<1>5. ASSUME NEW p \in Invocation, WriteTorn(p)
      PROVE  /\ Lines(journal') /\ DayOf(p) \in Segments
             /\ journal' = [journal EXCEPT ![DayOf(p)] = Added(DayOf(p), Torn)]
  <2>1. DayOf(p) \in Segments
    BY <1>5 DEF WriteTorn, Attributed, Linked
  <2>2. journal' = [journal EXCEPT ![DayOf(p)] = Added(DayOf(p), Torn)]
    BY <1>5 DEF WriteTorn
  <2> QED
    BY <2>1, <2>2, AddedLines
<1>6. ASSUME NEW p \in Invocation,
             \/ \E s \in Session, k \in {"failed", "fixed", "other"} : Begin(p, s, k)
             \/ Load(p) \/ Read(p) \/ Pair(p) \/ Count(p) \/ StoreOffset(p)
             \/ StoreError(p) \/ DiskError(p) \/ Die(p)
      PROVE  UNCHANGED journal
  BY <1>6 DEF Begin, Load, Read, Pair, Count, StoreOffset, Stored, StoreError, DiskError, Die
<1>7. CASE Tick \/ UNCHANGED journalVars
  BY <1>1, <1>7 DEF Tick, journalVars
<1>8. CASE \E p \in Invocation : Repair(p) \/ Open(p) \/ Cleanup(p)
  BY <1>2, <1>8
<1>9. CASE \E p \in Invocation : Write(p)
  <2>1. PICK p \in Invocation : Write(p)
    BY <1>9
  <2>2. CASE linked[p]
    BY <1>3, <2>1, <2>2
  <2>3. CASE ~ linked[p]
    BY <1>1, <1>4, <2>1, <2>3
  <2> QED
    BY <2>2, <2>3
<1>10. CASE \E p \in Invocation : WriteTorn(p)
  BY <1>5, <1>10
<1>11. CASE \E p \in Invocation :
             \/ \E s \in Session, k \in {"failed", "fixed", "other"} : Begin(p, s, k)
             \/ Load(p) \/ Read(p) \/ Pair(p) \/ Count(p) \/ StoreOffset(p)
             \/ StoreError(p) \/ DiskError(p) \/ Die(p)
  BY <1>1, <1>6, <1>11
<1> QED
  BY <1>7, <1>8, <1>9, <1>10, <1>11 DEF JournalNext

(* How a process moves: it begins, ends, or goes on with its entry, and it *)
(* comes to its write by opening the file.                                 *)
Moved(q) ==
  \/ stage'[q] \in {"idle", "load"}
  \/ \E s \in Session, k \in {"failed", "fixed", "other"} : Begin(q, s, k)
  \/ stage[q] \in {"load", "read", "pair", "count", "store"}
     /\ stage'[q] \in {"load", "read", "pair", "count", "store"}
  \/ /\ stage[q] \in {"repair", "open", "write", "cleanup"} /\ entry'[q] = entry[q]
     /\ stage'[q] = "write" => Open(q) \/ (stage[q] = "write" /\ (linked'[q] => linked[q]))

(* Every step moves every process like that.                               *)
LEMMA StageStep ==
  ASSUME Attributed, [JournalNext]_journalVars, NEW q \in Invocation
  PROVE  Moved(q)
<1>1. Locals
  BY DEF Attributed, JournalTypeOK, Locals
<1>2. ASSUME stage'[q] = stage[q], entry'[q] = entry[q], linked'[q] => linked[q]
      PROVE  Moved(q)
  <2>1. stage[q] \in Stage
    BY <1>1 DEF Locals
  <2> QED
    BY <1>2, <2>1 DEF Moved, Stage
<1>3. ASSUME UNCHANGED <<stage, entry, linked>> PROVE Moved(q)
  BY <1>2, <1>3
<1>4. ASSUME NEW p \in Invocation, Leave(p) PROVE Moved(q)
  <2>1. CASE p = q
    BY <1>1, <1>4, <2>1, LeaveTypes DEF Moved
  <2>2. CASE p # q
    BY <1>1, <1>2, <1>4, <2>2, LeaveTypes
  <2> QED
    BY <2>1, <2>2
<1>5. ASSUME NEW p \in Invocation, Appended(p), \A r \in Invocation : linked'[r] => linked[r]
      PROVE  Moved(q)
  <2>1. "load" \in Stage
    BY DEF Stage
  <2>2. stage'[p] = "load" /\ (p # q => stage'[q] = stage[q] /\ entry'[q] = entry[q])
    BY <1>1, <1>5, <2>1, GotoTypes DEF Appended, Locals
  <2>3. CASE p = q
    BY <2>2, <2>3 DEF Moved
  <2>4. CASE p # q
    BY <1>2, <1>5, <2>2, <2>4
  <2> QED
    BY <2>3, <2>4
<1>6. {"open", "cleanup", "load", "read", "pair", "count", "store", "repair", "write"}
        \subseteq Stage
  BY DEF Stage
<1>7. ASSUME NEW p \in Invocation, NEW s \in Session,
             NEW k \in {"failed", "fixed", "other"}, Begin(p, s, k)
      PROVE  Moved(q)
  <2>1. CASE p = q
    BY <1>7, <2>1 DEF Moved
  <2>2. CASE p # q
    <3>1. stage'[q] = stage[q]
      BY <1>1, <1>6, <1>7, <2>2, GotoTypes DEF Begin
    <3>2. entry'[q] = entry[q] /\ linked' = linked
      BY <1>1, <1>7, <2>2 DEF Begin, Locals
    <3> QED
      BY <1>2, <3>1, <3>2
  <2> QED
    BY <2>1, <2>2
<1>8. ASSUME NEW p \in Invocation, Repair(p) \/ Write(p) PROVE Moved(q)
  <2>1. UNCHANGED <<entry, linked>> /\ stage[p] \in {"repair", "write"}
    BY <1>8 DEF Repair, Write
  <2>2. stage'[p] \in {"open", "cleanup"} /\ (p # q => stage'[q] = stage[q])
    BY <1>1, <1>6, <1>8, GotoTypes DEF Repair, Write
  <2>3. CASE p = q
    BY <2>1, <2>2, <2>3 DEF Moved
  <2>4. CASE p # q
    BY <1>2, <2>1, <2>2, <2>4
  <2> QED
    BY <2>3, <2>4
<1>9. ASSUME NEW p \in Invocation, Open(p) PROVE Moved(q)
  <2>1. entry' = entry /\ stage[p] = "open"
    BY <1>9 DEF Open
  <2>2. CASE p = q
    BY <1>9, <2>1, <2>2 DEF Moved
  <2>3. CASE p # q
    <3>1. stage'[q] = stage[q]
      BY <1>1, <1>6, <1>9, <2>3, GotoTypes DEF Open
    <3>2. linked'[q] = linked[q]
      BY <1>1, <1>9, <2>3 DEF Open, Locals
    <3> QED
      BY <1>2, <2>1, <3>1, <3>2
  <2> QED
    BY <2>2, <2>3
<1>10. ASSUME NEW p \in Invocation, Appended(p), linked' = [linked EXCEPT ![p] = FALSE]
       PROVE  Moved(q)
  <2>1. \A r \in Invocation : linked'[r] => linked[r]
    BY <1>1, <1>10 DEF Locals
  <2> QED
    BY <1>5, <1>10, <2>1
<1>11. ASSUME NEW p \in Invocation, Cleanup(p) PROVE Moved(q)
  <2>1. Appended(p) /\ \A r \in Invocation : linked'[r] => linked[r]
    BY <1>11 DEF Cleanup
  <2> QED
    BY <1>5, <2>1
<1>12. ASSUME NEW p \in Invocation, Load(p) \/ Read(p) \/ Pair(p), ~ Exit(p) PROVE Moved(q)
  <2>1. UNCHANGED <<entry, linked>> /\ stage[p] \in {"load", "read", "pair"}
        /\ (Goto(p, "read") \/ Goto(p, "pair") \/ Goto(p, "count"))
    BY <1>12 DEF Load, Read, Pair
  <2>2. stage'[p] \in {"read", "pair", "count"} /\ (p # q => stage'[q] = stage[q])
    BY <1>1, <1>6, <2>1, GotoTypes
  <2>3. CASE p = q
    BY <2>1, <2>2, <2>3 DEF Moved
  <2>4. CASE p # q
    BY <1>2, <2>1, <2>2, <2>4
  <2> QED
    BY <2>3, <2>4
<1>13. ASSUME NEW p \in Invocation, Count(p) PROVE Moved(q)
  <2>1. stage[p] = "count" /\ UNCHANGED <<entry, linked>>
        /\ (Goto(p, "store") \/ UNCHANGED stage)
    BY <1>13 DEF Count
  <2>2. CASE Goto(p, "store")
    <3>1. stage'[p] = "store" /\ (p # q => stage'[q] = stage[q])
      BY <1>1, <1>6, <2>2, GotoTypes
    <3>2. CASE p = q
      BY <2>1, <3>1, <3>2 DEF Moved
    <3>3. CASE p # q
      BY <1>2, <2>1, <3>1, <3>3
    <3> QED
      BY <3>2, <3>3
  <2> QED
    BY <1>3, <2>1, <2>2
<1>14. ASSUME NEW p \in Invocation, StoreOffset(p) \/ StoreError(p) \/ Die(p) \/ Exit(p)
       PROVE  Moved(q)
  BY <1>4, <1>14 DEF StoreOffset, Stored, StoreError, Die, Exit
<1>15. ASSUME NEW p \in Invocation, DiskError(p) \/ WriteTorn(p) PROVE Moved(q)
  BY <1>10, <1>14, <1>15 DEF DiskError, WriteTorn
<1>16. CASE Tick \/ UNCHANGED journalVars
  BY <1>3, <1>16 DEF Tick, journalVars
<1> QED
  BY <1>7, <1>8, <1>9, <1>11, <1>12, <1>13, <1>14, <1>15, <1>16 DEF JournalNext

(* Types, the entry a process carries, and the file it has linked: for any *)
(* number of processes.                                                    *)
LEMMA AttributedStep == Attributed /\ [JournalNext]_journalVars => Attributed'
<1> SUFFICES ASSUME Attributed, [JournalNext]_journalVars PROVE Attributed'
  OBVIOUS
<1>1. Lines(journal) /\ Locals /\ now \in 0 .. MaxTime /\ issued \in Nat
  BY DEF Attributed, JournalTypeOK, Lines, Locals
<1>2. /\ offset' \in Offset /\ now' \in 0 .. MaxTime /\ now' >= now
      /\ issued' \in Nat /\ issued' >= issued
      /\ counted' \in [Id -> Nat] /\ cut' \in Nat /\ cut' >= cut
      /\ stale' \in SUBSET Invocation /\ overtaken' \in Nat /\ together' \in BOOLEAN
  BY HistoryStep, MeetingStep
<1>3. Lines(journal') /\ Locals'
  BY JournalStep, LocalsStep
<1>4. JournalTypeOK'
  BY <1>2, <1>3 DEF JournalTypeOK, Lines, Locals
<1>5. ASSUME NEW q \in Invocation, stage'[q] \in {"repair", "open", "write", "cleanup"}
      PROVE  entry'[q] \in Entry /\ entry'[q].at <= now' /\ entry'[q].id <= issued'
  <2>1. CASE \E s \in Session, k \in {"failed", "fixed", "other"} : Begin(q, s, k)
    <3>1. PICK s \in Session, k \in {"failed", "fixed", "other"} : Begin(q, s, k)
      BY <2>1
    <3>2. entry'[q] = [id |-> issued + 1, session |-> s, kind |-> k, at |-> now]
          /\ issued' = issued + 1 /\ now' = now /\ issued < MaxEntries
      BY <1>1, <3>1, IssuedLess DEF Begin, Locals
    <3>3. issued + 1 \in Id /\ now \in Nat
      BY <1>1, <3>2, BoundsAssumption DEF Id
    <3>4. entry'[q] \in Entry
      BY <3>2, <3>3 DEF Entry
    <3> QED
      BY <1>1, <3>2, <3>3, <3>4
  <2>2. CASE stage[q] \in {"repair", "open", "write", "cleanup"} /\ entry'[q] = entry[q]
    <3>1. entry[q] \in Entry /\ entry[q].at <= now /\ entry[q].id <= issued
      BY <2>2 DEF Attributed, Carried
    <3>2. entry[q].at \in Nat /\ entry[q].id \in Nat
      BY <3>1, BoundsAssumption DEF Entry, Id
    <3> QED
      BY <1>1, <1>2, <2>2, <3>1, <3>2
  <2> QED
    BY <1>5, <2>1, <2>2, StageStep DEF Moved
<1>6. ASSUME NEW q \in Invocation, stage'[q] = "write", linked'[q]
      PROVE  Day(entry'[q].at) \in Segments'
  <2>1. CASE Open(q)
    <3>1. entry' = entry
      BY <2>1 DEF Open
    <3> QED
      BY <2>1, <3>1, OpenLines DEF DayOf
  <2>2. CASE stage[q] = "write" /\ entry'[q] = entry[q] /\ linked[q]
    <3>1. DayOf(q) \in Segments /\ DayOf(q) = Day(entry'[q].at)
      BY <2>2 DEF Attributed, Linked, DayOf
    <3>2. CASE UNCHANGED journal
      BY <3>1, <3>2, WrittenIs
    <3>3. ASSUME NEW p \in Invocation, Repair(p) \/ Open(p) PROVE DayOf(q) \in Segments'
      BY <3>1, <3>3, RepairLines, OpenLines
    <3>4. ASSUME NEW p \in Invocation, Cleanup(p) PROVE DayOf(q) \in Segments'
      <4>1. linked'[q] => DayOf(q) \notin Deleted
        BY <2>2, <3>4 DEF Cleanup
      <4> QED
        BY <1>1, <1>6, <3>1, <3>4, <4>1, CleanupLines
    <3>5. ASSUME NEW p \in Invocation, DayOf(p) \in Segments, NEW v \in Entry \cup {Torn},
                 journal' = [journal EXCEPT ![DayOf(p)] = Added(DayOf(p), v)]
          PROVE  DayOf(q) \in Segments'
      BY <3>1, <3>5, AddedLines
    <3>6. ASSUME NEW p \in Invocation, Write(p) PROVE entry[p] \in Entry
      BY <3>6, DayOfTypes DEF Write
    <3> QED
      BY <3>1, <3>2, <3>3, <3>4, <3>5, <3>6, JournalStep
  <2>3. ~ \E s \in Session, k \in {"failed", "fixed", "other"} : Begin(q, s, k)
    <3>1. ASSUME NEW s \in Session, NEW k \in {"failed", "fixed", "other"}, Begin(q, s, k)
          PROVE  stage'[q] = "repair"
      BY <1>1, <3>1 DEF Begin, Goto, Locals
    <3> QED
      BY <1>6, <3>1
  <2> QED
    BY <1>6, <2>1, <2>2, <2>3, StageStep DEF Moved
<1>7. Linked'
  BY <1>6 DEF Linked, DayOf
<1> QED
  BY <1>4, <1>5, <1>7 DEF Attributed, Carried

(* An invocation that has not begun carries nothing.                       *)
LEMMA AttributedInit == JournalInit => Attributed
<1> SUFFICES ASSUME JournalInit PROVE Attributed
  OBVIOUS
<1>1. Start \in Offset /\ "idle" \in Stage
  BY DEF Start, Offset, Stage
<1>2. journal \in [Days -> Seq(Line) \cup {NoFile}] /\ \A d \in Days : journal[d] = NoFile
  BY DEF JournalInit
<1>3. /\ now = 0 /\ 0 \in 0 .. MaxTime /\ issued = 0 /\ counted \in [Id -> Nat] /\ cut = 0
      /\ overtaken = 0 /\ stale \in SUBSET Invocation /\ together = FALSE
  BY BoundsAssumption DEF JournalInit
<1>4. /\ stage = [p \in Invocation |-> "idle"] /\ linked \in [Invocation -> BOOLEAN]
      /\ entry \in [Invocation -> Entry \cup {NoEntry}]
      /\ batch \in [Invocation -> SUBSET Place] /\ todo \in [Invocation -> SUBSET Place]
      /\ next \in [Invocation -> Offset] /\ offset \in Offset
  BY <1>1 DEF JournalInit
<1>5. JournalTypeOK
  BY <1>1, <1>2, <1>3, <1>4 DEF JournalTypeOK
<1>6. Carried /\ Linked
  BY <1>4 DEF Carried, Linked
<1> QED
  BY <1>5, <1>6 DEF Attributed

(* So these hold in every state.                                           *)
LEMMA AlwaysAttributed == JournalSpec => []Attributed
BY AttributedInit, AttributedStep, PTL DEF JournalSpec

(* Type correctness: for any number of invocations at once, whatever dies  *)
(* or fails, each segment is a sequence of lines of which no other than    *)
(* the last is torn.                                                       *)
THEOREM JournalTypeCorrect == JournalSpec => []JournalTypeOK
BY AlwaysAttributed, PTL DEF Attributed

-----------------------------------------------------------------------------
(* Whose step it is.                                                       *)

(* The steps after which a process has nothing to write.                   *)
Closing(p) ==
  \/ Write(p) \/ WriteTorn(p) \/ Cleanup(p)
  \/ Load(p) \/ Read(p) \/ Pair(p) \/ Count(p) \/ StoreOffset(p)
  \/ StoreError(p) \/ DiskError(p) \/ Die(p)

Begins(p) == \E s \in Session, k \in {"failed", "fixed", "other"} : Begin(p, s, k)

Acts(p) == Begins(p) \/ Repair(p) \/ Open(p) \/ Closing(p)

Idles == Tick \/ UNCHANGED journalVars

(* A step is of the clock, or of a process.                                *)
LEMMA WhoseStep ==
  ASSUME [JournalNext]_journalVars
  PROVE  Idles \/ \E p \in Invocation : Acts(p)
<1>1. CASE Tick \/ UNCHANGED journalVars
  BY <1>1 DEF Idles
<1>2. CASE \E q \in Invocation :
       \/ \E s \in Session, k \in {"failed", "fixed", "other"} : Begin(q, s, k)
       \/ Repair(q) \/ Open(q) \/ Write(q) \/ WriteTorn(q) \/ Cleanup(q)
       \/ Load(q) \/ Read(q) \/ Pair(q) \/ Count(q) \/ StoreOffset(q)
       \/ StoreError(q) \/ DiskError(q) \/ Die(q)
  BY <1>2, Zenon DEF Begins, Closing, Acts
<1> QED
  BY <1>1, <1>2, Zenon DEF JournalNext

(* What the other processes hold stays as it is.                           *)
Same(q) ==
  /\ stage'[q] = stage[q] /\ entry'[q] = entry[q] /\ batch'[q] = batch[q]
  /\ next'[q] = next[q] /\ todo'[q] = todo[q]

LEMMA OthersStay ==
  ASSUME Attributed, NEW p \in Invocation, Acts(p), NEW q \in Invocation, q # p
  PROVE  Same(q)
<1>1. Locals
  BY DEF Attributed, JournalTypeOK, Locals
<1>2. ASSUME NEW s, Goto(p, s) PROVE stage'[q] = stage[q]
  BY <1>1, <1>2 DEF Goto, Locals
<1>3. ASSUME NEW s, Goto(p, s), UNCHANGED <<entry, scan>> PROVE Same(q)
  BY <1>2, <1>3 DEF Same, scan
<1>4. ASSUME Leave(p) PROVE Same(q)
  <2>1. stage'[q] = stage[q]
    BY <1>2, <1>4 DEF Leave
  <2> QED
    BY <1>1, <1>4, <2>1 DEF Leave, Locals, Same
<1>5. ASSUME Appended(p), UNCHANGED scan PROVE Same(q)
  <2>1. stage'[q] = stage[q] /\ entry'[q] = entry[q]
    BY <1>1, <1>2, <1>5 DEF Appended, Locals
  <2> QED
    BY <1>5, <2>1 DEF Same, scan
<1>6. CASE Begins(p)
  <2>1. PICK s \in Session, k \in {"failed", "fixed", "other"} : Begin(p, s, k)
    BY <1>6 DEF Begins
  <2>2. stage'[q] = stage[q] /\ entry'[q] = entry[q] /\ UNCHANGED scan
    BY <1>1, <1>2, <2>1 DEF Begin, Locals
  <2> QED
    BY <2>2 DEF Same, scan
<1>7. CASE Repair(p) \/ Open(p) \/ Write(p)
  BY <1>3, <1>7 DEF Repair, Open, Write
<1>8. CASE WriteTorn(p) \/ DiskError(p)
  BY <1>4, <1>5, <1>8 DEF WriteTorn, DiskError, Exit
<1>9. CASE Cleanup(p)
  BY <1>5, <1>9 DEF Cleanup
<1>10. CASE Load(p)
  <2>1. CASE /\ next' = [next EXCEPT ![p] = offset] /\ Goto(p, "read")
             /\ UNCHANGED <<entry, batch, todo>>
    BY <1>1, <1>2, <2>1 DEF Locals, Same
  <2> QED
    BY <1>4, <1>10, <2>1 DEF Load, Exit
<1>11. CASE Read(p)
  <2>1. CASE /\ batch' = [batch EXCEPT ![p] = EntriesFrom(next[p])]
             /\ next' = [next EXCEPT ![p] = EndFrom(next[p])]
             /\ Goto(p, "pair") /\ UNCHANGED <<entry, todo>>
    BY <1>1, <1>2, <2>1 DEF Locals, Same
  <2> QED
    BY <1>4, <1>11, <2>1, Zenon DEF Read, Exit
<1>12. CASE Pair(p)
  <2>1. CASE /\ todo' = [todo EXCEPT ![p] = Paired(batch[p])]
             /\ batch' = [batch EXCEPT ![p] = Paired(batch[p])]
             /\ Goto(p, "count") /\ UNCHANGED <<entry, next>>
    BY <1>1, <1>2, <2>1 DEF Locals, Same
  <2> QED
    BY <1>4, <1>12, <2>1, Zenon DEF Pair, Exit
<1>13. CASE Count(p)
  <2>1. stage'[q] = stage[q] /\ todo'[q] = todo[q]
    BY <1>1, <1>2, <1>13 DEF Count, Locals
  <2> QED
    BY <1>13, <2>1 DEF Count, Same
<1>14. CASE StoreOffset(p) \/ StoreError(p) \/ Die(p)
  BY <1>4, <1>14 DEF StoreOffset, Stored, StoreError, Die, Exit
<1> QED
  BY <1>6, <1>7, <1>8, <1>9, <1>10, <1>11, <1>12, <1>13, <1>14 DEF Acts, Closing

-----------------------------------------------------------------------------
(* One invocation at a time.                                               *)
(*                                                                         *)
(* Between the repair of a torn tail and the write, another process may    *)
(* tear the tail again or delete the segment, and a scan may store an      *)
(* offset that is behind another's: what follows holds until two           *)
(* invocations run at once.                                                *)

(* No other process is under way.                                          *)
Solo(p) == \A q \in Invocation : q # p => stage[q] = "idle" /\ stage'[q] = "idle"

(* Until two have run at once, one is under way at most.                   *)
Single ==
  together \/ \A p, q \in Invocation : stage[p] # "idle" /\ stage[q] # "idle" => p = q

(* A step that leaves it so is of the one that is under way.               *)
LEMMA SoloStep ==
  ASSUME Attributed, Single, [JournalNext]_journalVars, ~ together'
  PROVE  /\ ~ together
         /\ Idles \/ \E p \in Invocation : Acts(p) /\ Solo(p)
<1>1. ~ together
  BY MeetingStep
<1>2. ASSUME NEW p \in Invocation, Acts(p) PROVE Solo(p)
  <2>1. CASE Begins(p)
    <3>1. PICK s \in Session, k \in {"failed", "fixed", "other"} : Begin(p, s, k)
      BY <2>1 DEF Begins
    <3>2. together' = (together \/ \E q \in Invocation : stage[q] # "idle")
      BY <3>1 DEF Begin
    <3>3. \A q \in Invocation : stage[q] = "idle"
      BY <3>2, Zenon
    <3> QED
      BY <1>2, <3>3, OthersStay DEF Solo, Same
  <2>2. CASE ~ Begins(p)
    <3>1. stage[p] # "idle"
      BY <1>2, <2>2 DEF Acts, Closing, Repair, Open, Write, WriteTorn, Cleanup, Load, Read,
                        Pair, Count, StoreOffset, StoreError, DiskError, Die
    <3>2. \A q \in Invocation : q # p => stage[q] = "idle"
      BY <1>1, <3>1 DEF Single
    <3> QED
      BY <1>2, <3>2, OthersStay DEF Solo, Same
  <2> QED
    BY <2>1, <2>2
<1> QED
  BY <1>1, <1>2, WhoseStep

LEMMA SingleStep ==
  ASSUME Attributed, Single, [JournalNext]_journalVars
  PROVE  Single'
<1>1. CASE together'
  BY <1>1 DEF Single
<1>2. CASE ~ together'
  <2>1. CASE Idles
    BY <1>2, <2>1, SoloStep DEF Idles, Tick, journalVars, Single
  <2>2. ASSUME NEW p \in Invocation, Solo(p) PROVE Single'
    BY <2>2 DEF Solo, Single
  <2> QED
    BY <1>2, <2>1, <2>2, SoloStep
<1> QED
  BY <1>1, <1>2

(* Where a process is that has an entry to write.                          *)
Busy(p) == stage[p] \in {"repair", "open", "write"}

(* The tail is whole from the repair to the write, and the file is there.  *)
Ready ==
  \A p \in Invocation :
    /\ stage[p] \in {"open", "write"} => ~ TornIn(journal, DayOf(p))
    /\ stage[p] = "write" => linked[p]

(* No segment and no offset is of a later day than the next write.         *)
Dated ==
  /\ \A d \in Segments : d <= Day(now)
  /\ offset.day <= Day(now)
  /\ \A p \in Invocation :
       /\ Busy(p) => offset.day <= DayOf(p) /\ \A d \in Segments : d <= DayOf(p)
       /\ stage[p] \in {"pair", "count", "store"} => next[p].day <= Day(now)

(* An offset lies within the complete lines, or behind it is a newer       *)
(* segment: what is written next is past it.                               *)
Anchored(j, off) ==
  \/ off.day = -1
  \/ off.day \in SegmentsIn(j) /\ off.line <= Upto(j, off.day)
  \/ \E e \in SegmentsIn(j) : e > off.day

(* Every entry has a number of its own, and what is not written yet was    *)
(* never counted.                                                          *)
Numbered ==
  /\ \A x \in Written : x.entry.id <= issued
  /\ \A x, y \in Written : x.entry.id = y.entry.id => x = y
  /\ \A i \in Id : i > issued => counted[i] = 0
  /\ \A p \in Invocation : Busy(p) =>
       /\ \A x \in Written : x.entry.id # entry[p].id
       /\ counted[entry[p].id] = 0

(* A failure that no use of the command follows, too old to be corrected.  *)
Lapsed(x, t) == t - x.entry.at > Window
Alone(es, x) == x.entry.kind = "failed" /\ After(es, x) = {}

(* What a scan has read, and what of it is done.                           *)
Reading ==
  \A p \in Invocation :
    /\ stage[p] = "read" => next[p] = offset
    /\ stage[p] = "pair" => batch[p] = {x \in Written : Past(x, offset)}
    /\ stage[p] \in {"pair", "count", "store"} =>
         Anchored(journal, next[p]) /\ \A x \in Written : ~ Past(x, next[p])
    /\ stage[p] \in {"count", "store"} =>
         /\ \A x \in todo[p] : x \in Written /\ Past(x, offset)
         /\ \A x \in Written : Past(x, offset) =>
              /\ Pairs(Written, x) => x \in todo[p] \/ counted[x.entry.id] > 0
              /\ Alone(Written, x) => Lapsed(x, now)
    /\ stage[p] = "store" => todo[p] = {}

(* Of what lies before the offset, a failure that pairs was counted, and   *)
(* one that nothing follows can never be corrected any more.               *)
Settled ==
  \A x \in Written : ~ Past(x, offset) =>
    /\ Pairs(Written, x) => counted[x.entry.id] > 0
    /\ Alone(Written, x) =>
         /\ Lapsed(x, now)
         /\ \A p \in Invocation : Busy(p) => Lapsed(x, entry[p].at)

Ledger ==
  /\ Dated /\ Anchored(journal, offset) /\ Numbered /\ Reading /\ Settled

-----------------------------------------------------------------------------
(* How pairing depends on the journal. *)

(* What follows a place is of no earlier day, and past the same offsets.   *)
LEMMA PlacesInOrder ==
  ASSUME NEW x \in Place, NEW y \in Place, Precedes(x, y)
  PROVE  /\ x.day <= y.day
         /\ \A off \in Offset : Past(x, off) => Past(y, off)
<1>1. /\ x.day \in Int /\ x.line \in Int /\ y.day \in Int /\ y.line \in Int
      /\ \A off \in Offset : off.day \in Int /\ off.line \in Int
  BY DaysInOrder, BoundsAssumption DEF Place, Days, Offset
<1> QED
  BY <1>1 DEF Precedes, Past

(* Pairing looks only at what follows.                                     *)
LEMMA SamePairs ==
  ASSUME NEW es, NEW fs, NEW x, After(es, x) = After(fs, x)
  PROVE  (Pairs(es, x) <=> Pairs(fs, x)) /\ (Alone(es, x) <=> Alone(fs, x))
BY DEF Pairs, Alone

(* What a scan reads past its offset pairs like the journal.               *)
LEMMA TailPairs ==
  ASSUME NEW es \in SUBSET Place, NEW off \in Offset,
         NEW x \in {y \in es : Past(y, off)}
  PROVE  /\ Pairs({y \in es : Past(y, off)}, x) <=> Pairs(es, x)
         /\ Alone({y \in es : Past(y, off)}, x) <=> Alone(es, x)
<1>1. \A y \in es : Precedes(x, y) => Past(y, off)
  BY PlacesInOrder
<1>2. After({y \in es : Past(y, off)}, x) = After(es, x)
  BY <1>1 DEF After
<1> QED
  BY <1>2, SamePairs

(* The deletion of the oldest days leaves what follows the rest.           *)
LEMMA OldestPairs ==
  ASSUME NEW es \in SUBSET Place, NEW old,
         \A d \in old : \A y \in es : y.day <= d => y.day \in old,
         NEW x \in {y \in es : y.day \notin old}
  PROVE  /\ Pairs({y \in es : y.day \notin old}, x) <=> Pairs(es, x)
         /\ Alone({y \in es : y.day \notin old}, x) <=> Alone(es, x)
<1>1. \A y \in es : Precedes(x, y) => y.day \notin old
  BY PlacesInOrder
<1>2. After({y \in es : y.day \notin old}, x) = After(es, x)
  BY <1>1 DEF After
<1> QED
  BY <1>2, SamePairs

(* A new last entry can pair only a failure that nothing followed.         *)
LEMMA LastPairs ==
  ASSUME NEW es \in SUBSET Place, NEW y \in Place, \A z \in es : Precedes(z, y),
         NEW x \in es
  PROVE  /\ Pairs(es \cup {y}, x) =>
              Pairs(es, x) \/ (Alone(es, x) /\ Fixes(y, x))
         /\ Alone(es \cup {y}, x) => Alone(es, x)
<1>1. After(es, x) \subseteq After(es \cup {y}, x)
      /\ After(es \cup {y}, x) \subseteq After(es, x) \cup {y}
  BY DEF After
<1>2. Alone(es \cup {y}, x) => Alone(es, x)
  BY <1>1 DEF Alone
<1>3. ASSUME Pairs(es \cup {y}, x), ~ Alone(es, x) PROVE Pairs(es, x)
  <2>1. x.entry.kind = "failed"
        /\ \E w \in Earliest(After(es \cup {y}, x)) : Fixes(w, x)
    BY <1>3 DEF Pairs
  <2>2. PICK w \in Earliest(After(es \cup {y}, x)) : Fixes(w, x)
    BY <2>1
  <2>3. PICK z \in After(es, x) : TRUE
    BY <1>3, <2>1 DEF Alone
  <2>4. Precedes(z, y) /\ z \in After(es \cup {y}, x)
    BY <1>1, <2>3 DEF After
  <2>5. w # y
    BY <2>2, <2>4 DEF Earliest
  <2>6. w \in Earliest(After(es, x))
    BY <1>1, <2>2, <2>5 DEF Earliest
  <2> QED
    BY <2>1, <2>2, <2>6 DEF Pairs
<1>4. ASSUME Pairs(es \cup {y}, x), Alone(es, x) PROVE Fixes(y, x)
  <2>1. PICK w \in Earliest(After(es \cup {y}, x)) : Fixes(w, x)
    BY <1>4 DEF Pairs
  <2>2. w = y
    BY <1>1, <1>4, <2>1 DEF Earliest, Alone
  <2> QED
    BY <2>1, <2>2
<1> QED
  BY <1>2, <1>3, <1>4

-----------------------------------------------------------------------------
(* How an offset stands to the journal. *)

(* A journal that grows leaves every offset its anchor.                    *)
LEMMA AnchorExtended ==
  ASSUME NEW j, NEW k, Lines(j), Lines(k), Extends(k, j),
         NEW off \in Offset, Anchored(j, off)
  PROVE  Anchored(k, off)
<1>1. CASE off.day \in SegmentsIn(j) /\ off.line <= Upto(j, off.day)
  <2>1. /\ off.day \in SegmentsIn(k) /\ Upto(k, off.day) >= Upto(j, off.day)
        /\ Upto(k, off.day) \in Int /\ Upto(j, off.day) \in Int /\ off.line \in Int
    BY <1>1, UptoIs DEF Extends, Offset
  <2> QED
    BY <1>1, <2>1 DEF Anchored
<1>2. CASE off.day = -1 \/ \E e \in SegmentsIn(j) : e > off.day
  BY <1>2 DEF Anchored, Extends
<1> QED
  BY <1>1, <1>2 DEF Anchored

(* So does the deletion of the oldest segments.                            *)
LEMMA AnchorCleaned ==
  ASSUME Lines(journal), NEW p \in Invocation, Cleanup(p),
         NEW off \in Offset, Anchored(journal, off)
  PROVE  Anchored(journal', off)
<1>1. /\ SegmentsIn(journal') = SegmentsIn(journal) \ Deleted
      /\ \A d \in SegmentsIn(journal') : Upto(journal', d) = Upto(journal, d)
  BY CleanupLines, WrittenIs
<1>2. off.day \in Int /\ Segments = SegmentsIn(journal)
  BY DaysInOrder, BoundsAssumption, WrittenIs DEF Offset, Days
<1>3. CASE \E e \in SegmentsIn(journal) : e > off.day
  BY <1>1, <1>2, <1>3, DeletedAre DEF Anchored
<1>4. CASE off.day \in SegmentsIn(journal) /\ off.line <= Upto(journal, off.day)
  <2>1. CASE off.day \in Deleted
    <3>1. \E e \in SegmentsIn(journal) : e > off.day
      BY <1>2, <2>1 DEF Deleted
    <3> QED
      BY <1>3, <3>1
  <2>2. CASE off.day \notin Deleted
    BY <1>1, <1>4, <2>2 DEF Anchored
  <2> QED
    BY <2>1, <2>2
<1> QED
  BY <1>3, <1>4 DEF Anchored

(* What is written at the end of the newest day is past every anchored     *)
(* offset, and behind everything written before.                           *)
LEMMA PlaceIsPast ==
  ASSUME Lines(journal), NEW d \in SegmentsIn(journal), NEW v \in Entry,
         \A e \in SegmentsIn(journal) : e <= d,
         NEW off \in Offset, Anchored(journal, off), off.day <= d
  PROVE  LET y == [day |-> d, line |-> Upto(journal, d) + 1, entry |-> v] IN
         /\ y \in Place /\ Past(y, off)
         /\ \A x \in PlacesIn(journal) : Precedes(x, y)
<1> DEFINE y == [day |-> d, line |-> Upto(journal, d) + 1, entry |-> v]
<1>1. d \in Days /\ Days \subseteq Nat /\ Upto(journal, d) \in Nat
  <2>1. d \in Days /\ Days \subseteq Nat
    BY DaysInOrder, BoundsAssumption DEF SegmentsIn, Days
  <2> QED
    BY <2>1, UptoIs
<1>2. y \in Place /\ y.day = d /\ y.line = Upto(journal, d) + 1
  BY <1>1 DEF Place
<1> HIDE DEF y
<1>3. off.day \in Int /\ off.line \in Nat
  BY DaysInOrder, BoundsAssumption DEF Offset, Days
<1>4. Past(y, off)
  <2>1. CASE off.day < d
    BY <1>1, <1>2, <1>3, <2>1 DEF Past
  <2>2. CASE off.day = d
    <3>1. off.line <= Upto(journal, d)
      BY <1>1, <2>2 DEF Anchored, SegmentsIn
    <3> QED
      BY <1>1, <1>2, <1>3, <2>2, <3>1 DEF Past
  <2> QED
    BY <1>1, <1>3, <2>1, <2>2
<1>5. ASSUME NEW x \in PlacesIn(journal) PROVE Precedes(x, y)
  <2>1. x.day \in SegmentsIn(journal) /\ x.line \in DOMAIN journal[x.day]
        /\ journal[x.day][x.line] # Torn /\ x.line \in Nat
    BY MarksAssumption DEF PlacesIn, Place
  <2>2. x.line <= Upto(journal, x.day) /\ x.day <= d
    BY <2>1, UptoIs
  <2>3. x.day \in Nat
    BY <1>1, <2>1 DEF SegmentsIn
  <2> QED
    BY <1>1, <1>2, <2>1, <2>2, <2>3 DEF Precedes
<1> QED
  BY <1>2, <1>4, <1>5 DEF y

(* A scan leaves nothing behind it, and its end is anchored.               *)
LEMMA ScanEnds ==
  ASSUME Lines(journal), NEW off \in Offset, Anchored(journal, off)
  PROVE  /\ Anchored(journal, EndFrom(off))
         /\ \A x \in Written : ~ Past(x, EndFrom(off))
         /\ EndFrom(off).day = off.day \/ EndFrom(off).day \in Segments
<1>1. /\ Written = PlacesIn(journal) /\ Segments = SegmentsIn(journal)
      /\ Segments \subseteq Int /\ off.day \in Int
  BY WrittenIs, DaysInOrder, BoundsAssumption DEF Segments, Days, Offset
<1>2. ASSUME NEW x \in Written
      PROVE  /\ x.day \in Segments /\ x.line \in Nat
             /\ x.line <= Upto(journal, x.day) /\ Upto(journal, x.day) \in Nat
  <2>1. x.day \in SegmentsIn(journal) /\ x.line \in DOMAIN journal[x.day]
        /\ journal[x.day][x.line] # Torn /\ x.line \in Nat
    BY <1>1, MarksAssumption DEF PlacesIn, Place
  <2> QED
    BY <1>1, <2>1, UptoIs
<1>3. CASE (\A d \in Segments : d < off.day) /\ EndFrom(off) = off
  <2>1. \A x \in Written : ~ Past(x, off)
    BY <1>1, <1>2, <1>3 DEF Past
  <2> QED
    BY <1>3, <2>1
<1>4. ASSUME NEW d \in Segments, d >= off.day, \A e \in Segments : e <= d,
             EndFrom(off) = [day |-> d, line |-> Upto(journal, d)]
      PROVE  /\ Anchored(journal, EndFrom(off))
             /\ \A x \in Written : ~ Past(x, EndFrom(off))
             /\ EndFrom(off).day \in Segments
  <2>1. EndFrom(off).day = d /\ EndFrom(off).line = Upto(journal, d)
        /\ Upto(journal, d) \in Nat
    BY <1>1, <1>4, UptoIs
  <2>2. \A x \in Written : ~ Past(x, EndFrom(off))
    BY <1>1, <1>2, <1>4, <2>1 DEF Past
  <2>3. Anchored(journal, EndFrom(off))
    BY <1>1, <2>1 DEF Anchored
  <2> QED
    BY <2>1, <2>2, <2>3
<1> QED
  BY <1>3, <1>4, ScanTypes

-----------------------------------------------------------------------------
(* The append, one invocation at a time. *)

(* A process that is at one of the last stages, or ends, writes no more.   *)
LEMMA ClosingEnds ==
  ASSUME Attributed, NEW p \in Invocation, Closing(p)
  PROVE  stage'[p] \notin {"repair", "open", "write"}
<1>1. Locals
  BY DEF Attributed, JournalTypeOK, Locals
<1>2. ASSUME Leave(p) PROVE stage'[p] = "idle"
  BY <1>1, <1>2, LeaveTypes
<1>3. ASSUME NEW s \in {"cleanup", "load", "read", "pair", "count", "store"}, Goto(p, s)
      PROVE  stage'[p] = s
  BY <1>1, <1>3, GotoTypes DEF Stage
<1>4. \/ Leave(p)
      \/ \E s \in {"cleanup", "load", "read", "pair", "count", "store"} : Goto(p, s)
      \/ Count(p) /\ UNCHANGED stage
  BY DEF Closing, Write, WriteTorn, Cleanup, Load, Read, Pair, Count, StoreOffset,
         StoreError, DiskError, Die, Exit, Stored, Appended
<1>5. CASE Count(p) /\ UNCHANGED stage
  BY <1>5 DEF Count
<1> QED
  BY <1>2, <1>3, <1>4, <1>5

(* The first steps of a process.                                           *)
LEMMA OpeningSteps ==
  ASSUME Attributed, NEW p \in Invocation
  PROVE  /\ Begins(p) => /\ stage[p] = "idle" /\ stage'[p] = "repair"
                         /\ entry'[p].at = now /\ entry'[p].id = issued + 1
                         /\ issued' = issued + 1 /\ issued + 1 \in Id
                         /\ UNCHANGED <<journal, offset, now, counted, cut>>
         /\ Repair(p) => /\ stage[p] = "repair" /\ stage'[p] = "open"
                         /\ UNCHANGED <<offset, now, entry, issued, counted, cut>>
         /\ Open(p) => /\ stage[p] = "open" /\ stage'[p] = "write" /\ linked'[p] = TRUE
                       /\ UNCHANGED <<offset, now, entry, issued, counted, cut>>
<1>1. Locals
  BY DEF Attributed, JournalTypeOK, Locals
<1>2. {"repair", "open", "write"} \subseteq Stage
  BY DEF Stage
<1>3. ASSUME NEW s \in Session, NEW k \in {"failed", "fixed", "other"}, Begin(p, s, k)
      PROVE  /\ stage[p] = "idle" /\ stage'[p] = "repair"
             /\ entry'[p].at = now /\ entry'[p].id = issued + 1 /\ issued' = issued + 1
             /\ issued + 1 \in Id
             /\ UNCHANGED <<journal, offset, now, counted, cut>>
  <2>1. stage'[p] = "repair"
    BY <1>1, <1>2, <1>3, GotoTypes DEF Begin
  <2>2. entry'[p] = [id |-> issued + 1, session |-> s, kind |-> k, at |-> now]
    BY <1>1, <1>3 DEF Begin, Locals
  <2>3. issued + 1 \in Id
    BY <1>3, IssuedLess, BoundsAssumption DEF Id, Attributed, JournalTypeOK
  <2> QED
    BY <1>3, <2>1, <2>2, <2>3 DEF Begin
<1>4. ASSUME Repair(p)
      PROVE  /\ stage[p] = "repair" /\ stage'[p] = "open"
             /\ UNCHANGED <<offset, now, entry, issued, counted, cut>>
  BY <1>1, <1>2, <1>4, GotoTypes DEF Repair
<1>5. ASSUME Open(p)
      PROVE  /\ stage[p] = "open" /\ stage'[p] = "write" /\ linked'[p] = TRUE
             /\ UNCHANGED <<offset, now, entry, issued, counted, cut>>
  BY <1>1, <1>2, <1>5, GotoTypes DEF Open, Locals
<1> QED
  BY <1>3, <1>4, <1>5 DEF Begins

(* The tail is whole and the file there when a process writes.             *)
LEMMA ReadyStep ==
  ASSUME Attributed, Ready, NEW p \in Invocation, Solo(p), Acts(p)
  PROVE  Ready'
<1> SUFFICES /\ stage'[p] \in {"open", "write"} => ~ TornIn(journal', Day(entry'[p].at))
             /\ stage'[p] = "write" => linked'[p]
  BY DEF Ready, DayOf, Solo
<1>1. CASE Begins(p)
  BY <1>1, OpeningSteps
<1>2. CASE Repair(p)
  <2>1. stage'[p] = "open" /\ entry' = entry
    BY <1>2, OpeningSteps
  <2> QED
    BY <1>2, <2>1, RepairLines DEF DayOf
<1>3. CASE Open(p)
  <2>1. stage[p] = "open" /\ stage'[p] = "write" /\ entry' = entry /\ linked'[p]
    BY <1>3, OpeningSteps
  <2> QED
    BY <1>3, <2>1, OpenLines DEF DayOf, Ready
<1>4. CASE Closing(p)
  BY <1>4, ClosingEnds
<1> QED
  BY <1>1, <1>2, <1>3, <1>4 DEF Acts

(* What is written is readable.                                            *)
LEMMA WriteIsReadable ==
  ASSUME Attributed, Ready, [JournalNext]_journalVars, NEW p \in Invocation,
         stage[p] = "write", stage'[p] = "cleanup"
  PROVE  journal'[DayOf(p)] # NoFile /\ Last(journal'[DayOf(p)]) = entry[p]
<1>1. CASE Write(p)
  <2>1. linked[p] /\ ~ TornIn(journal, DayOf(p)) /\ entry[p] \in Entry
        /\ DayOf(p) \in Segments
    BY DayOfTypes DEF Ready, Attributed, Linked
  <2>2. journal' = [journal EXCEPT ![DayOf(p)] = Added(DayOf(p), entry[p])]
    BY <1>1, <2>1 DEF Write
  <2>3. PICK d \in Segments : d = DayOf(p)
    BY <2>1
  <2> QED
    BY <2>1, <2>2, <2>3, AddedLines
<1>2. CASE WriteTorn(p)
  <2>1. Locals
    BY DEF Attributed, JournalTypeOK, Locals
  <2>2. stage'[p] \in {"idle", "load"}
    BY <1>2, <2>1, ExitTypes, GotoTypes DEF WriteTorn, Appended, Stage
  <2> QED
    BY <2>2
<1>3. CASE Die(p)
  <2>1. Locals
    BY DEF Attributed, JournalTypeOK, Locals
  <2>2. stage'[p] = "idle"
    BY <1>3, <2>1, ExitTypes DEF Die
  <2> QED
    BY <2>2
<1>4. CASE Cleanup(p) \/ Load(p) \/ Read(p) \/ Pair(p) \/ Count(p) \/ StoreOffset(p)
           \/ StoreError(p) \/ DiskError(p)
  BY <1>4 DEF Cleanup, Load, Read, Pair, Count, StoreOffset, StoreError, DiskError
<1>5. CASE Idles
  BY <1>5 DEF Idles, Tick, journalVars
<1>6. ~ Begins(p) /\ ~ Repair(p) /\ ~ Open(p)
  BY OpeningSteps
<1>7. ~ \E q \in Invocation : q # p /\ Acts(q)
  BY OthersStay DEF Same
<1> QED
  BY <1>1, <1>2, <1>3, <1>4, <1>5, <1>6, <1>7, WhoseStep DEF Closing, Acts

(* What holds until two invocations run at once.                           *)
Untouched == Attributed /\ Single /\ (together \/ Ready)

LEMMA UntouchedStep == Untouched /\ [JournalNext]_journalVars => Untouched'
<1> SUFFICES ASSUME Untouched, [JournalNext]_journalVars PROVE Untouched'
  OBVIOUS
<1>1. Attributed' /\ Single'
  BY AttributedStep, SingleStep DEF Untouched
<1>2. ASSUME ~ together' PROVE Ready'
  <2>1. Attributed /\ Single /\ Ready
    BY <1>2, MeetingStep DEF Untouched
  <2>2. CASE Idles
    BY <2>1, <2>2 DEF Idles, Tick, journalVars, Ready, DayOf
  <2> QED
    BY <1>2, <2>1, <2>2, SoloStep, ReadyStep
<1> QED
  BY <1>1, <1>2 DEF Untouched

(* Until two invocations have run at once, an entry that is written is the *)
(* last line of its segment, whatever deaths and errors have left in the   *)
(* file (journal.go, repairTornTail).                                      *)
THEOREM AppendsAreReadable == JournalSpec => AppendIsReadable
<1> DEFINE Readable ==
      \A p \in Invocation : stage[p] = "write" /\ stage'[p] = "cleanup" /\ ~ together =>
        /\ journal'[DayOf(p)] # NoFile
        /\ Last(journal'[DayOf(p)]) = entry[p]
<1>1. JournalInit => Untouched
  BY AttributedInit DEF JournalInit, Ready, Single, Untouched
<1>2. Untouched /\ [JournalNext]_journalVars => Untouched'
  BY UntouchedStep
<1>3. Untouched /\ [JournalNext]_journalVars => [Readable]_journalVars
  BY WriteIsReadable DEF Untouched
<1> HIDE DEF Readable
<1>4. JournalSpec => [][Readable]_journalVars
  BY <1>1, <1>2, <1>3, PTL DEF JournalSpec
<1> QED
  BY <1>4 DEF AppendIsReadable, Readable

-----------------------------------------------------------------------------
(* The scan, step by step. *)

(* What is remembered of passes that met, when none stores its offset.     *)
Quiet(p) ==
  UNCHANGED overtaken /\ stale' = IF stage'[p] = "idle" THEN stale \ {p} ELSE stale

(* The entry goes to the journal, or a part of it, and the oldest          *)
(* segments go.                                                            *)
Appends(p) ==
  /\ Write(p) \/ WriteTorn(p) \/ Cleanup(p)
  /\ stage[p] \in {"write", "cleanup"} /\ stage'[p] \in {"idle", "cleanup", "load"}
  /\ UNCHANGED <<offset, now, issued, counted, cut>> /\ Quiet(p)

(* The offset is loaded.                                                   *)
Loads(p) ==
  /\ stage'[p] = "read" /\ next'[p] = offset
  /\ stage[p] \notin {"count", "store"}
  /\ UNCHANGED <<journal, offset, now, issued, counted, cut>> /\ Quiet(p)

(* The entries past it are read.                                           *)
Reads(p) ==
  /\ stage[p] = "read" /\ stage'[p] = "pair"
  /\ batch'[p] = EntriesFrom(next[p]) /\ next'[p] = EndFrom(next[p])
  /\ UNCHANGED <<journal, offset, now, issued, counted, cut>> /\ Quiet(p)

(* None of them is undecided, and those that pair are to be counted.       *)
Decides(p) ==
  /\ stage[p] = "pair" /\ stage'[p] = "count" /\ ~ Pending(batch[p])
  /\ todo'[p] = Paired(batch[p]) /\ batch'[p] = Paired(batch[p]) /\ next'[p] = next[p]
  /\ UNCHANGED <<journal, offset, now, issued, counted, cut>> /\ Quiet(p)

(* One of them is counted.                                                 *)
Counts(p) ==
  /\ stage[p] = "count" /\ stage'[p] = "count" /\ next'[p] = next[p]
  /\ \E x \in todo[p] : /\ counted' = [counted EXCEPT ![x.entry.id] = @ + 1]
                        /\ todo'[p] = todo[p] \ {x}
  /\ batch'[p] = batch[p]
  /\ UNCHANGED <<journal, offset, now, issued, cut>> /\ Quiet(p)

(* All of them are.                                                        *)
Finishes(p) ==
  /\ stage[p] = "count" /\ stage'[p] = "store" /\ next'[p] = next[p]
  /\ todo[p] = {} /\ todo'[p] = {} /\ batch'[p] = batch[p]
  /\ UNCHANGED <<journal, offset, now, issued, counted, cut>> /\ Quiet(p)

(* The offset is stored.                                                   *)
Stores(p) ==
  /\ stage[p] = "store" /\ stage'[p] = "idle"
  /\ offset' = next[p]
  /\ overtaken' = overtaken + IF p \in stale THEN 1 ELSE 0
  /\ stale' = {q \in Invocation \ {p} :
                 q \in stale \/ stage[q] \in {"read", "pair", "count", "store"}}
  /\ UNCHANGED <<journal, now, issued, counted, cut>>

(* The process stops with nothing counted...                               *)
Leaves(p) ==
  /\ stage[p] \notin {"count", "store"}
  /\ \/ stage'[p] = "idle"
     \/ stage[p] \in {"repair", "open", "cleanup"} /\ stage'[p] = "load"
  /\ UNCHANGED <<journal, offset, now, issued, counted, cut>> /\ Quiet(p)

(* ... or between its counting and the offset.                             *)
CutsShort(p) ==
  /\ stage[p] \in {"count", "store"} /\ stage'[p] = "idle" /\ cut' = cut + 1
  /\ \/ UNCHANGED counted
     \/ stage[p] = "count"
        /\ \E x \in todo[p] : counted' = [counted EXCEPT ![x.entry.id] = @ + 1]
  /\ UNCHANGED <<journal, offset, now, issued>> /\ Quiet(p)

(* These are all the closing steps there are.                              *)
LEMMA ClosingSteps ==
  ASSUME Attributed, NEW p \in Invocation, Closing(p)
  PROVE  \/ Appends(p) \/ Loads(p) \/ Reads(p) \/ Decides(p) \/ Counts(p) \/ Finishes(p)
         \/ Stores(p) \/ Leaves(p) \/ CutsShort(p)
<1>1. Locals /\ cut \in Nat
  BY DEF Attributed, JournalTypeOK, Locals
<1>2. ASSUME Exit(p), UNCHANGED overtaken PROVE stage'[p] = "idle" /\ Quiet(p)
  BY <1>1, <1>2, ExitTypes DEF Quiet
<1>3. ASSUME NEW s \in {"cleanup", "load", "read", "pair", "count", "store"}, Goto(p, s)
      PROVE  stage'[p] = s /\ (UNCHANGED <<stale, overtaken>> => Quiet(p))
  <2>1. stage'[p] = s
    BY <1>1, <1>3, GotoTypes DEF Stage
  <2> QED
    BY <2>1 DEF Quiet
<1>4. CASE Write(p)
  BY <1>3, <1>4 DEF Write, Appends, meeting
<1>5. CASE WriteTorn(p)
  BY <1>2, <1>3, <1>5 DEF WriteTorn, Appends, Appended
<1>6. CASE Cleanup(p)
  BY <1>3, <1>6 DEF Cleanup, Appends, Appended, meeting
<1>7. CASE Load(p)
  <2>1. CASE Exit(p)
    BY <1>2, <1>7, <2>1 DEF Load, Leaves
  <2>2. CASE next' = [next EXCEPT ![p] = offset] /\ Goto(p, "read") /\ UNCHANGED stale
    <3>1. next'[p] = offset /\ stage'[p] = "read"
      BY <1>1, <1>3, <2>2 DEF Locals
    <3> QED
      BY <1>3, <1>7, <2>2, <3>1 DEF Load, Loads
  <2> QED
    BY <1>7, <2>1, <2>2 DEF Load
<1>8. CASE Read(p)
  <2>1. /\ stage[p] = "read"
        /\ UNCHANGED <<journal, offset, now, issued, counted, cut, overtaken>>
    BY <1>8 DEF Read
  <2>2. CASE Exit(p)
    BY <1>2, <2>1, <2>2 DEF Leaves
  <2>3. CASE /\ batch' = [batch EXCEPT ![p] = EntriesFrom(next[p])]
             /\ next' = [next EXCEPT ![p] = EndFrom(next[p])]
             /\ Goto(p, "pair") /\ UNCHANGED stale
    <3>1. batch'[p] = EntriesFrom(next[p]) /\ next'[p] = EndFrom(next[p])
          /\ stage'[p] = "pair"
      BY <1>1, <1>3, <2>3 DEF Locals
    <3>2. Quiet(p)
      BY <1>3, <2>1, <2>3
    <3> QED
      BY <2>1, <3>1, <3>2 DEF Reads
  <2> QED
    BY <1>8, <2>2, <2>3, Zenon DEF Read
<1>9. CASE Pair(p)
  <2>1. /\ stage[p] = "pair"
        /\ UNCHANGED <<journal, offset, now, issued, counted, cut, overtaken>>
    BY <1>9 DEF Pair
  <2>2. CASE Exit(p)
    BY <1>2, <2>1, <2>2 DEF Leaves
  <2>3. CASE /\ ~ Pending(batch[p]) /\ todo' = [todo EXCEPT ![p] = Paired(batch[p])]
             /\ batch' = [batch EXCEPT ![p] = Paired(batch[p])]
             /\ Goto(p, "count") /\ UNCHANGED <<next, stale>>
    <3>1. todo'[p] = Paired(batch[p]) /\ batch'[p] = Paired(batch[p]) /\ stage'[p] = "count"
      BY <1>1, <1>3, <2>3 DEF Locals
    <3>2. Quiet(p)
      BY <1>3, <2>1, <2>3
    <3> QED
      BY <2>1, <2>3, <3>1, <3>2 DEF Decides
  <2> QED
    BY <1>9, <2>2, <2>3 DEF Pair
<1>10. CASE Count(p)
  <2>1. /\ stage[p] = "count" /\ UNCHANGED <<journal, offset, now, issued, cut>>
        /\ next' = next /\ batch' = batch /\ UNCHANGED <<stale, overtaken>>
    BY <1>10 DEF Count, meeting
  <2>2. CASE todo[p] = {} /\ Goto(p, "store") /\ UNCHANGED <<todo, counted>>
    BY <1>3, <2>1, <2>2 DEF Finishes
  <2>3. ASSUME NEW x \in Earliest(todo[p]),
               counted' = [counted EXCEPT ![x.entry.id] = @ + 1],
               todo' = [todo EXCEPT ![p] = @ \ {x}], UNCHANGED stage
        PROVE  Counts(p)
    <3>1. x \in todo[p] /\ todo'[p] = todo[p] \ {x}
      BY <1>1, <2>3 DEF Earliest, Locals
    <3>2. Quiet(p)
      BY <2>1, <2>3 DEF Quiet
    <3> QED
      BY <2>1, <2>3, <3>1, <3>2 DEF Counts
  <2> QED
    BY <1>10, <2>2, <2>3 DEF Count
<1>11. CASE StoreOffset(p)
  <2>1. stage'[p] = "idle"
    BY <1>1, <1>11, LeaveTypes DEF StoreOffset, Stored
  <2> QED
    BY <1>11, <2>1 DEF StoreOffset, Stored, Stores
<1>12. CASE StoreError(p)
  <2>1. /\ stage[p] = "count" /\ stage'[p] = "idle" /\ cut' = cut + 1
        /\ UNCHANGED <<journal, offset, now, issued>> /\ Quiet(p)
    BY <1>2, <1>12 DEF StoreError
  <2>2. \E x \in todo[p] :
          UNCHANGED counted \/ counted' = [counted EXCEPT ![x.entry.id] = @ + 1]
    BY <1>12 DEF StoreError, Earliest
  <2> QED
    BY <2>1, <2>2 DEF CutsShort
<1>13. CASE DiskError(p) \/ Die(p)
  <2>1. /\ UNCHANGED <<journal, offset, now, issued, counted, overtaken>>
        /\ cut' = cut + IF stage[p] \in {"count", "store"} THEN 1 ELSE 0
    BY <1>13 DEF DiskError, Die, CutShort
  <2>2. /\ \/ stage'[p] = "idle"
           \/ stage[p] \in {"repair", "open", "cleanup"} /\ stage'[p] = "load"
        /\ Quiet(p)
    BY <1>2, <1>3, <1>13, <2>1 DEF DiskError, Die, Appended
  <2>3. CASE stage[p] \in {"count", "store"}
    BY <2>1, <2>2, <2>3 DEF CutsShort
  <2>4. CASE stage[p] \notin {"count", "store"}
    BY <1>1, <2>1, <2>2, <2>4 DEF Leaves
  <2> QED
    BY <2>3, <2>4
<1> QED
  BY <1>4, <1>5, <1>6, <1>7, <1>8, <1>9, <1>10, <1>11, <1>12, <1>13 DEF Closing

(* The clock moves on, or nothing does.                                    *)
LEMMA IdleSteps ==
  ASSUME Attributed, Idles
  PROVE  /\ UNCHANGED <<journal, offset, stage, entry, linked, batch, next, todo, issued,
                        counted, cut>>
         /\ now \in Nat /\ now' \in Nat /\ now' >= now
<1>1. now \in 0 .. MaxTime
  BY DEF Attributed, JournalTypeOK
<1> QED
  BY <1>1, BoundsAssumption DEF Idles, Tick, scan, journalVars

(* What an append does to the journal, once the tail is whole.             *)
LEMMA AppendSteps ==
  ASSUME Attributed, Ready, NEW p \in Invocation, Appends(p)
  PROVE  /\ Lines(journal')
         /\ \/ /\ Written' = Written /\ Segments' = Segments /\ Extends(journal', journal)
            \/ /\ stage[p] = "write" /\ DayOf(p) \in Segments /\ entry[p] \in Entry
               /\ Written' = Written \cup {PlaceOf(p)}
               /\ Segments' = Segments /\ Extends(journal', journal)
            \/ Cleanup(p)
<1>1. Lines(journal)
  BY DEF Attributed, JournalTypeOK, Lines
<1>2. CASE Write(p)
  <2>1. stage[p] = "write" /\ linked[p] /\ ~ TornIn(journal, DayOf(p))
        /\ entry[p] \in Entry /\ DayOf(p) \in Segments
    BY <1>2, DayOfTypes DEF Write, Ready, Attributed, Linked
  <2>2. journal' = [journal EXCEPT ![DayOf(p)] = Added(DayOf(p), entry[p])]
    BY <1>2, <2>1 DEF Write
  <2>3. PICK d \in Segments : d = DayOf(p)
    BY <2>1
  <2> QED
    BY <2>1, <2>2, <2>3, AddedLines DEF PlaceOf
<1>3. CASE WriteTorn(p)
  <2>1. ~ TornIn(journal, DayOf(p)) /\ DayOf(p) \in Segments
    BY <1>3 DEF WriteTorn, Ready, Attributed, Linked
  <2>2. journal' = [journal EXCEPT ![DayOf(p)] = Added(DayOf(p), Torn)]
    BY <1>3 DEF WriteTorn
  <2>3. PICK d \in Segments : d = DayOf(p)
    BY <2>1
  <2> QED
    BY <2>1, <2>2, <2>3, AddedLines
<1>4. CASE Cleanup(p)
  BY <1>1, <1>4, CleanupLines
<1> QED
  BY <1>2, <1>3, <1>4 DEF Appends

(* Whose step it is, in these terms.                                       *)
LEMMA ScanStep ==
  ASSUME Attributed, NEW p \in Invocation, Acts(p)
  PROVE  \/ Begins(p) \/ Repair(p) \/ Open(p)
         \/ Appends(p) \/ Loads(p) \/ Reads(p) \/ Decides(p) \/ Counts(p) \/ Finishes(p)
         \/ Stores(p) \/ Leaves(p) \/ CutsShort(p)
BY ClosingSteps DEF Acts

-----------------------------------------------------------------------------
(* The ledger of what was counted, one invocation at a time. *)

(* A step of a process.                                                    *)
Reaches(p) ==
  Loads(p) \/ Reads(p) \/ Decides(p) \/ Counts(p) \/ Finishes(p) \/ Stores(p)
  \/ Leaves(p) \/ CutsShort(p)

(* The steps that leave the journal alone.                                 *)
LEMMA ReachesQuiet ==
  ASSUME Attributed, NEW p \in Invocation, Reaches(p)
  PROVE  /\ UNCHANGED <<journal, now, issued>>
         /\ Segments' = Segments /\ Written' = Written
         /\ stage'[p] \in {"idle", "load", "read", "pair", "count", "store"}
<1>1. UNCHANGED <<journal, now, issued>>
      /\ stage'[p] \in {"idle", "load", "read", "pair", "count", "store"}
  BY DEF Reaches, Loads, Reads, Decides, Counts, Finishes, Stores, Leaves, CutsShort
<1> QED
  BY <1>1, WrittenIs DEF Attributed, JournalTypeOK, Lines

(* The steps before the write.                                             *)
LEMMA OpeningGrows ==
  ASSUME Attributed, NEW p \in Invocation, Repair(p) \/ Open(p)
  PROVE  /\ Lines(journal') /\ Written' = Written /\ Extends(journal', journal)
         /\ Segments \subseteq Segments' /\ Segments' \subseteq Segments \cup {DayOf(p)}
         /\ UNCHANGED <<offset, now, entry, issued, counted, cut>>
         /\ Busy(p) /\ stage'[p] \in {"open", "write"}
<1>1. CASE Repair(p)
  BY <1>1, RepairLines, OpeningSteps DEF Busy
<1>2. CASE Open(p)
  BY <1>2, OpenLines, OpeningSteps DEF Busy
<1> QED
  BY <1>1, <1>2

(* What the clock and the days are.                                        *)
LEMMA Calendar ==
  ASSUME Attributed
  PROVE  /\ now \in Nat /\ Day(now) \in Nat /\ Segments \subseteq Nat /\ offset.day \in Int
         /\ \A p \in Invocation : next[p] \in Offset /\ next[p].day \in Int
         /\ \A p \in Invocation : stage[p] \in {"repair", "open", "write", "cleanup"} =>
              /\ DayOf(p) \in Nat /\ DayOf(p) <= Day(now)
              /\ entry[p].at \in Nat /\ entry[p].at <= now
         /\ offset \in Offset /\ Lines(journal) /\ Locals /\ Written \subseteq Place
<1>1. /\ now \in Nat /\ offset \in Offset /\ Lines(journal) /\ Locals
      /\ \A p \in Invocation : next[p] \in Offset
  BY BoundsAssumption DEF Attributed, JournalTypeOK, Lines, Locals
<1>2. Day(now) \in Nat /\ Segments \subseteq Nat /\ \A o \in Offset : o.day \in Int
  BY <1>1, DaysInOrder, BoundsAssumption DEF Segments, Days, Offset
<1>3. ASSUME NEW p \in Invocation, stage[p] \in {"repair", "open", "write", "cleanup"}
      PROVE  /\ DayOf(p) \in Nat /\ DayOf(p) <= Day(now)
             /\ entry[p].at \in Nat /\ entry[p].at <= now
  <2>1. entry[p].at \in Nat /\ entry[p].at <= now
    BY <1>3, DayOfTypes DEF Attributed, Carried
  <2> QED
    BY <1>1, <2>1, DaysInOrder DEF DayOf
<1>4. Written \subseteq Place
  BY <1>1, WrittenIs DEF PlacesIn
<1> QED
  BY <1>1, <1>2, <1>3, <1>4

(* The days stay in order.                                                 *)
LEMMA DatedStep ==
  ASSUME Attributed, Ready, Dated, Reading, NEW p \in Invocation, Solo(p),
         Begins(p) \/ Repair(p) \/ Open(p) \/ Appends(p) \/ Reaches(p)
  PROVE  Dated'
<1>1. /\ now \in Nat /\ Day(now) \in Nat /\ Segments \subseteq Nat /\ offset.day \in Int
      /\ next[p] \in Offset /\ next[p].day \in Int /\ Lines(journal)
      /\ Busy(p) => DayOf(p) \in Nat /\ DayOf(p) <= Day(now)
  BY Calendar DEF Busy
<1>2. /\ \A d \in Segments : d <= Day(now)
      /\ offset.day <= Day(now)
      /\ Busy(p) => offset.day <= DayOf(p) /\ \A d \in Segments : d <= DayOf(p)
      /\ stage[p] \in {"pair", "count", "store"} => next[p].day <= Day(now)
  BY DEF Dated
<1> DEFINE G1 == \A d \in Segments' : d <= Day(now')
           G2 == offset'.day <= Day(now')
           G3 == stage'[p] \in {"repair", "open", "write"} =>
                   /\ offset'.day <= Day(entry'[p].at)
                   /\ \A d \in Segments' : d <= Day(entry'[p].at)
           G4 == stage'[p] \in {"pair", "count", "store"} => next'[p].day <= Day(now')
<1>3. CASE Begins(p)
  <2>1. /\ UNCHANGED <<journal, offset, now>> /\ entry'[p].at = now /\ Segments' = Segments
        /\ stage'[p] = "repair"
    BY <1>3, OpeningSteps, WrittenIs
  <2>2. G1 /\ G2 /\ G3 /\ G4
    BY <1>2, <2>1
  <2> QED
    BY <2>2 DEF Solo, Dated, Busy, DayOf
<1>4. CASE Repair(p) \/ Open(p)
  <2>1. /\ Segments' \subseteq Segments \cup {DayOf(p)}
        /\ UNCHANGED <<offset, now, entry>> /\ Busy(p) /\ stage'[p] \in {"open", "write"}
    BY <1>4, OpeningGrows
  <2>2. DayOf(p) \in Nat /\ DayOf(p) <= Day(now) /\ DayOf(p) = Day(entry'[p].at)
    BY <1>1, <2>1 DEF Busy, DayOf
  <2>3. G1 /\ G2 /\ G3 /\ G4
    BY <1>2, <2>1, <2>2
  <2> QED
    BY <2>3 DEF Solo, Dated, Busy, DayOf
<1>5. CASE Appends(p)
  <2>1. Segments' \subseteq Segments
    BY <1>1, <1>5, AppendSteps, CleanupLines
  <2>2. UNCHANGED <<offset, now>> /\ stage'[p] \in {"idle", "cleanup", "load"}
    BY <1>5 DEF Appends
  <2>3. G1 /\ G2 /\ G3 /\ G4
    BY <1>2, <2>1, <2>2
  <2> QED
    BY <2>3 DEF Solo, Dated, Busy, DayOf
<1>6. CASE Reaches(p)
  <2>1. /\ UNCHANGED <<journal, now>> /\ Segments' = Segments
        /\ stage'[p] \in {"idle", "load", "read", "pair", "count", "store"}
    BY <1>6, ReachesQuiet
  <2>2. offset' = offset \/ Stores(p)
    BY <1>6 DEF Reaches, Loads, Reads, Decides, Counts, Finishes, Leaves, CutsShort
  <2>3. G2
    BY <1>2, <2>1, <2>2 DEF Stores
  <2>4. stage'[p] \in {"pair", "count", "store"} =>
          Reads(p) \/ (stage[p] \in {"pair", "count"} /\ next'[p] = next[p])
    BY <1>6 DEF Reaches, Loads, Decides, Counts, Finishes, Stores, Leaves, CutsShort
  <2>5. CASE Reads(p)
    <3>1. next'[p] = EndFrom(next[p]) /\ next[p] = offset
      BY <2>5 DEF Reads, Reading
    <3>2. EndFrom(next[p]).day = next[p].day \/ EndFrom(next[p]).day \in Segments
      BY <1>1, ScanTypes
    <3>3. G4
      BY <1>2, <2>1, <3>1, <3>2
    <3> QED
      BY <1>2, <2>1, <2>3, <3>3 DEF Solo, Dated, Busy, DayOf
  <2>6. CASE ~ Reads(p)
    <3>1. G4
      BY <1>2, <2>1, <2>4, <2>6
    <3> QED
      BY <1>2, <2>1, <2>3, <3>1 DEF Solo, Dated, Busy, DayOf
  <2> QED
    BY <2>5, <2>6
<1> QED
  BY <1>3, <1>4, <1>5, <1>6

(* The offset stays anchored.                                              *)
LEMMA AnchoredStep ==
  ASSUME Attributed, Ready, Anchored(journal, offset), Reading,
         NEW p \in Invocation, Solo(p),
         Begins(p) \/ Repair(p) \/ Open(p) \/ Appends(p) \/ Reaches(p)
  PROVE  Anchored(journal', offset')
<1>1. offset \in Offset /\ Lines(journal)
  BY Calendar
<1>2. CASE Begins(p)
  BY <1>2, OpeningSteps
<1>3. CASE Repair(p) \/ Open(p)
  <2>1. Lines(journal') /\ Extends(journal', journal) /\ offset' = offset
    BY <1>3, OpeningGrows
  <2> QED
    BY <1>1, <2>1, AnchorExtended
<1>4. CASE Appends(p)
  <2>1. offset' = offset
    BY <1>4 DEF Appends
  <2>2. CASE Lines(journal') /\ Extends(journal', journal)
    BY <1>1, <2>1, <2>2, AnchorExtended
  <2>3. CASE Cleanup(p)
    BY <1>1, <2>1, <2>3, AnchorCleaned
  <2> QED
    BY <1>4, <2>2, <2>3, AppendSteps
<1>5. CASE Reaches(p)
  <2>1. journal' = journal
    BY <1>5, ReachesQuiet
  <2>2. offset' = offset \/ (stage[p] = "store" /\ offset' = next[p])
    BY <1>5 DEF Reaches, Loads, Reads, Decides, Counts, Finishes, Leaves, CutsShort, Stores
  <2> QED
    BY <2>1, <2>2 DEF Reading
<1> QED
  BY <1>2, <1>3, <1>4, <1>5

(* Where a process writes.                                                 *)
LEMMA PlaceOfIs ==
  ASSUME Attributed, Dated, Anchored(journal, offset), NEW p \in Invocation,
         stage[p] = "write", DayOf(p) \in Segments, entry[p] \in Entry
  PROVE  /\ PlaceOf(p) \in Place /\ PlaceOf(p).entry = entry[p]
         /\ Past(PlaceOf(p), offset) /\ \A x \in Written : Precedes(x, PlaceOf(p))
<1>1. /\ offset \in Offset /\ Lines(journal)
      /\ Segments = SegmentsIn(journal) /\ Written = PlacesIn(journal)
  BY Calendar, WrittenIs
<1>2. offset.day <= DayOf(p) /\ \A e \in Segments : e <= DayOf(p)
  BY DEF Dated, Busy
<1>3. PICK d \in SegmentsIn(journal) : d = DayOf(p)
  BY <1>1
<1>4. LET y == [day |-> d, line |-> Upto(journal, d) + 1, entry |-> entry[p]] IN
      /\ y \in Place /\ Past(y, offset)
      /\ \A x \in PlacesIn(journal) : Precedes(x, y)
  BY <1>1, <1>2, <1>3, PlaceIsPast
<1> QED
  BY <1>1, <1>3, <1>4 DEF PlaceOf

(* What a step of a process adds to the journal, and what it takes.        *)
LEMMA AppendsAdd ==
  ASSUME Attributed, Ready, Dated, Anchored(journal, offset), NEW p \in Invocation, Appends(p)
  PROVE  \A x \in Written' :
           \/ x \in Written
           \/ /\ stage[p] = "write" /\ x.entry = entry[p]
              /\ Past(x, offset) /\ \A z \in Written : Precedes(z, x)
<1>1. CASE Written' = Written
  BY <1>1
<1>2. CASE /\ stage[p] = "write" /\ DayOf(p) \in Segments /\ entry[p] \in Entry
           /\ Written' = Written \cup {PlaceOf(p)}
  BY <1>2, PlaceOfIs
<1>3. CASE Cleanup(p)
  BY <1>3, CleanupLines, Calendar
<1> QED
  BY <1>1, <1>2, <1>3, AppendSteps

(* Whose count goes up.                                                    *)
LEMMA CountGrows ==
  ASSUME Attributed, NEW x \in Place, counted' = [counted EXCEPT ![x.entry.id] = @ + 1]
  PROVE  /\ x.entry.id \in Id /\ counted'[x.entry.id] = counted[x.entry.id] + 1
         /\ \A i \in Id : i # x.entry.id => counted'[i] = counted[i]
         /\ \A i \in Id : counted[i] \in Nat /\ counted'[i] \in Nat /\ counted'[i] >= counted[i]
<1>1. counted \in [Id -> Nat] /\ x.entry.id \in Id
  BY DEF Attributed, JournalTypeOK, Place, Entry
<1>2. /\ counted'[x.entry.id] = counted[x.entry.id] + 1
      /\ \A i \in Id : i # x.entry.id => counted'[i] = counted[i]
  BY <1>1
<1>3. ASSUME NEW i \in Id
      PROVE  counted[i] \in Nat /\ counted'[i] \in Nat /\ counted'[i] >= counted[i]
  <2>1. counted[i] \in Nat /\ (counted'[i] = counted[i] \/ counted'[i] = counted[i] + 1)
    BY <1>1, <1>2
  <2> QED
    BY <2>1
<1> QED
  BY <1>1, <1>2, <1>3

(* When counts go up at all.                                               *)
LEMMA WhenCounted ==
  ASSUME Attributed, Reading, NEW p \in Invocation, Reaches(p)
  PROVE  \/ counted' = counted
         \/ /\ stage[p] = "count" /\ (Counts(p) \/ CutsShort(p))
            /\ \E x \in todo[p] : x \in Written /\ x \in Place
                 /\ counted' = [counted EXCEPT ![x.entry.id] = @ + 1]
<1>1. \/ counted' = counted
      \/ /\ stage[p] = "count" /\ (Counts(p) \/ CutsShort(p))
         /\ \E x \in todo[p] : counted' = [counted EXCEPT ![x.entry.id] = @ + 1]
  BY DEF Reaches, Loads, Reads, Decides, Counts, Finishes, Stores, Leaves, CutsShort
<1>2. stage[p] = "count" => \A x \in todo[p] : x \in Written /\ x \in Place
  BY Calendar DEF Reading
<1> QED
  BY <1>1, <1>2

(* The numbers stay unique, and the ones to come uncounted.                *)
LEMMA NumberedStep ==
  ASSUME Attributed, Ready, Dated, Anchored(journal, offset), Numbered,
         Reading, NEW p \in Invocation, Solo(p),
         Begins(p) \/ Repair(p) \/ Open(p) \/ Appends(p) \/ Reaches(p)
  PROVE  Numbered'
<1>1. /\ issued \in Nat /\ counted \in [Id -> Nat] /\ Written \subseteq Place
      /\ Lines(journal) /\ Id \subseteq Nat
      /\ \A x \in Place : x.entry.id \in Id
  BY Calendar, BoundsAssumption DEF Attributed, JournalTypeOK, Place, Entry, Id
<1>2. /\ \A x \in Written : x.entry.id <= issued
      /\ \A x, y \in Written : x.entry.id = y.entry.id => x = y
      /\ \A i \in Id : i > issued => counted[i] = 0
      /\ Busy(p) => /\ \A x \in Written : x.entry.id # entry[p].id
                    /\ counted[entry[p].id] = 0
  BY DEF Numbered
<1> DEFINE G1 == \A x \in Written' : x.entry.id <= issued'
           G2 == \A x, y \in Written' : x.entry.id = y.entry.id => x = y
           G3 == \A i \in Id : i > issued' => counted'[i] = 0
           G4 == stage'[p] \in {"repair", "open", "write"} =>
                   /\ \A x \in Written' : x.entry.id # entry'[p].id
                   /\ counted'[entry'[p].id] = 0
<1>3. SUFFICES G1 /\ G2 /\ G3 /\ G4
  BY DEF Solo, Numbered, Busy
<1>4. CASE Begins(p)
  <2>1. /\ Written' = Written /\ counted' = counted /\ issued' = issued + 1
        /\ entry'[p].id = issued + 1 /\ issued + 1 \in Id
    BY <1>1, <1>4, OpeningSteps, WrittenIs
  <2>2. \A x \in Written : x.entry.id \in Nat
    BY <1>1
  <2>3. \A x \in Written : x.entry.id <= issued + 1 /\ x.entry.id # issued + 1
    BY <1>1, <1>2, <2>2
  <2>4. \A i \in Id : i >= issued + 1 => counted[i] = 0
    BY <1>1, <1>2
  <2>5. \A i \in Id : i > issued + 1 => i >= issued + 1
    BY <1>1
  <2>6. issued + 1 >= issued + 1
    BY <1>1
  <2>7. counted[issued + 1] = 0
    BY <2>1, <2>4, <2>6
  <2> QED
    BY <1>2, <2>1, <2>3, <2>4, <2>5, <2>7
<1>5. CASE Repair(p) \/ Open(p)
  <2>1. Written' = Written /\ UNCHANGED <<entry, issued, counted>> /\ Busy(p)
    BY <1>5, OpeningGrows
  <2> QED
    BY <1>2, <2>1
<1>6. CASE Appends(p)
  <2>1. /\ UNCHANGED <<issued, counted>> /\ stage'[p] \in {"idle", "cleanup", "load"}
        /\ \A x \in Written' : x \in Written \/ (stage[p] = "write" /\ x.entry = entry[p])
    BY <1>6, AppendsAdd DEF Appends
  <2>2. stage[p] = "write" => entry[p].id <= issued /\ Busy(p)
    BY DEF Attributed, Carried, Busy
  <2>3. G1 /\ G3 /\ G4
    BY <1>2, <2>1, <2>2
  <2>4. CASE Written' \subseteq Written
    BY <1>2, <2>3, <2>4
  <2>5. CASE stage[p] = "write" /\ Written' = Written \cup {PlaceOf(p)}
    <3>1. PlaceOf(p).entry = entry[p]
      BY DEF PlaceOf
    <3> QED
      BY <1>2, <2>2, <2>3, <2>5, <3>1
  <2> QED
    BY <1>1, <1>6, <2>4, <2>5, AppendSteps, CleanupLines
<1>7. CASE Reaches(p)
  <2>1. /\ Written' = Written /\ issued' = issued
        /\ stage'[p] \in {"idle", "load", "read", "pair", "count", "store"}
    BY <1>7, ReachesQuiet
  <2>2. CASE counted' = counted
    BY <1>2, <2>1, <2>2
  <2>3. ASSUME NEW x \in Place, x \in Written,
               counted' = [counted EXCEPT ![x.entry.id] = @ + 1]
        PROVE  G3
    <3>1. x.entry.id <= issued /\ x.entry.id \in Id
      BY <1>1, <1>2, <2>3
    <3>2. \A i \in Id : i # x.entry.id => counted'[i] = counted[i]
      BY <2>3, CountGrows
    <3> QED
      BY <1>1, <1>2, <2>1, <3>1, <3>2
  <2> QED
    BY <1>2, <1>7, <2>1, <2>2, <2>3, WhenCounted
<1> QED
  BY <1>4, <1>5, <1>6, <1>7

(* What lies before the offset stays settled.                              *)
LEMMA SettledStep ==
  ASSUME Attributed, Ready, Dated, Anchored(journal, offset), Reading, Settled,
         NEW p \in Invocation, Solo(p),
         Begins(p) \/ Repair(p) \/ Open(p) \/ Appends(p) \/ Reaches(p)
  PROVE  Settled'
<1>1. /\ Written \subseteq Place /\ offset \in Offset /\ Lines(journal)
      /\ counted \in [Id -> Nat] /\ \A x \in Place : x.entry.id \in Id
  BY Calendar DEF Attributed, JournalTypeOK, Place, Entry
<1>2. \A x \in Written : ~ Past(x, offset) =>
        /\ Pairs(Written, x) => counted[x.entry.id] > 0
        /\ Alone(Written, x) => Lapsed(x, now) /\ (Busy(p) => Lapsed(x, entry[p].at))
  BY DEF Settled
<1> SUFFICES ASSUME NEW x \in Written', ~ Past(x, offset')
             PROVE  /\ Pairs(Written', x) => counted'[x.entry.id] > 0
                    /\ Alone(Written', x) =>
                         /\ Lapsed(x, now')
                         /\ stage'[p] \in {"repair", "open", "write"} =>
                              Lapsed(x, entry'[p].at)
  BY DEF Solo, Settled, Busy
<1>3. CASE Begins(p)
  <2>1. /\ Written' = Written /\ UNCHANGED <<offset, now, counted>> /\ entry'[p].at = now
    BY <1>1, <1>3, OpeningSteps, WrittenIs
  <2> QED
    BY <1>2, <2>1
<1>4. CASE Repair(p) \/ Open(p)
  <2>1. Written' = Written /\ UNCHANGED <<offset, now, entry, counted>> /\ Busy(p)
    BY <1>4, OpeningGrows
  <2> QED
    BY <1>2, <2>1
<1>5. CASE Appends(p)
  <2>1. UNCHANGED <<offset, now, counted>> /\ stage'[p] \in {"idle", "cleanup", "load"}
    BY <1>5 DEF Appends
  <2>2. CASE Written' = Written
    BY <1>2, <2>1, <2>2
  <2>3. CASE /\ stage[p] = "write" /\ DayOf(p) \in Segments /\ entry[p] \in Entry
             /\ Written' = Written \cup {PlaceOf(p)}
    <3> DEFINE y == PlaceOf(p)
    <3>1. y \in Place /\ y.entry = entry[p] /\ Past(y, offset)
          /\ \A z \in Written : Precedes(z, y)
      BY <2>3, PlaceOfIs
    <3> HIDE DEF y
    <3>2. x \in Written /\ Written' = Written \cup {y}
      BY <2>1, <2>3, <3>1 DEF y
    <3>3. /\ Pairs(Written', x) => Pairs(Written, x) \/ (Alone(Written, x) /\ Fixes(y, x))
          /\ Alone(Written', x) => Alone(Written, x)
      BY <1>1, <3>1, <3>2, LastPairs
    <3>4. Alone(Written, x) => ~ Fixes(y, x)
      <4>1. Alone(Written, x) => entry[p].at - x.entry.at > Window
        BY <1>2, <2>1, <2>3, <3>2 DEF Busy, Lapsed
      <4>2. entry[p].at \in Nat /\ x.entry.at \in Nat /\ Window \in Nat
        BY <1>1, <2>3, <3>2, BoundsAssumption DEF Place, Entry
      <4> QED
        BY <3>1, <4>1, <4>2 DEF Fixes
    <3> QED
      BY <1>2, <2>1, <3>2, <3>3, <3>4
  <2>4. CASE Cleanup(p)
    <3>1. Written' = {z \in Written : z.day \notin Deleted}
      BY <1>1, <2>4, CleanupLines
    <3>2. \A d \in Deleted : \A z \in Written : z.day <= d => z.day \in Deleted
      BY <1>1, DeletedAre, WrittenIs DEF PlacesIn
    <3> DEFINE es == {y \in Written : y.day \notin Deleted}
    <3>3. x \in es /\ Written' = es /\ Written \in SUBSET Place
      BY <1>1, <3>1
    <3>4. (Pairs(es, x) <=> Pairs(Written, x)) /\ (Alone(es, x) <=> Alone(Written, x))
      BY <3>2, <3>3, OldestPairs
    <3> HIDE DEF es
    <3>5. x \in Written
      BY <3>3 DEF es
    <3> QED
      BY <1>2, <2>1, <3>3, <3>4, <3>5
  <2> QED
    BY <1>5, <2>2, <2>3, <2>4, AppendSteps
<1>6. CASE Reaches(p)
  <2>1. /\ Written' = Written /\ now' = now
        /\ stage'[p] \in {"idle", "load", "read", "pair", "count", "store"}
    BY <1>6, ReachesQuiet
  <2>2. counted[x.entry.id] > 0 => counted'[x.entry.id] > 0
    <3>1. x.entry.id \in Id
      BY <1>1, <2>1
    <3>2. ASSUME NEW z \in Place, counted' = [counted EXCEPT ![z.entry.id] = @ + 1]
          PROVE  /\ counted[x.entry.id] \in Nat /\ counted'[x.entry.id] \in Nat
                 /\ counted'[x.entry.id] >= counted[x.entry.id]
      BY <3>1, <3>2, CountGrows
    <3> QED
      BY <1>6, <3>2, WhenCounted
  <2>3. CASE offset' = offset
    BY <1>2, <2>1, <2>2, <2>3
  <2>4. CASE Stores(p)
    <3>1. CASE ~ Past(x, offset)
      BY <1>2, <2>1, <2>2, <3>1
    <3>2. CASE Past(x, offset)
      <4>1. /\ Pairs(Written, x) => x \in todo[p] \/ counted[x.entry.id] > 0
            /\ Alone(Written, x) => Lapsed(x, now)
            /\ todo[p] = {}
        BY <2>1, <2>4, <3>2 DEF Stores, Reading
      <4> QED
        BY <2>1, <2>2, <4>1
    <3> QED
      BY <3>1, <3>2
  <2>5. offset' = offset \/ Stores(p)
    BY <1>6 DEF Reaches, Loads, Reads, Decides, Counts, Finishes, Leaves, CutsShort
  <2> QED
    BY <2>3, <2>4, <2>5
<1> QED
  BY <1>3, <1>4, <1>5, <1>6

(* What a scan has read is what lies past the offset, and nothing of it is *)
(* lost before the offset is stored.                                       *)
LEMMA ReadingStep ==
  ASSUME Attributed, Ready, Anchored(journal, offset), Reading,
         NEW p \in Invocation, Solo(p),
         Begins(p) \/ Repair(p) \/ Open(p) \/ Appends(p) \/ Reaches(p)
  PROVE  Reading'
<1>1. /\ Written \subseteq Place /\ offset \in Offset /\ next[p] \in Offset /\ Lines(journal)
      /\ now \in Nat
  BY Calendar
<1>2. /\ stage[p] = "read" => next[p] = offset
      /\ stage[p] = "pair" => batch[p] = {x \in Written : Past(x, offset)}
      /\ stage[p] \in {"pair", "count", "store"} =>
           Anchored(journal, next[p]) /\ \A x \in Written : ~ Past(x, next[p])
      /\ stage[p] \in {"count", "store"} =>
           /\ \A x \in todo[p] : x \in Written /\ Past(x, offset)
           /\ \A x \in Written : Past(x, offset) =>
                /\ Pairs(Written, x) => x \in todo[p] \/ counted[x.entry.id] > 0
                /\ Alone(Written, x) => Lapsed(x, now)
      /\ stage[p] = "store" => todo[p] = {}
  BY DEF Reading
<1> DEFINE G1 == stage'[p] = "read" => next'[p] = offset'
           G2 == stage'[p] = "pair" => batch'[p] = {x \in Written' : Past(x, offset')}
           G3 == stage'[p] \in {"pair", "count", "store"} =>
                   Anchored(journal', next'[p]) /\ \A x \in Written' : ~ Past(x, next'[p])
           G4 == stage'[p] \in {"count", "store"} =>
                   /\ \A x \in todo'[p] : x \in Written' /\ Past(x, offset')
                   /\ \A x \in Written' : Past(x, offset') =>
                        /\ Pairs(Written', x) => x \in todo'[p] \/ counted'[x.entry.id] > 0
                        /\ Alone(Written', x) => Lapsed(x, now')
           G5 == stage'[p] = "store" => todo'[p] = {}
<1>3. SUFFICES G1 /\ G2 /\ G3 /\ G4 /\ G5
  BY DEF Solo, Reading
<1>4. CASE Begins(p) \/ Repair(p) \/ Open(p) \/ Appends(p)
  <2>1. stage'[p] \in {"repair", "open", "write", "idle", "cleanup", "load"}
    BY <1>4, OpeningSteps DEF Appends
  <2> QED
    BY <2>1
<1>5. CASE Reaches(p)
  <2>1. journal' = journal /\ Written' = Written /\ now' = now
    BY <1>5, ReachesQuiet
  <2>2. CASE Loads(p)
    BY <2>2 DEF Loads
  <2>3. CASE Reads(p)
    <3>1. /\ stage'[p] = "pair" /\ offset' = offset /\ next[p] = offset
          /\ batch'[p] = EntriesFrom(offset) /\ next'[p] = EndFrom(offset)
      BY <1>2, <2>3 DEF Reads
    <3>2. G2
      BY <2>1, <3>1 DEF EntriesFrom
    <3>3. G3
      BY <1>1, <2>1, <3>1, ScanEnds
    <3> QED
      BY <3>1, <3>2, <3>3
  <2>4. CASE Decides(p)
    <3> DEFINE es == {x \in Written : Past(x, offset)}
    <3>1. /\ stage[p] = "pair" /\ stage'[p] = "count" /\ ~ Pending(es)
          /\ todo'[p] = Paired(es) /\ next'[p] = next[p] /\ offset' = offset
      BY <1>2, <2>4 DEF Decides
    <3>2. G3
      BY <1>2, <2>1, <3>1
    <3>3. \A x \in es : (Pairs(es, x) <=> Pairs(Written, x)) /\ (Alone(es, x) <=> Alone(Written, x))
      BY <1>1, TailPairs
    <3> HIDE DEF es
    <3>4. \A x \in Paired(es) : x \in es /\ \A z \in es : Pairs(es, z) => z \in Paired(es)
      BY DEF Paired
    <3>5. ASSUME NEW x \in es, Alone(es, x) PROVE Lapsed(x, now)
      <4>1. ~ (now - x.entry.at <= Window)
        BY <3>1, <3>5 DEF Pending, Undecided, Alone
      <4>2. x.entry.at \in Nat /\ Window \in Nat
        BY <1>1, BoundsAssumption DEF es, Place, Entry
      <4> QED
        BY <1>1, <4>1, <4>2 DEF Lapsed
    <3>6. \A z \in es : Pairs(es, z) => z \in Paired(es)
      BY DEF Paired
    <3>7. \A x \in Written : Past(x, offset) <=> x \in es
      BY DEF es
    <3>8. \A x \in es : x \in Written /\ Past(x, offset)
      BY DEF es
    <3>9. G4
      BY <2>1, <3>1, <3>3, <3>4, <3>5, <3>6, <3>7, <3>8
    <3> QED
      BY <3>1, <3>2, <3>9
  <2>5. CASE Counts(p)
    <3>1. /\ stage[p] = "count" /\ stage'[p] = "count" /\ next'[p] = next[p]
          /\ offset' = offset
      BY <2>5 DEF Counts
    <3>2. PICK y \in todo[p] : /\ counted' = [counted EXCEPT ![y.entry.id] = @ + 1]
                               /\ todo'[p] = todo[p] \ {y}
      BY <2>5 DEF Counts
    <3>3. y \in Place
      BY <1>1, <1>2, <3>1, <3>2
    <3>4. /\ counted'[y.entry.id] = counted[y.entry.id] + 1 /\ y.entry.id \in Id
          /\ \A i \in Id : counted[i] \in Nat /\ counted'[i] \in Nat /\ counted'[i] >= counted[i]
      BY <3>2, <3>3, CountGrows
    <3>5. \A x \in Written : x.entry.id \in Id
      BY <1>1 DEF Place, Entry
    <3>6. ASSUME NEW x \in Written, Past(x, offset), Pairs(Written, x)
          PROVE  x \in todo'[p] \/ counted'[x.entry.id] > 0
      <4>1. CASE x = y
        <5>1. counted[y.entry.id] \in Nat
          BY <3>4
        <5> QED
          BY <3>4, <4>1, <5>1
      <4>2. CASE x # y
        <5>1. x \in todo[p] \/ counted[x.entry.id] > 0
          BY <1>2, <3>1, <3>6
        <5>2. counted[x.entry.id] \in Nat /\ counted'[x.entry.id] \in Nat
              /\ counted'[x.entry.id] >= counted[x.entry.id]
          BY <3>4, <3>5
        <5> QED
          BY <3>2, <4>2, <5>1, <5>2
      <4> QED
        BY <4>1, <4>2
    <3>7. G3 /\ G4
      BY <1>2, <2>1, <3>1, <3>2, <3>6
    <3> QED
      BY <3>1, <3>7
  <2>6. CASE Finishes(p)
    <3>1. /\ stage[p] = "count" /\ stage'[p] = "store" /\ next'[p] = next[p]
          /\ todo[p] = {} /\ todo'[p] = {} /\ offset' = offset /\ counted' = counted
      BY <2>6 DEF Finishes
    <3>2. G3 /\ G4
      BY <1>2, <2>1, <3>1
    <3> QED
      BY <3>1, <3>2
  <2>7. CASE Stores(p) \/ Leaves(p) \/ CutsShort(p)
    BY <2>7 DEF Stores, Leaves, CutsShort
  <2> QED
    BY <1>5, <2>2, <2>3, <2>4, <2>5, <2>6, <2>7 DEF Reaches
<1> QED
  BY <1>4, <1>5

(* Time passes.                                                            *)
LEMMA LedgerIdle ==
  ASSUME Attributed, Ledger, Idles
  PROVE  Ledger'
<1>1. /\ UNCHANGED <<journal, offset, stage, entry, linked, batch, next, todo, issued,
                     counted, cut>>
      /\ now \in Nat /\ now' \in Nat /\ now' >= now
  BY IdleSteps
<1>2. /\ Segments' = Segments /\ Written' = Written /\ Segments \subseteq Nat
      /\ offset.day \in Int /\ Day(now) \in Nat /\ Day(now') \in Nat /\ Day(now) <= Day(now')
      /\ \A p \in Invocation : next[p].day \in Int
      /\ Written \subseteq Place
  BY <1>1, Calendar, WrittenIs, DaysInOrder
<1>3. \A x \in Written : Lapsed(x, now) => Lapsed(x, now')
  <2>1. \A x \in Place : x.entry.at \in Nat
    BY DEF Place, Entry
  <2> QED
    BY <1>1, <1>2, <2>1, BoundsAssumption DEF Lapsed
<1>4. Dated'
  <2>1. \A d \in Int : d <= Day(now) => d <= Day(now')
    BY <1>2
  <2>2. \A d \in Segments' : d <= Day(now')
    BY <1>2, <2>1 DEF Ledger, Dated
  <2>3. offset'.day <= Day(now')
    BY <1>1, <1>2, <2>1 DEF Ledger, Dated
  <2>4. ASSUME NEW p \in Invocation
        PROVE  /\ Busy(p)' => /\ offset'.day <= Day(entry'[p].at)
                              /\ \A d \in Segments' : d <= Day(entry'[p].at)
               /\ stage'[p] \in {"pair", "count", "store"} => next'[p].day <= Day(now')
    BY <1>1, <1>2, <2>1 DEF Ledger, Dated, Busy, DayOf
  <2> QED
    BY <2>2, <2>3, <2>4 DEF Dated, Busy, DayOf
<1>5. Anchored(journal', offset') /\ Numbered'
  BY <1>1, <1>2 DEF Ledger, Numbered, Busy
<1>6. Reading'
  BY <1>1, <1>2, <1>3 DEF Ledger, Reading
<1>7. Settled'
  BY <1>1, <1>2, <1>3 DEF Ledger, Settled, Busy
<1> QED
  BY <1>4, <1>5, <1>6, <1>7 DEF Ledger

(* What one invocation after another keeps.                                *)
Kept == Untouched /\ (together \/ Ledger)

(* It is inductive.                                                        *)
LEMMA KeptStep == Kept /\ [JournalNext]_journalVars => Kept'
<1> SUFFICES ASSUME Kept, [JournalNext]_journalVars PROVE Kept'
  OBVIOUS
<1>1. Untouched'
  BY UntouchedStep DEF Kept
<1>2. ASSUME ~ together' PROVE Ledger'
  <2>1. Attributed /\ Single /\ Ready /\ Ledger
    BY <1>2, MeetingStep DEF Kept, Untouched
  <2>2. Dated /\ Anchored(journal, offset) /\ Numbered /\ Reading /\ Settled
    BY <2>1 DEF Ledger
  <2>3. CASE Idles
    BY <2>1, <2>3, LedgerIdle
  <2>4. ASSUME NEW p \in Invocation, Acts(p), Solo(p) PROVE Ledger'
    <3>1. Begins(p) \/ Repair(p) \/ Open(p) \/ Appends(p) \/ Reaches(p)
      BY <2>1, <2>4, ScanStep DEF Reaches
    <3> QED
      BY <2>1, <2>2, <2>4, <3>1, DatedStep, AnchoredStep, NumberedStep, ReadingStep, SettledStep
         DEF Ledger
  <2> QED
    BY <1>2, <2>1, <2>3, <2>4, SoloStep
<1> QED
  BY <1>1, <1>2 DEF Kept

(* And it holds of the journal before its first segment.                   *)
LEMMA KeptInit == JournalInit => Kept
<1> SUFFICES ASSUME JournalInit PROVE Kept
  OBVIOUS
<1>1. Attributed
  BY AttributedInit
<1>2. /\ \A p \in Invocation : stage[p] = "idle"
      /\ \A i \in Id : counted[i] = 0
      /\ now = 0 /\ offset = [day |-> -1, line |-> 0]
  BY DEF JournalInit, Start
<1>3. Segments = {} /\ Written = {}
  <2>1. Segments = {}
    BY DEF JournalInit, Segments
  <2> QED
    BY <2>1 DEF Written
<1>4. Ready /\ Single
  BY <1>2 DEF Ready, Single
<1>5. Dated
  <2>1. Day(now) \in Nat /\ offset.day = -1
    BY <1>1, <1>2, Calendar
  <2> QED
    BY <1>2, <1>3, <2>1 DEF Dated, Busy
<1>6. Anchored(journal, offset) /\ Numbered /\ Reading /\ Settled
  BY <1>2, <1>3 DEF Anchored, Numbered, Busy, Reading, Settled
<1> QED
  BY <1>1, <1>4, <1>5, <1>6 DEF Kept, Untouched, Ledger

(* "a failed pass can never skip unprocessed entries" (derive.go): until   *)
(* two invocations have run at once, of what is in the journal and before  *)
(* the offset, every failure that has its correction there was counted,    *)
(* whatever died or failed on the way and whatever segments were deleted.  *)
THEOREM NeverSkipped == JournalSpec => []NotSkipped
<1>1. Kept => NotSkipped
  BY DEF Kept, Ledger, Settled, NotSkipped
<1> QED
  BY KeptInit, KeptStep, <1>1, PTL DEF JournalSpec

-----------------------------------------------------------------------------
(* The tally of what was counted, for any number of invocations at once. *)

Under(p) == stage[p] \in {"read", "pair", "count", "store"}
Holds(p) == stage[p] \in {"pair", "count", "store"}

(* What is in the journal, or was read from it by a scan under way.        *)
Known == Written \cup {x \in Place : \E q \in Invocation : Holds(q) /\ x \in batch[q]}

(* Each of them has a number of its own, and so has each that is to come.  *)
Identified ==
  /\ \A x \in Known : x.entry.id <= issued
  /\ \A x, y \in Known : x.entry.id = y.entry.id => x = y
  /\ \A i \in Id : i > issued => counted[i] = 0
  /\ \A p \in Invocation : Busy(p) =>
       /\ counted[entry[p].id] = 0
       /\ \A x \in Known : x.entry.id # entry[p].id
       /\ \A q \in Invocation : Busy(q) /\ entry[p].id = entry[q].id => p = q

NotBefore(o, off) == o.day > off.day \/ (o.day = off.day /\ o.line >= off.line)

(* A scan that no other has overtaken starts from the offset that is       *)
(* stored, and any scan ends behind what it has read.                      *)
Following ==
  /\ Anchored(journal, offset)
  /\ \A p \in Invocation :
       /\ p \in stale => Under(p)
       /\ Under(p) => Anchored(journal, next[p])
       /\ Holds(p) => \A x \in batch[p] : ~ Past(x, next[p])
       /\ stage[p] \in {"count", "store"} => todo[p] \subseteq batch[p]
       /\ stage[p] = "read" /\ p \notin stale => next[p] = offset
       /\ Holds(p) /\ p \notin stale =>
            NotBefore(next[p], offset) /\ \A x \in batch[p] : Past(x, offset)

(* The scans that have counted an entry and not stored their offset.       *)
Counters(i) ==
  {q \in Invocation : stage[q] \in {"count", "store"} /\
                      \E x \in batch[q] \ todo[q] : x.entry.id = i}

Ahead(i) == \E x \in Known : x.entry.id = i /\ Past(x, offset)

(* An entry past the offset was counted by the scans that have still to    *)
(* store theirs, and by those that were cut short or overtaken; one before *)
(* it, once more, and of the first kind only the overtaken can be left.    *)
Tallied ==
  \A i \in Id :
    /\ Ahead(i) => counted[i] <= cut + overtaken + Cardinality(Counters(i))
    /\ ~ Ahead(i) => counted[i] <= 1 + cut + overtaken + Cardinality(Counters(i) \cap stale)

Tally == Attributed /\ Identified /\ Following /\ Tallied

(* What is known are entries where they stand.                             *)
LEMMA KnownAre ==
  ASSUME Attributed
  PROVE  /\ Known \subseteq Place /\ Written \subseteq Known
         /\ \A q \in Invocation : batch[q] \subseteq Place /\ todo[q] \subseteq Place
         /\ \A q \in Invocation : Holds(q) => batch[q] \subseteq Known
         /\ \A x \in Place : x.entry.id \in Id /\ x.entry.id \in Nat
<1>1. Written \subseteq Place
  BY Calendar
<1>2. \A q \in Invocation : batch[q] \subseteq Place /\ todo[q] \subseteq Place
  BY DEF Attributed, JournalTypeOK
<1>3. \A x \in Place : x.entry.id \in Id /\ x.entry.id \in Nat
  BY BoundsAssumption DEF Place, Entry, Id
<1> QED
  BY <1>1, <1>2, <1>3 DEF Known

(* A step loses no anchor, and writes one place at most.                   *)
LEMMA JournalGrows ==
  ASSUME Attributed, NEW p \in Invocation, Acts(p)
  PROVE  /\ Lines(journal')
         /\ \A off \in Offset : Anchored(journal, off) => Anchored(journal', off)
         /\ \/ Written' \subseteq Written
            \/ stage[p] = "write" /\ stage'[p] = "cleanup"
               /\ Written' \subseteq Written \cup {PlaceOf(p)}
<1>1. Lines(journal)
  BY Calendar
<1>2. ASSUME UNCHANGED journal PROVE Lines(journal') /\ Written' = Written
  BY <1>1, <1>2, WrittenIs
<1>3. ASSUME Lines(journal'), Extends(journal', journal), NEW off \in Offset,
             Anchored(journal, off)
      PROVE  Anchored(journal', off)
  BY <1>1, <1>3, AnchorExtended
<1>4. CASE Begins(p) \/ Reaches(p)
  BY <1>2, <1>4, OpeningSteps, ReachesQuiet
<1>5. CASE Repair(p) \/ Open(p)
  BY <1>3, <1>5, OpeningGrows
<1>6. CASE Cleanup(p)
  <2>1. Lines(journal') /\ Written' \subseteq Written
    BY <1>1, <1>6, CleanupLines
  <2> QED
    BY <1>1, <1>6, <2>1, AnchorCleaned
<1>7. CASE WriteTorn(p)
  <2>1. DayOf(p) \in Segments
    BY <1>7 DEF WriteTorn, Attributed, Linked
  <2>2. journal' = [journal EXCEPT ![DayOf(p)] = Added(DayOf(p), Torn)]
    BY <1>7 DEF WriteTorn
  <2>3. PICK d \in Segments : d = DayOf(p)
    BY <2>1
  <2>4. Lines(journal') /\ Extends(journal', journal) /\ Written' = Written
    BY <2>2, <2>3, AddedLines
  <2> QED
    BY <1>3, <2>4
<1>8. CASE Write(p) /\ linked[p]
  <2>1. stage[p] = "write" /\ entry[p] \in Entry /\ DayOf(p) \in Segments
    BY <1>8, DayOfTypes DEF Write, Attributed, Linked
  <2>2. journal' = [journal EXCEPT ![DayOf(p)] = Added(DayOf(p), entry[p])]
    BY <1>8 DEF Write
  <2>3. PICK d \in Segments : d = DayOf(p)
    BY <2>1
  <2>4. /\ Lines(journal') /\ Extends(journal', journal)
        /\ Written' = Written \/ Written' = Written \cup {PlaceOf(p)}
    BY <2>1, <2>2, <2>3, AddedLines DEF PlaceOf
  <2>5. stage'[p] = "cleanup"
    BY <1>8, Calendar, GotoTypes DEF Write, Stage
  <2> QED
    BY <1>3, <2>1, <2>4, <2>5
<1>9. CASE Write(p) /\ ~ linked[p]
  BY <1>2, <1>9 DEF Write
<1> QED
  BY <1>4, <1>5, <1>6, <1>7, <1>8, <1>9, ScanStep DEF Appends, Reaches

(* Whose step leaves a scan under way.                                     *)
LEMMA UnderStep ==
  ASSUME Attributed, NEW p \in Invocation, Acts(p)
  PROVE  /\ stage'[p] \in {"read", "pair", "count", "store"} =>
              Loads(p) \/ Reads(p) \/ Decides(p) \/ Counts(p) \/ Finishes(p)
         /\ Stores(p) \/ (offset' = offset /\ Quiet(p))
<1>1. CASE Begins(p) \/ Repair(p) \/ Open(p)
  <2>1. UNCHANGED <<stale, overtaken, offset>> /\ stage'[p] \in {"repair", "open", "write"}
    BY <1>1, OpeningSteps DEF Begins, Begin, Repair, Open, meeting
  <2> QED
    BY <2>1 DEF Quiet
<1>2. CASE \/ Appends(p) \/ Loads(p) \/ Reads(p) \/ Decides(p) \/ Counts(p) \/ Finishes(p)
           \/ Stores(p) \/ Leaves(p) \/ CutsShort(p)
  BY <1>2 DEF Appends, Loads, Reads, Decides, Counts, Finishes, Stores, Leaves, CutsShort
<1> QED
  BY <1>1, <1>2, ScanStep

(* What becomes known is what is written.                                  *)
LEMMA KnownGrows ==
  ASSUME Attributed, NEW p \in Invocation, Acts(p), NEW x \in Known'
  PROVE  x \in Known \/ (stage[p] = "write" /\ stage'[p] = "cleanup" /\ x = PlaceOf(p))
<1>1. CASE x \in Written'
  BY <1>1, JournalGrows, KnownAre
<1>2. ASSUME NEW q \in Invocation, stage'[q] \in {"pair", "count", "store"}, x \in batch'[q]
      PROVE  x \in Known
  <2>1. CASE q # p
    BY <1>2, <2>1, OthersStay, KnownAre DEF Same, Holds
  <2>2. CASE q = p /\ Reads(p)
    BY <1>2, <2>2, KnownAre DEF Reads, EntriesFrom
  <2>3. CASE q = p /\ (Decides(p) \/ Counts(p) \/ Finishes(p))
    <3>1. Holds(p) /\ batch'[p] \subseteq batch[p]
      BY <2>3 DEF Decides, Counts, Finishes, Holds, Paired
    <3> QED
      BY <1>2, <2>3, <3>1, KnownAre
  <2> QED
    BY <1>2, <2>1, <2>2, <2>3, UnderStep DEF Loads
<1> QED
  BY <1>1, <1>2 DEF Known, Holds

(* When counts go up.                                                      *)
LEMMA WhenTallied ==
  ASSUME Attributed, Following, NEW p \in Invocation, Acts(p)
  PROVE  \/ counted' = counted
         \/ /\ stage[p] = "count" /\ (Counts(p) \/ CutsShort(p))
            /\ \E x \in todo[p] : x \in Known /\ x \in Place /\ x \in batch[p]
                 /\ counted' = [counted EXCEPT ![x.entry.id] = @ + 1]
<1>1. \/ counted' = counted
      \/ /\ stage[p] = "count" /\ (Counts(p) \/ CutsShort(p))
         /\ \E x \in todo[p] : counted' = [counted EXCEPT ![x.entry.id] = @ + 1]
  <2>1. CASE Begins(p) \/ Repair(p) \/ Open(p)
    BY <2>1, OpeningSteps
  <2> QED
    BY <2>1, ScanStep DEF Appends, Loads, Reads, Decides, Counts, Finishes, Stores, Leaves,
                          CutsShort
<1>2. stage[p] = "count" => \A x \in todo[p] : x \in batch[p] /\ x \in Known /\ x \in Place
  BY KnownAre DEF Following, Holds
<1> QED
  BY <1>1, <1>2

(* The numbers stay unique.                                                *)
LEMMA IdentifiedStep ==
  ASSUME Attributed, Identified, Following, NEW p \in Invocation, Acts(p),
         issued' \in Nat, issued' >= issued
  PROVE  Identified'
<1>1. /\ issued \in Nat /\ counted \in [Id -> Nat] /\ Known \subseteq Place
      /\ \A x \in Place : x.entry.id \in Id /\ x.entry.id \in Nat
  BY KnownAre DEF Attributed, JournalTypeOK
<1>2. stage[p] = "write" =>
        /\ Busy(p) /\ PlaceOf(p).entry = entry[p] /\ entry[p].id <= issued
        /\ entry[p].id \in Nat
  BY BoundsAssumption DEF Busy, PlaceOf, Attributed, Carried, Entry, Id
<1>3. \A x \in Known' : x.entry.id <= issued' /\ x.entry.id \in Nat
  BY <1>1, <1>2, KnownGrows DEF Identified
<1>4. \A x, y \in Known' : x.entry.id = y.entry.id => x = y
  BY <1>2, KnownGrows DEF Identified
<1>5. ASSUME NEW x \in Known, x \in Place, counted' = [counted EXCEPT ![x.entry.id] = @ + 1],
             NEW i \in Id, \A y \in Known : y.entry.id # i
      PROVE  counted'[i] = counted[i]
  BY <1>5, CountGrows
<1>6. ASSUME NEW i \in Id, \A y \in Known : y.entry.id # i PROVE counted'[i] = counted[i]
  BY <1>5, <1>6, WhenTallied
<1>7. \A i \in Id : i > issued' => counted'[i] = 0
  <2> TAKE i \in Id
  <2>1. i \in Nat
    BY BoundsAssumption DEF Id
  <2>2. i > issued' => i > issued /\ \A y \in Known : y.entry.id # i
    BY <1>1, <2>1 DEF Identified
  <2> QED
    BY <1>6, <2>2 DEF Identified
<1>8. ASSUME NEW q \in Invocation, q # p, Busy(q)'
      PROVE  /\ Busy(q) /\ entry'[q] = entry[q] /\ entry[q].id \in Id /\ entry[q].id <= issued
             /\ counted'[entry[q].id] = 0
             /\ \A x \in Known' : x.entry.id # entry[q].id
  <2>1. Busy(q) /\ entry'[q] = entry[q]
    BY <1>8, OthersStay DEF Same, Busy
  <2>2. entry[q].id \in Id /\ entry[q].id <= issued
    BY <2>1 DEF Busy, Attributed, Carried, Entry
  <2>3. counted[entry[q].id] = 0 /\ \A x \in Known : x.entry.id # entry[q].id
    BY <2>1 DEF Identified
  <2>4. stage[p] = "write" => entry[p].id # entry[q].id
    BY <1>2, <1>8, <2>1 DEF Identified
  <2> QED
    BY <1>2, <1>6, <2>1, <2>2, <2>3, <2>4, KnownGrows
<1>9. CASE Begins(p)
  <2>1. /\ Known' \subseteq Known /\ entry'[p].id = issued + 1 /\ issued + 1 \in Id
        /\ issued' = issued + 1 /\ counted' = counted
    BY <1>9, KnownGrows, OpeningSteps
  <2>2. counted'[entry'[p].id] = 0
    <3>1. issued + 1 > issued
      BY <1>1
    <3> QED
      BY <2>1, <3>1 DEF Identified
  <2>3. \A x \in Known' : x.entry.id # entry'[p].id
    BY <1>1, <2>1 DEF Identified
  <2>4. \A q \in Invocation : q # p /\ Busy(q)' => entry'[q].id # entry'[p].id
    <3>1. \A i \in Id : i <= issued => i # issued + 1
      BY <1>1, BoundsAssumption DEF Id
    <3> QED
      BY <1>8, <2>1, <3>1
  <2>5. \A q, r \in Invocation : q # p /\ r # p /\ Busy(q)' /\ Busy(r)'
          /\ entry'[q].id = entry'[r].id => q = r
    BY <1>8 DEF Identified
  <2> QED
    BY <1>3, <1>4, <1>7, <1>8, <2>2, <2>3, <2>4, <2>5 DEF Identified
<1>10. CASE ~ Begins(p)
  <2>1. Busy(p)' => Busy(p) /\ entry'[p] = entry[p] /\ counted' = counted /\ Known' \subseteq Known
    <3>1. CASE Repair(p) \/ Open(p)
      BY <3>1, OpeningSteps, KnownGrows DEF Busy
    <3>2. CASE Closing(p)
      BY <3>2, ClosingEnds DEF Busy
    <3> QED
      BY <1>10, <3>1, <3>2 DEF Acts
  <2>2. \A q \in Invocation : Busy(q)' =>
          /\ Busy(q) /\ entry'[q] = entry[q] /\ counted'[entry'[q].id] = 0
          /\ \A x \in Known' : x.entry.id # entry'[q].id
    BY <1>8, <2>1 DEF Identified
  <2>3. \A q, r \in Invocation : Busy(q)' /\ Busy(r)' /\ entry'[q].id = entry'[r].id => q = r
    BY <2>2 DEF Identified
  <2> QED
    BY <1>3, <1>4, <1>7, <2>2, <2>3 DEF Identified
<1> QED
  BY <1>9, <1>10

(* A scan ends no earlier than it starts.                                  *)
LEMMA EndNotBefore ==
  ASSUME Lines(journal), NEW off \in Offset, Anchored(journal, off)
  PROVE  NotBefore(EndFrom(off), off)
<1>1. off.day \in Int /\ off.line \in Nat /\ Segments \subseteq Nat
      /\ Segments = SegmentsIn(journal)
  BY WrittenIs, DaysInOrder, BoundsAssumption DEF Offset, Days, Segments
<1>2. CASE EndFrom(off) = off
  BY <1>1, <1>2 DEF NotBefore
<1>3. ASSUME NEW d \in Segments, d >= off.day, \A e \in Segments : e <= d,
             EndFrom(off) = [day |-> d, line |-> Upto(journal, d)]
      PROVE  NotBefore(EndFrom(off), off)
  <2>1. EndFrom(off).day = d /\ EndFrom(off).line = Upto(journal, d) /\ d \in Nat
    BY <1>1, <1>3
  <2>2. CASE d > off.day
    BY <2>1, <2>2 DEF NotBefore
  <2>3. CASE d = off.day
    <3>1. off.line <= Upto(journal, d)
      BY <1>1, <1>3, <2>1, <2>3 DEF Anchored
    <3>2. Upto(journal, d) \in Nat
      BY <1>1, UptoIs
    <3> QED
      BY <1>1, <2>1, <2>3, <3>1, <3>2 DEF NotBefore
  <2> QED
    BY <1>1, <1>3, <2>1, <2>2, <2>3
<1> QED
  BY <1>2, <1>3, ScanTypes

(* What lies before an offset lies before a later one.                     *)
LEMMA NotBeforeIs ==
  ASSUME NEW o \in Offset, NEW off \in Offset, NotBefore(o, off), NEW x \in Place,
         ~ Past(x, off)
  PROVE  ~ Past(x, o)
<1>1. /\ x.day \in Int /\ x.line \in Int /\ o.day \in Int /\ o.line \in Int
      /\ off.day \in Int /\ off.line \in Int
  BY DaysInOrder, BoundsAssumption DEF Place, Days, Offset
<1> QED
  BY <1>1 DEF NotBefore, Past

(* The scans go on from the offset, or have been overtaken.                *)
LEMMA FollowingStep ==
  ASSUME Attributed, Following, NEW p \in Invocation, Acts(p)
  PROVE  Following'
<1>1. /\ Lines(journal) /\ offset \in Offset /\ Written \subseteq Place
      /\ \A q \in Invocation : next[q] \in Offset /\ batch[q] \subseteq Place
  BY Calendar, KnownAre
<1>2. \A off \in Offset : Anchored(journal, off) => Anchored(journal', off)
  BY JournalGrows
<1>3. Stores(p) \/ (offset' = offset /\ Quiet(p))
  BY UnderStep
<1>4. Anchored(journal', offset')
  <2>1. CASE offset' = offset
    BY <1>1, <1>2, <2>1 DEF Following
  <2>2. CASE Stores(p)
    BY <1>1, <1>2, <2>2 DEF Following, Under, Stores
  <2> QED
    BY <1>3, <2>1, <2>2
<1>5. \A q \in Invocation : q # p /\ Under(q) => (q \in stale' <=> q \in stale \/ Stores(p))
  BY <1>3 DEF Stores, Quiet, Under
<1>6. ASSUME NEW q \in Invocation, q # p
      PROVE  /\ q \in stale' => Under(q)'
             /\ Under(q)' => Anchored(journal', next'[q])
             /\ Holds(q)' => \A x \in batch'[q] : ~ Past(x, next'[q])
             /\ stage'[q] \in {"count", "store"} => todo'[q] \subseteq batch'[q]
             /\ stage'[q] = "read" /\ q \notin stale' => next'[q] = offset'
             /\ Holds(q)' /\ q \notin stale' =>
                  NotBefore(next'[q], offset') /\ \A x \in batch'[q] : Past(x, offset')
  <2>1. Same(q)
    BY <1>6, OthersStay
  <2>2. q \in stale' => Under(q)
    <3>1. q \in stale => Under(q)
      BY DEF Following
    <3> QED
      BY <1>3, <3>1 DEF Quiet, Stores, Under
  <2>3. Under(q) => Anchored(journal', next[q])
    BY <1>1, <1>2 DEF Following
  <2>4. Holds(q) => Under(q)
    BY DEF Holds, Under
  <2>5. Under(q) /\ q \notin stale' => q \notin stale /\ offset' = offset
    BY <1>3, <1>5, <1>6
  <2>6. stage[q] = "read" => Under(q)
    BY DEF Under
  <2> QED
    BY <2>1, <2>2, <2>3, <2>4, <2>5, <2>6 DEF Same, Following, Under, Holds
<1> DEFINE G == /\ p \in stale' => Under(p)'
                /\ Under(p)' => Anchored(journal', next'[p])
                /\ Holds(p)' => \A x \in batch'[p] : ~ Past(x, next'[p])
                /\ stage'[p] \in {"count", "store"} => todo'[p] \subseteq batch'[p]
                /\ stage'[p] = "read" /\ p \notin stale' => next'[p] = offset'
                /\ Holds(p)' /\ p \notin stale' =>
                     NotBefore(next'[p], offset') /\ \A x \in batch'[p] : Past(x, offset')
<1>7. G
  <2>1. CASE Under(p)'
    <3>1. \/ Loads(p) \/ Reads(p) \/ Decides(p) \/ Counts(p) \/ Finishes(p)
      BY <2>1, UnderStep DEF Under
    <3>2. /\ UNCHANGED <<journal, offset>> /\ stale' = stale
      BY <3>1 DEF Loads, Reads, Decides, Counts, Finishes, Quiet
    <3>3. CASE Loads(p)
      BY <1>4, <2>1, <3>2, <3>3 DEF Loads, Holds
    <3>4. CASE Reads(p)
      <4>1. /\ stage[p] = "read" /\ stage'[p] = "pair"
            /\ batch'[p] = EntriesFrom(next[p]) /\ next'[p] = EndFrom(next[p])
        BY <3>4 DEF Reads
      <4>2. Anchored(journal, next[p]) /\ (p \notin stale => next[p] = offset)
        BY <4>1 DEF Following, Under
      <4>3. Anchored(journal, EndFrom(next[p])) /\ \A x \in Written : ~ Past(x, EndFrom(next[p]))
        BY <1>1, <4>2, ScanEnds
      <4>4. NotBefore(EndFrom(next[p]), next[p])
        BY <1>1, <4>2, EndNotBefore
      <4>5. \A x \in EntriesFrom(next[p]) : x \in Written /\ Past(x, next[p])
        BY DEF EntriesFrom
      <4> QED
        BY <2>1, <3>2, <4>1, <4>2, <4>3, <4>4, <4>5
    <3>5. CASE Decides(p)
      <4>1. /\ stage[p] = "pair" /\ stage'[p] = "count" /\ next'[p] = next[p]
            /\ batch'[p] = Paired(batch[p]) /\ todo'[p] = Paired(batch[p])
        BY <3>5 DEF Decides
      <4>2. Paired(batch[p]) \subseteq batch[p]
        BY DEF Paired
      <4> QED
        BY <2>1, <3>2, <4>1, <4>2 DEF Following, Holds, Under
    <3>6. CASE Counts(p) \/ Finishes(p)
      <4>1. /\ stage[p] = "count" /\ stage'[p] \in {"count", "store"} /\ next'[p] = next[p]
            /\ batch'[p] = batch[p] /\ todo'[p] \subseteq todo[p]
        BY <3>6 DEF Counts, Finishes
      <4> QED
        BY <2>1, <3>2, <4>1 DEF Following, Holds, Under
    <3> QED
      BY <3>1, <3>3, <3>4, <3>5, <3>6
  <2>2. CASE ~ Under(p)'
    <3>1. p \notin stale'
      <4>1. CASE Stores(p)
        BY <4>1 DEF Stores
      <4>2. CASE Quiet(p) /\ p \in stale
        <5>1. Under(p) /\ stage'[p] \notin {"read", "pair", "count", "store"}
          BY <2>2, <4>2 DEF Following, Under
        <5>2. ~ Begins(p) /\ ~ Repair(p) /\ ~ Open(p)
          BY <5>1, OpeningSteps DEF Under
        <5>3. stage'[p] = "idle"
          BY <5>1, <5>2, ScanStep DEF Under, Appends, Loads, Reads, Decides, Counts, Finishes,
                                      Stores, Leaves, CutsShort
        <5> QED
          BY <4>2, <5>3 DEF Quiet
      <4>3. CASE Quiet(p) /\ p \notin stale
        BY <4>3 DEF Quiet
      <4> QED
        BY <1>3, <4>1, <4>2, <4>3
    <3>2. stage'[p] \notin {"read", "pair", "count", "store"}
      BY <2>2 DEF Under
    <3> QED
      BY <3>1, <3>2 DEF Under, Holds
  <2> QED
    BY <2>1, <2>2
<1> HIDE DEF G
<1>8. \A q \in Invocation :
        /\ q \in stale' => Under(q)'
        /\ Under(q)' => Anchored(journal', next'[q])
        /\ Holds(q)' => \A x \in batch'[q] : ~ Past(x, next'[q])
        /\ stage'[q] \in {"count", "store"} => todo'[q] \subseteq batch'[q]
        /\ stage'[q] = "read" /\ q \notin stale' => next'[q] = offset'
        /\ Holds(q)' /\ q \notin stale' =>
             NotBefore(next'[q], offset') /\ \A x \in batch'[q] : Past(x, offset')
  BY <1>6, <1>7, Zenon DEF G
<1> QED
  BY <1>4, <1>8 DEF Following

(* The cardinalities that the tally adds up.                               *)
LEMMA CountersAre ==
  ASSUME NEW S \in SUBSET Invocation, NEW p
  PROVE  /\ IsFiniteSet(S) /\ Cardinality(S) \in Nat
         /\ Cardinality(S \ {p}) \in Nat
         /\ p \in S => Cardinality(S) = Cardinality(S \ {p}) + 1
         /\ p \notin S => S \ {p} = S
<1>1. IsFiniteSet(S)
  BY InvocationAssumption, FS_Subset
<1>2. IsFiniteSet(S \ {p}) /\ (p \in S => Cardinality(S \ {p}) = Cardinality(S) - 1)
  BY <1>1, FS_RemoveElement, FS_Subset
<1>3. Cardinality(S) \in Nat /\ Cardinality(S \ {p}) \in Nat
  BY <1>1, <1>2, FS_CardinalityType
<1> QED
  BY <1>1, <1>2, <1>3

(* One invocation out of a set of them.                                    *)
LEMMA OneLess ==
  ASSUME NEW S \in SUBSET Invocation, NEW T, NEW p, T = S \ {p}
  PROVE  /\ Cardinality(S) \in Nat /\ Cardinality(T) \in Nat
         /\ p \in S => Cardinality(S) = Cardinality(T) + 1
         /\ p \notin S => Cardinality(S) = Cardinality(T)
<1>1. T \in SUBSET Invocation
  OBVIOUS
<1>2. Cardinality(S) \in Nat /\ Cardinality(T) \in Nat
  BY <1>1, CountersAre
<1>3. p \in S => Cardinality(S) = Cardinality(T) + 1
  BY CountersAre
<1>4. ASSUME p \notin S PROVE S = T
  BY <1>4
<1> QED
  BY <1>2, <1>3, <1>4

(* Only the process whose step it is may start or stop to have counted.    *)
LEMMA CountersStay ==
  ASSUME Attributed, NEW p \in Invocation, Acts(p), NEW i
  PROVE  /\ Counters(i) \subseteq Invocation /\ Counters(i)' \subseteq Invocation
         /\ Counters(i)' \ {p} = Counters(i) \ {p}
         /\ p \in Counters(i)' <=>
              /\ stage'[p] \in {"count", "store"}
              /\ \E x \in batch'[p] \ todo'[p] : x.entry.id = i
         /\ p \in Counters(i) <=>
              /\ stage[p] \in {"count", "store"}
              /\ \E x \in batch[p] \ todo[p] : x.entry.id = i
<1>1. \A q \in Invocation : q # p => (q \in Counters(i)' <=> q \in Counters(i))
  BY OthersStay DEF Same, Counters
<1> QED
  BY <1>1 DEF Counters

(* An entry that has been counted by a scan that is under way is known.    *)
LEMMA CountedIsKnown ==
  ASSUME Attributed, Identified, Following, NEW i \in Id, NEW q \in Counters(i),
         NEW x \in Known, x.entry.id = i
  PROVE  /\ x \in batch[q] \ todo[q]
         /\ ~ Past(x, offset) => q \in stale
<1>1. q \in Invocation /\ Holds(q) /\ \E z \in batch[q] \ todo[q] : z.entry.id = i
  BY DEF Counters, Holds
<1>2. PICK z \in batch[q] \ todo[q] : z.entry.id = i
  BY <1>1
<1>3. z \in Known
  BY <1>1, <1>2, KnownAre
<1>4. x = z
  BY <1>2, <1>3 DEF Identified
<1> QED
  BY <1>1, <1>2, <1>4 DEF Following

(* How the entries past the offset change when it stays.                   *)
LEMMA AheadStays ==
  ASSUME Attributed, Identified, Identified', Following, NEW p \in Invocation, Acts(p),
         offset' = offset, NEW i \in Id
  PROVE  /\ Ahead(i)' => Ahead(i) \/ (counted[i] = 0 /\ counted' = counted)
         /\ Ahead(i) /\ ~ Ahead(i)' => Counters(i)' = {}
<1>1. ASSUME Ahead(i)', ~ Ahead(i) PROVE counted[i] = 0 /\ counted' = counted
  <2>1. PICK x \in Known' : x.entry.id = i /\ Past(x, offset)
    BY <1>1 DEF Ahead
  <2>2. stage[p] = "write" /\ x = PlaceOf(p) /\ PlaceOf(p).entry = entry[p]
    BY <1>1, <2>1, KnownGrows DEF Ahead, PlaceOf
  <2> QED
    BY <2>1, <2>2, WhenTallied DEF Identified, Busy
<1>2. ASSUME Ahead(i), NEW q \in Counters(i)' PROVE Ahead(i)'
  <2>1. PICK x \in Known : x.entry.id = i /\ Past(x, offset)
    BY <1>2 DEF Ahead
  <2>2. q \in Invocation /\ stage'[q] \in {"count", "store"}
        /\ \E z \in batch'[q] \ todo'[q] : z.entry.id = i
    BY DEF Counters
  <2>3. PICK z \in batch'[q] : z.entry.id = i
    BY <2>2
  <2>4. z \in Known
    <3>1. CASE q = p
      <4>1. Holds(p) /\ batch'[p] \subseteq batch[p]
        BY <2>2, <3>1, UnderStep DEF Loads, Reads, Decides, Counts, Finishes, Holds, Paired
      <4> QED
        BY <2>3, <3>1, <4>1, KnownAre
    <3>2. CASE q # p
      BY <2>2, <2>3, <3>2, OthersStay, KnownAre DEF Same, Holds
    <3> QED
      BY <3>1, <3>2
  <2>5. z = x
    BY <2>1, <2>3, <2>4 DEF Identified
  <2>6. x \in Known'
    BY <2>1, <2>2, <2>3, <2>5, KnownAre DEF Known, Holds
  <2> QED
    BY <2>1, <2>6 DEF Ahead
<1> QED
  BY <1>1, <1>2

(* What is true of the tally before the step.                              *)
LEMMA TalliedIs ==
  ASSUME Attributed, Tallied, NEW i \in Id
  PROVE  /\ counted[i] \in Nat /\ cut \in Nat /\ overtaken \in Nat
         /\ Cardinality(Counters(i)) \in Nat /\ Cardinality(Counters(i) \cap stale) \in Nat
         /\ Cardinality(Counters(i) \cap stale) <= Cardinality(Counters(i))
         /\ Ahead(i) => counted[i] <= cut + overtaken + Cardinality(Counters(i))
         /\ ~ Ahead(i) => counted[i] <= 1 + cut + overtaken + Cardinality(Counters(i) \cap stale)
         /\ counted[i] <= 1 + cut + overtaken + Cardinality(Counters(i))
<1>1. Counters(i) \subseteq Invocation
  BY DEF Counters
<1>2. IsFiniteSet(Counters(i)) /\ Cardinality(Counters(i)) \in Nat
      /\ Cardinality(Counters(i) \cap stale) \in Nat
  BY <1>1, CountersAre
<1>3. Cardinality(Counters(i) \cap stale) <= Cardinality(Counters(i))
  BY <1>2, FS_Subset
<1>4. counted[i] \in Nat /\ cut \in Nat /\ overtaken \in Nat
  BY DEF Attributed, JournalTypeOK
<1>5. /\ Ahead(i) => counted[i] <= cut + overtaken + Cardinality(Counters(i))
      /\ ~ Ahead(i) => counted[i] <= 1 + cut + overtaken + Cardinality(Counters(i) \cap stale)
  BY DEF Tallied
<1>6. counted[i] <= 1 + cut + overtaken + Cardinality(Counters(i))
  <2>1. CASE Ahead(i)
    BY <1>2, <1>4, <1>5, <2>1
  <2>2. CASE ~ Ahead(i)
    BY <1>2, <1>3, <1>4, <1>5, <2>2
  <2> QED
    BY <2>1, <2>2
<1> QED
  BY <1>2, <1>3, <1>4, <1>5, <1>6

(* A step that counts nothing and ends no counting.                        *)
LEMMA TalliedQuiet ==
  ASSUME Attributed, Identified, Identified', Following, Tallied,
         NEW p \in Invocation, Acts(p), Quiet(p), UNCHANGED <<offset, counted, cut>>,
         \A i \in Id : p \in Counters(i)' <=> p \in Counters(i)
  PROVE  Tallied'
<1> SUFFICES ASSUME NEW i \in Id
             PROVE  /\ Ahead(i)' => counted'[i] <= cut' + overtaken' + Cardinality(Counters(i)')
                    /\ ~ Ahead(i)' => counted'[i] <=
                         1 + cut' + overtaken' + Cardinality(Counters(i)' \cap stale')
  BY DEF Tallied
<1>1. Counters(i)' = Counters(i)
  BY CountersStay
<1>2. Counters(i)' \cap stale' = Counters(i) \cap stale
  <2>1. p \in Counters(i)' => stage'[p] # "idle"
    BY CountersStay
  <2>2. CASE stage'[p] # "idle"
    BY <1>1, <2>2 DEF Quiet
  <2>3. CASE stage'[p] = "idle"
    <3>1. p \notin Counters(i)' /\ stale' = stale \ {p}
      BY <2>1, <2>3 DEF Quiet
    <3> QED
      BY <1>1, <3>1
  <2> QED
    BY <2>2, <2>3
<1>3. /\ Ahead(i)' => Ahead(i) \/ counted[i] = 0
      /\ Ahead(i) /\ ~ Ahead(i)' => Counters(i) = {}
  BY <1>1, AheadStays
<1>4. overtaken' = overtaken /\ counted' = counted /\ cut' = cut
  BY DEF Quiet
<1>5. Counters(i) = {} => Cardinality(Counters(i)) = 0
  BY FS_EmptySet
<1> DEFINE n == Cardinality(Counters(i))
           m == Cardinality(Counters(i) \cap stale)
<1>6. /\ counted[i] \in Nat /\ cut \in Nat /\ overtaken \in Nat /\ n \in Nat /\ m \in Nat
      /\ Ahead(i) => counted[i] <= cut + overtaken + n
      /\ ~ Ahead(i) => counted[i] <= 1 + cut + overtaken + m
  BY TalliedIs
<1>7. n = Cardinality(Counters(i)') /\ m = Cardinality(Counters(i)' \cap stale')
  BY <1>1, <1>2
<1>8. Counters(i) = {} => n = 0
  BY <1>5
<1> HIDE DEF n, m
<1>9. Ahead(i)' => counted[i] <= cut + overtaken + n
  BY <1>3, <1>6
<1>10. ~ Ahead(i)' => counted[i] <= 1 + cut + overtaken + m
  BY <1>3, <1>6, <1>8
<1> QED
  BY <1>4, <1>7, <1>9, <1>10

(* One entry is counted.                                                   *)
LEMMA TalliedCounts ==
  ASSUME Attributed, Identified, Identified', Following, Tallied,
         NEW p \in Invocation, Acts(p), Counts(p)
  PROVE  Tallied'
<1>1. /\ stage[p] = "count" /\ stage'[p] = "count" /\ batch'[p] = batch[p]
      /\ UNCHANGED <<offset, cut>> /\ stale' = stale /\ overtaken' = overtaken
  BY DEF Counts, Quiet
<1>2. PICK y \in todo[p] : /\ counted' = [counted EXCEPT ![y.entry.id] = @ + 1]
                           /\ todo'[p] = todo[p] \ {y}
  BY DEF Counts
<1>3. y \in Known /\ y \in Place /\ y \in batch[p] /\ batch[p] \subseteq Known
  BY <1>1, KnownAre DEF Following, Holds
<1>4. /\ counted'[y.entry.id] = counted[y.entry.id] + 1 /\ y.entry.id \in Id
      /\ \A i \in Id : i # y.entry.id => counted'[i] = counted[i]
  BY <1>2, <1>3, CountGrows
<1> SUFFICES ASSUME NEW i \in Id
             PROVE  /\ Ahead(i)' => counted'[i] <= cut' + overtaken' + Cardinality(Counters(i)')
                    /\ ~ Ahead(i)' => counted'[i] <=
                         1 + cut' + overtaken' + Cardinality(Counters(i)' \cap stale')
  BY DEF Tallied
<1>5. /\ counted[i] \in Nat /\ cut \in Nat /\ overtaken \in Nat
      /\ Cardinality(Counters(i)) \in Nat /\ Cardinality(Counters(i) \cap stale) \in Nat
      /\ Ahead(i) => counted[i] <= cut + overtaken + Cardinality(Counters(i))
      /\ ~ Ahead(i) => counted[i] <= 1 + cut + overtaken + Cardinality(Counters(i) \cap stale)
  BY TalliedIs
<1>6. CASE i # y.entry.id
  <2>1. counted'[i] = counted[i] /\ counted' # counted
    BY <1>4, <1>6, <1>3, KnownAre DEF Attributed, JournalTypeOK
  <2>2. p \in Counters(i)' <=> p \in Counters(i)
    <3>1. \A x : x.entry.id = i => (x \in batch'[p] \ todo'[p] <=> x \in batch[p] \ todo[p])
      BY <1>1, <1>2, <1>6
    <3> QED
      BY <1>1, <3>1, CountersStay
  <2>3. Counters(i)' = Counters(i)
    BY <2>2, CountersStay
  <2>4. /\ Ahead(i)' => Ahead(i)
        /\ Ahead(i) /\ ~ Ahead(i)' => Counters(i) = {}
    BY <1>1, <2>1, <2>3, AheadStays
  <2>5. Counters(i) = {} => Cardinality(Counters(i)) = 0
    BY FS_EmptySet
  <2> QED
    BY <1>1, <1>5, <2>1, <2>3, <2>4, <2>5
<1>7. CASE i = y.entry.id
  <2>1. p \notin Counters(i)
    BY <1>2, <1>3, <1>7, CountersStay DEF Identified
  <2>2. p \in Counters(i)'
    BY <1>1, <1>2, <1>3, <1>7, CountersStay
  <2>3. Counters(i)' \in SUBSET Invocation /\ Counters(i)' \ {p} = Counters(i)
    BY <2>1, CountersStay
  <2>4. Cardinality(Counters(i)') = Cardinality(Counters(i)) + 1
    BY <2>2, <2>3, CountersAre
  <2>5. p \in stale => Cardinality(Counters(i)' \cap stale) = Cardinality(Counters(i) \cap stale) + 1
    <3>1. (Counters(i)' \cap stale) \ {p} = Counters(i) \cap stale
      BY <2>1, <2>3
    <3> QED
      BY <2>2, <2>3, <3>1, CountersAre
  <2>6. y \in Known'
    BY <1>1, <1>3 DEF Known, Holds
  <2>7. Ahead(i)' <=> Past(y, offset)
    BY <1>1, <1>7, <2>6 DEF Ahead, Identified
  <2>8. Ahead(i) <=> Past(y, offset)
    BY <1>3, <1>7 DEF Ahead, Identified
  <2>9. ~ Past(y, offset) => p \in stale
    BY <1>1, <1>3 DEF Following, Holds
  <2> QED
    BY <1>1, <1>4, <1>5, <1>7, <2>4, <2>5, <2>7, <2>8, <2>9
<1> QED
  BY <1>6, <1>7

(* A pass is cut short between its counting and its offset.                *)
LEMMA TalliedCuts ==
  ASSUME Attributed, Identified, Identified', Following, Tallied,
         NEW p \in Invocation, Acts(p), CutsShort(p)
  PROVE  Tallied'
<1>1. /\ stage'[p] = "idle" /\ cut' = cut + 1 /\ offset' = offset
      /\ stale' = stale \ {p} /\ overtaken' = overtaken
  BY DEF CutsShort, Quiet
<1> SUFFICES ASSUME NEW i \in Id
             PROVE  /\ Ahead(i)' => counted'[i] <= cut' + overtaken' + Cardinality(Counters(i)')
                    /\ ~ Ahead(i)' => counted'[i] <=
                         1 + cut' + overtaken' + Cardinality(Counters(i)' \cap stale')
  BY DEF Tallied
<1>2. Counters(i)' = Counters(i) \ {p} /\ Counters(i) \in SUBSET Invocation
  BY <1>1, CountersStay
<1>3. Counters(i)' \cap stale' = (Counters(i) \cap stale) \ {p}
  BY <1>1, <1>2
<1> DEFINE a == Cardinality(Counters(i))
           b == Cardinality(Counters(i) \cap stale)
           c == Cardinality(Counters(i)')
           d == Cardinality(Counters(i)' \cap stale')
<1>4. /\ a \in Nat /\ c \in Nat
      /\ p \in Counters(i) => a = c + 1
      /\ p \notin Counters(i) => a = c
  BY <1>2, OneLess
<1>5. /\ b \in Nat /\ d \in Nat
      /\ p \in Counters(i) => b <= d + 1
      /\ p \notin Counters(i) => b = d
  <2>1. /\ b \in Nat /\ d \in Nat
        /\ p \in Counters(i) \cap stale => b = d + 1
        /\ p \notin Counters(i) \cap stale => b = d
    <3>1. Counters(i) \cap stale \in SUBSET Invocation
      BY <1>2
    <3> QED
      BY <3>1, <1>3, OneLess
  <2> QED
    BY <2>1
<1>6. /\ counted[i] \in Nat /\ cut \in Nat /\ overtaken \in Nat
      /\ Ahead(i) => counted[i] <= cut + overtaken + a
      /\ ~ Ahead(i) => counted[i] <= 1 + cut + overtaken + b
  BY TalliedIs
<1>7. \/ counted'[i] = counted[i]
      \/ counted'[i] = counted[i] + 1 /\ p \notin Counters(i)
  <2>1. CASE counted' = counted
    BY <2>1
  <2>2. ASSUME NEW y \in todo[p], y \in Known, y \in Place, y \in batch[p], stage[p] = "count",
               counted' = [counted EXCEPT ![y.entry.id] = @ + 1]
        PROVE  \/ counted'[i] = counted[i]
               \/ counted'[i] = counted[i] + 1 /\ p \notin Counters(i)
    <3>1. /\ counted'[y.entry.id] = counted[y.entry.id] + 1
          /\ i # y.entry.id => counted'[i] = counted[i]
      BY <2>2, CountGrows
    <3>2. batch[p] \subseteq Known
      BY <2>2, KnownAre DEF Holds
    <3>3. i = y.entry.id => p \notin Counters(i)
      BY <2>2, <3>2, CountersStay DEF Identified
    <3> QED
      BY <3>1, <3>3
  <2> QED
    BY <2>1, <2>2, WhenTallied
<1>8. /\ Ahead(i)' => Ahead(i) \/ (counted[i] = 0 /\ counted'[i] = counted[i])
      /\ Ahead(i) /\ ~ Ahead(i)' => Counters(i)' = {}
  BY <1>1, AheadStays
<1>9. Counters(i)' = {} => c = 0
  BY FS_EmptySet
<1> HIDE DEF a, b, c, d
<1>10. Ahead(i)' => counted'[i] <= cut + 1 + overtaken + c
  BY <1>4, <1>6, <1>7, <1>8
<1>11. ~ Ahead(i)' => counted'[i] <= 1 + cut + 1 + overtaken + d
  <2>1. CASE Ahead(i) /\ ~ Ahead(i)'
    BY <1>4, <1>5, <1>6, <1>7, <1>8, <1>9, <2>1
  <2>2. CASE ~ Ahead(i)
    BY <1>5, <1>6, <1>7, <2>2
  <2> QED
    BY <2>1, <2>2
<1> QED
  BY <1>1, <1>4, <1>5, <1>6, <1>10, <1>11 DEF c, d

(* An offset is stored: the one that follows the entries of the batch, or, *)
(* by a scan that has been overtaken, any.                                 *)
LEMMA TalliedStores ==
  ASSUME Attributed, Identified, Identified', Following, Tallied,
         NEW p \in Invocation, Acts(p), Stores(p)
  PROVE  Tallied'
<1>1. /\ stage[p] = "store" /\ stage'[p] = "idle" /\ offset' = next[p]
      /\ counted' = counted /\ cut' = cut
      /\ overtaken' = overtaken + IF p \in stale THEN 1 ELSE 0
      /\ stale' = {q \in Invocation \ {p} :
                     q \in stale \/ stage[q] \in {"read", "pair", "count", "store"}}
  BY DEF Stores
<1> SUFFICES ASSUME NEW i \in Id
             PROVE  /\ Ahead(i)' => counted'[i] <= cut' + overtaken' + Cardinality(Counters(i)')
                    /\ ~ Ahead(i)' => counted'[i] <=
                         1 + cut' + overtaken' + Cardinality(Counters(i)' \cap stale')
  BY DEF Tallied
<1>2. Counters(i)' = Counters(i) \ {p} /\ Counters(i) \in SUBSET Invocation
  BY <1>1, CountersStay
<1>3. Counters(i)' \cap stale' = Counters(i)'
  <2>1. \A q \in Counters(i) : stage[q] \in {"count", "store"}
    BY DEF Counters
  <2> QED
    BY <1>1, <1>2, <2>1
<1> DEFINE a == Cardinality(Counters(i))
           b == Cardinality(Counters(i) \cap stale)
           c == Cardinality(Counters(i)')
<1>4. /\ a \in Nat /\ c \in Nat
      /\ p \in Counters(i) => a = c + 1
      /\ p \notin Counters(i) => a = c
  BY <1>2, OneLess
<1>5. /\ counted[i] \in Nat /\ cut \in Nat /\ overtaken \in Nat /\ b \in Nat /\ b <= a
      /\ Ahead(i) => counted[i] <= cut + overtaken + a
      /\ ~ Ahead(i) => counted[i] <= 1 + cut + overtaken + b
      /\ counted[i] <= 1 + cut + overtaken + a
  BY TalliedIs
<1>6. p \in Counters(i) => ~ Ahead(i)'
  <2>1. ASSUME NEW x \in Known', x.entry.id = i, p \in Counters(i) PROVE ~ Past(x, next[p])
    <3>1. x \in Known
      BY <1>1, KnownGrows
    <3>2. x \in batch[p]
      BY <2>1, <3>1, CountedIsKnown
    <3> QED
      BY <1>1, <3>2 DEF Following, Holds
  <2> QED
    BY <1>1, <2>1 DEF Ahead
<1>7. p \notin stale /\ ~ Ahead(i) => ~ Ahead(i)'
  <2>1. ASSUME p \notin stale, ~ Ahead(i), NEW x \in Known', x.entry.id = i
        PROVE  ~ Past(x, next[p])
    <3>1. x \in Known /\ x \in Place /\ next[p] \in Offset /\ offset \in Offset
      BY <1>1, KnownGrows, KnownAre, Calendar
    <3>2. ~ Past(x, offset) /\ NotBefore(next[p], offset)
      BY <1>1, <2>1, <3>1 DEF Ahead, Following, Holds
    <3> QED
      BY <3>1, <3>2, NotBeforeIs
  <2> QED
    BY <1>1, <2>1 DEF Ahead
<1>8. p \notin stale /\ ~ Ahead(i) => b <= c
  <2>1. CASE p \in Counters(i)
    <3>1. ASSUME p \notin stale PROVE (Counters(i) \cap stale) \subseteq Counters(i)'
      BY <1>2, <3>1
    <3>2. IsFiniteSet(Counters(i)')
      BY <1>2, CountersAre
    <3> QED
      BY <3>1, <3>2, FS_Subset
  <2>2. CASE p \notin Counters(i)
    BY <1>4, <1>5, <2>2
  <2> QED
    BY <2>1, <2>2
<1>9. /\ p \in stale => overtaken' = overtaken + 1
      /\ p \notin stale => overtaken' = overtaken
  BY <1>1, <1>5
<1> HIDE DEF a, b, c
<1>10. Ahead(i)' => counted[i] <= cut + overtaken' + c
  BY <1>4, <1>5, <1>6, <1>7, <1>9
<1>11. ~ Ahead(i)' => counted[i] <= 1 + cut + overtaken' + c
  <2>1. CASE p \in stale
    BY <1>4, <1>5, <1>9, <2>1
  <2>2. CASE p \notin stale /\ Ahead(i)
    BY <1>4, <1>5, <1>9, <2>2
  <2>3. CASE p \notin stale /\ ~ Ahead(i)
    BY <1>4, <1>5, <1>8, <1>9, <2>3
  <2> QED
    BY <2>1, <2>2, <2>3
<1> QED
  BY <1>1, <1>3, <1>10, <1>11 DEF c

(* The tally is inductive.                                                 *)
LEMMA TallyStep == Tally /\ [JournalNext]_journalVars => Tally'
<1> SUFFICES ASSUME Tally, [JournalNext]_journalVars PROVE Tally'
  OBVIOUS
<1>1. Attributed /\ Identified /\ Following /\ Tallied
  BY DEF Tally
<1>2. Attributed' /\ issued' \in Nat /\ issued' >= issued
  BY <1>1, AttributedStep, HistoryStep
<1>3. CASE Idles
  <2>1. /\ UNCHANGED <<journal, offset, stage, entry, linked, batch, next, todo, issued,
                       counted, cut>>
        /\ UNCHANGED <<stale, overtaken>>
    BY <1>1, <1>3, IdleSteps DEF Idles, Tick, journalVars, meeting
  <2>2. Written' = Written
    BY <1>1, <2>1, Calendar, WrittenIs
  <2>3. Known' = Known
    BY <2>1, <2>2 DEF Known, Holds
  <2>4. Identified'
    BY <1>1, <2>1, <2>3 DEF Identified, Busy
  <2>5. Following'
    BY <1>1, <2>1 DEF Following, Under, Holds
  <2>6. \A i \in Id : (Ahead(i)' <=> Ahead(i)) /\ Counters(i)' = Counters(i)
    BY <2>1, <2>3 DEF Ahead, Counters
  <2>7. Tallied'
    BY <1>1, <2>1, <2>6 DEF Tallied
  <2> QED
    BY <1>2, <2>4, <2>5, <2>7 DEF Tally
<1>4. ASSUME NEW p \in Invocation, Acts(p) PROVE Tally'
  <2>1. Identified' /\ Following'
    BY <1>1, <1>2, <1>4, IdentifiedStep, FollowingStep
  <2>2. CASE Counts(p)
    BY <1>1, <1>4, <2>1, <2>2, TalliedCounts, <1>2 DEF Tally
  <2>3. CASE Stores(p)
    BY <1>1, <1>4, <2>1, <2>3, TalliedStores, <1>2 DEF Tally
  <2>4. CASE CutsShort(p)
    BY <1>1, <1>4, <2>1, <2>4, TalliedCuts, <1>2 DEF Tally
  <2>5. CASE \/ Begins(p) \/ Repair(p) \/ Open(p) \/ Appends(p) \/ Loads(p) \/ Reads(p)
             \/ Decides(p) \/ Leaves(p)
    <3>1. /\ UNCHANGED <<offset, counted, cut>> /\ Quiet(p)
          /\ stage[p] \notin {"count", "store"}
          /\ stage'[p] \in {"count", "store"} => todo'[p] = batch'[p]
      <4>1. CASE Begins(p) \/ Repair(p) \/ Open(p)
        <5>1. ~ Stores(p)
          BY <1>1, <4>1, OpeningSteps DEF Stores
        <5> QED
          BY <1>1, <1>4, <4>1, <5>1, OpeningSteps, UnderStep
      <4>2. CASE Appends(p) \/ Loads(p) \/ Reads(p) \/ Decides(p) \/ Leaves(p)
        BY <4>2 DEF Appends, Loads, Reads, Decides, Leaves
      <4> QED
        BY <2>5, <4>1, <4>2
    <3>2. \A i \in Id : p \notin Counters(i)' /\ p \notin Counters(i)
      BY <1>1, <1>4, <3>1, CountersStay
    <3> QED
      BY <1>1, <1>2, <1>4, <2>1, <3>1, <3>2, TalliedQuiet DEF Tally
  <2>6. CASE Finishes(p)
    <3>1. /\ UNCHANGED <<offset, counted, cut>> /\ Quiet(p)
          /\ stage[p] = "count" /\ stage'[p] = "store"
          /\ todo'[p] = todo[p] /\ batch'[p] = batch[p]
      BY <2>6 DEF Finishes
    <3>2. \A i \in Id : p \in Counters(i)' <=> p \in Counters(i)
      BY <1>1, <1>4, <3>1, CountersStay
    <3> QED
      BY <1>1, <1>2, <1>4, <2>1, <3>1, <3>2, TalliedQuiet DEF Tally
  <2> QED
    BY <1>1, <1>4, <2>2, <2>3, <2>4, <2>5, <2>6, ScanStep
<1> QED
  BY <1>3, <1>4, WhoseStep

(* And it holds before the first entry.                                    *)
LEMMA TallyInit == JournalInit => Tally
<1> SUFFICES ASSUME JournalInit PROVE Tally
  OBVIOUS
<1>1. Attributed
  BY AttributedInit
<1>2. /\ \A p \in Invocation : stage[p] = "idle"
      /\ \A i \in Id : counted[i] = 0
      /\ cut = 0 /\ overtaken = 0 /\ stale = {} /\ offset = [day |-> -1, line |-> 0]
  BY DEF JournalInit, Start
<1>3. Segments = {} /\ Written = {}
  <2>1. Segments = {}
    BY DEF JournalInit, Segments
  <2> QED
    BY <2>1 DEF Written
<1>4. Known = {}
  BY <1>2, <1>3 DEF Known, Holds
<1>5. Identified /\ Following
  BY <1>2, <1>4 DEF Identified, Busy, Following, Anchored, Under, Holds
<1>6. \A i \in Id : Cardinality(Counters(i)) \in Nat /\ Cardinality(Counters(i) \cap stale) \in Nat
  <2> TAKE i \in Id
  <2>1. Counters(i) \in SUBSET Invocation
    BY DEF Counters
  <2> QED
    BY <2>1, CountersAre
<1>7. Tallied
  BY <1>2, <1>6 DEF Tallied
<1> QED
  BY <1>1, <1>5, <1>7 DEF Tally

(* "every observation is counted exactly once instead of a partial pass    *)
(* re-bumping sightings later" (derive.go), of any number of invocations   *)
(* at once, as far as it is true: once none is under way, a failure was    *)
(* counted once, and again no more often than a pass was cut short between *)
(* its counting and its offset, or stored an offset although another had   *)
(* stored one since it loaded its own.                                     *)
THEOREM AlwaysCountedOnce == JournalSpec => []CountedOnce
<1>1. Tally => CountedOnce
  <2> SUFFICES ASSUME Tally, \A p \in Invocation : stage[p] \notin {"count", "store"},
                      NEW i \in Id
               PROVE  counted[i] <= 1 + cut + overtaken
    BY DEF CountedOnce
  <2>1. Counters(i) = {}
    BY DEF Counters
  <2>2. Cardinality(Counters(i)) = 0
    BY <2>1, FS_EmptySet
  <2>3. /\ counted[i] <= 1 + cut + overtaken + Cardinality(Counters(i))
        /\ counted[i] \in Nat /\ cut \in Nat /\ overtaken \in Nat
    BY TalliedIs DEF Tally
  <2> QED
    BY <2>2, <2>3
<1> QED
  BY TallyInit, TallyStep, <1>1, PTL DEF JournalSpec

=============================================================================
