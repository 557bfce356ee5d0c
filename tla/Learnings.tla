------------------------------ MODULE Learnings ------------------------------
(***************************************************************************)
(* What teach records and what recall answers (internal/cli/teach.go,      *)
(* internal/learn, internal/store/learnings.go).                           *)
(*                                                                         *)
(* A question is the set of its words.  teach stores it under the words    *)
(* the store's tokenizer makes of it and then infers patterns from all     *)
(* rows; recall cuts a question with a tokenizer of its own and compares   *)
(* the words that name no entity.  Every statement or transaction of a     *)
(* command is a step.  recall writes nothing but a list of misses, so that *)
(* it is an operator, of any state, and is asked for every set of resources *)
(* the store may have.                                                     *)
(***************************************************************************)
EXTENDS Integers, FiniteSets

CONSTANTS
  Process,
  Question,
  Words,        \* of each question, without what both sides drop
  Capital,      \* of each question: the words written with a capital
  Split,        \* of each word: what the store's tokenizer makes of it
  Stopword,     \* words the reader drops and the store keeps
  Inside,       \* <<u, w>>: the text of u lies within that of w
  Resource,
  Lesson,       \* <<question, resource>>: what may be taught
  Title,        \* of each resource: the entities its stored JSON names
  Template,
  Makes,        \* of each template and word: the resources it leads to
  Alias,        \* the lookups that may be taught
  TaughtPattern, \* the patterns that may be taught
  ExtractWindow, \* extractWindow: how many rows an Extract looks at
  Limit,        \* defaultRecallLimit: how many hits an answer has
  MaxCommands   \* bound: commands that teach or forget

ASSUME QuestionAssumption ==
  /\ Question # {} /\ Lesson \subseteq Question \X Resource
  /\ \A q \in Question :
       /\ Capital[q] \subseteq Words[q] \ Stopword
       /\ Words[q] \subseteq DOMAIN Split /\ IsFiniteSet(Words[q])
  /\ \A w \in DOMAIN Split : Split[w] \subseteq DOMAIN Split
ASSUME BoundAssumption == MaxCommands \in Nat
ASSUME LimitAssumption == ExtractWindow \in Nat \ {0} /\ Limit \in Nat \ {0}

VARIABLES
  rows,     \* search_learnings: the words, entities and resource of each,
            \* and (history) who taught it first, by which lookups
  newer,    \* <<x, y>>: row x was observed after row y
  patterns, \* search_patterns: shape and template
  lookups,  \* entity_lookups: canonical and value
  pc,       \* where each process's teach is
  task,     \* what it has to record
  found,    \* the patterns it has still to save
  read,     \* the rows its Extract has read
  fresh,    \* history: the rows no Extract that went through has read
  passed,   \* history: the rows an Extract left out of its window
  removed,  \* history: the shapes of which a row was forgotten
  commands  \* how many commands there were

store == <<rows, newer, patterns, lookups>>
history == <<fresh, passed, removed>>
vars == <<store, pc, task, found, read, history, commands>>

Row == [words : SUBSET DOMAIN Split, ents : SUBSET DOMAIN Split, res : Resource,
        by : Question, under : SUBSET Alias]
Shaped == [shape : SUBSET DOMAIN Split, template : Template]
ASSUME PatternAssumption == TaughtPattern \subseteq Shaped
Task == [by : Question, ents : SUBSET DOMAIN Split, under : SUBSET Alias,
         todo : SUBSET Resource]
NoTask == [by |-> CHOOSE q \in Question : TRUE, ents |-> {}, under |-> {}, todo |-> {}]

TypeOK ==
  /\ rows \subseteq Row
  /\ \A x, y \in rows : x.words = y.words /\ x.res = y.res => x = y
  /\ newer \subseteq rows \X rows
  /\ patterns \subseteq Shaped /\ lookups \subseteq Alias
  /\ pc \in [Process -> {"idle", "record", "extract", "save"}]
  /\ task \in [Process -> Task]
  /\ found \in [Process -> SUBSET Shaped]
  /\ read \in [Process -> SUBSET Row]
  /\ fresh \subseteq rows /\ passed \subseteq rows /\ removed \subseteq SUBSET DOMAIN Split
  /\ commands \in Nat

Init ==
  /\ rows = {} /\ newer = {} /\ patterns = {} /\ lookups = {}
  /\ pc = [p \in Process |-> "idle"]
  /\ task = [p \in Process |-> NoTask]
  /\ found = [p \in Process |-> {}]
  /\ read = [p \in Process |-> {}]
  /\ fresh = {} /\ passed = {} /\ removed = {} /\ commands = 0

-----------------------------------------------------------------------------
(* Words and entities. *)

(* Jaccard, compared with a number of tenths. *)
AtLeast(A, B, tenths) ==
  A # {} /\ B # {} /\ 10 * Cardinality(A \cap B) >= tenths * Cardinality(A \cup B)

Resolve(w, aliases) ==
  {a.canonical : a \in {b \in aliases : w \in {b.canonical, b.value}}}
ResolveSet(ents) == UNION {Resolve(e, lookups) : e \in ents}
Named(words, aliases) == {w \in words \ Stopword : Resolve(w, aliases) # {}}

(* The reader's side of a question, with the lookups' words promoted. *)
Entities(q, aliases) == Capital[q] \cup Named(Words[q], aliases)
Tokens(q) == (Words[q] \ Entities(q, lookups)) \ Stopword

(* The writer's side. *)
Pattern(q) == UNION {Split[w] : w \in Words[q]}

-----------------------------------------------------------------------------
(* Recall. *)

(* A row's entities: what was recorded, or else what the lookups know now. *)
KnownOf(row) == IF row.ents # {} THEN row.ents ELSE Named(row.words, lookups)

RestUnstripped(row) == row.words \ Stopword
Rest(row) == (row.words \ KnownOf(row)) \ Stopword

Overlap(q, row) ==
  ResolveSet(Entities(q, lookups)) \cap ResolveSet(KnownOf(row)) # {}

(* A fragment of an identifier does not count as another word. *)
IdentifierOnly(q, row) ==
  LET ents == Entities(q, lookups)
      identity == ents \cup KnownOf(row)
      pieces == identity \cup UNION {Split[w] : w \in identity}
  IN /\ Tokens(q) = {} /\ ents \cap KnownOf(row) # {}
     /\ AtLeast(ents, KnownOf(row) \cup (Rest(row) \ pieces), 6)

Alike(q, row) == AtLeast(Tokens(q), Rest(row), 6) \/ IdentifierOnly(q, row)

CrossAlias(q, row) ==
  /\ Overlap(q, row)
  /\ Entities(q, lookups) \cap KnownOf(row) = {}
  /\ \/ AtLeast(Tokens(q), Rest(row), 3)
     \/ AtLeast(ResolveSet(Entities(q, lookups)), ResolveSet(KnownOf(row)), 3)

SameShape(q, row) ==
  /\ ~Overlap(q, row)
  /\ Entities(q, lookups) # {} /\ KnownOf(row) # {}
  /\ Entities(q, lookups) \cap KnownOf(row) = {}
  /\ AtLeast(Tokens(q), Rest(row), 3)

Scored(q, row) == Alike(q, row) \/ CrossAlias(q, row) \/ SameShape(q, row)

SameName(u, w) == u = w \/ <<u, w>> \in Inside \/ <<w, u>> \in Inside

Classify(asked, known) ==
  IF asked = {} \/ known = {} THEN "partial"
  ELSE IF \E u \in asked, w \in known : SameName(u, w) THEN "exact" ELSE "mismatch"

EvidenceOfRow(row, stored) == KnownOf(row)
Evidence(row, stored) == IF stored THEN Title[row.res] ELSE KnownOf(row)

Verdict(q, row, stored) ==
  LET verdict == Classify(Entities(q, lookups), Evidence(row, stored))
  IN IF verdict = "mismatch" /\ Overlap(q, row) THEN "exact" ELSE verdict

(* A mismatch is no result; it is shown to --debug-mismatches alone. *)
Listed(q, row, S) == Scored(q, row) /\ Verdict(q, row, row.res \in S) # "mismatch"

(* Of more hits the best Limit are kept, by verdict, source, confidence,   *)
(* score and age: which those are is left open.                            *)
Crowded(H) == Cardinality(H) > Limit
Best(H) == IF Crowded(H) THEN {K \in SUBSET H : Cardinality(K) = Limit} ELSE {H}

(* What a pattern makes of a question, of what is stored.  It stops at the *)
(* first entity that leads to something, and of a prefix takes one row:    *)
(* which of them is left open.                                             *)
LeadsTo(x, q, S) == UNION {Makes[x.template][e] : e \in Entities(q, lookups)} \cap S
Applied(q, S) == {x \in patterns : AtLeast(Tokens(q), x.shape, 6) /\ LeadsTo(x, q, S) # {}}
PatternHits(q, S) ==
  UNION {{h \in [K -> Resource] : \A x \in K : h[x] \in LeadsTo(x, q, S)} : K \in Best(Applied(q, S))}

(* The answers to a question: the rows, and what the patterns add to their *)
(* resources.                                                              *)
Answers(q, S) ==
  LET direct == {row \in rows : Listed(q, row, S)}
      known == {row.res : row \in direct}
      Hits(h) == {[res |-> row.res, of |-> {row}] : row \in direct}
                   \cup {[res |-> r, of |-> {}] : r \in {h[x] : x \in DOMAIN h} \ known}
  IN UNION {Best(Hits(h)) : h \in PatternHits(q, S)}

Full(answer) == Cardinality(answer) = Limit

-----------------------------------------------------------------------------
(* Inference. *)

Shape(row) == row.words \ row.ents

Groups(R) ==
  LET usable == {r \in R : r.ents # {} /\ Shape(r) # {}}
  IN {{r \in usable : Shape(r) = s} : s \in {Shape(r) : r \in usable}}

OneEntity(group) == \A r \in group : Cardinality(r.ents) = 1

Binds(t, group) == \A r \in group : \E e \in r.ents : r.res \in Makes[t][e]

Inferred(R) ==
  {[shape |-> Shape(CHOOSE r \in g : TRUE), template |-> CHOOSE t \in Template : Binds(t, g)] :
     g \in {h \in Groups(R) :
              Cardinality(h) >= 2 /\ OneEntity(h) /\ \E t \in Template : Binds(t, h)}}

-----------------------------------------------------------------------------
(* The commands. *)

To(p, label) == pc' = [pc EXCEPT ![p] = label]

End(p) ==
  /\ To(p, "idle")
  /\ task' = [task EXCEPT ![p] = NoTask]
  /\ found' = [found EXCEPT ![p] = {}]
  /\ read' = [read EXCEPT ![p] = {}]

Counted ==
  /\ commands < MaxCommands
  /\ commands' = commands + 1

Teach(p) ==
  /\ pc[p] = "idle"
  /\ Counted
  /\ \E q \in Question : \E R \in SUBSET {r \in Resource : <<q, r>> \in Lesson} \ {{}} :
       /\ Pattern(q) # {}
       /\ task' = [task EXCEPT ![p] = [by |-> q, ents |-> Entities(q, lookups),
                                       under |-> lookups, todo |-> R]]
  /\ To(p, "record")
  /\ UNCHANGED <<store, found, read, history>>

(* A row that exists keeps the entities its first teach saw, and is the    *)
(* one observed last.                                                      *)
Observed(x, R) == {y \in newer : x \notin {y[1], y[2]}} \cup {<<x, y>> : y \in R \ {x}}

UpsertLearning(p) ==
  /\ pc[p] = "record"
  /\ \E r \in task[p].todo :
       LET words == Pattern(task[p].by)
           row == [words |-> words, ents |-> task[p].ents, res |-> r,
                   by |-> task[p].by, under |-> task[p].under]
           old == {x \in rows : x.words = words /\ x.res = r}
           new == IF old = {} THEN {row} ELSE {}
       IN /\ rows' = rows \cup new
          /\ \E x \in old \cup new : newer' = Observed(x, rows)
          /\ fresh' = fresh \cup new
          /\ task' = [task EXCEPT ![p].todo = @ \ {r}]
          /\ To(p, IF task[p].todo = {r} THEN "extract" ELSE "record")
  /\ UNCHANGED <<patterns, lookups, found, read, passed, removed, commands>>

(* The rows observed last. *)
Latest == {x \in rows : Cardinality({y \in rows : <<y, x>> \in newer}) < ExtractWindow}

ExtractOwn(p) ==
  /\ pc[p] = "extract"
  /\ found' = [found EXCEPT ![p] = Inferred({x \in Latest : x.words = Pattern(task[p].by)})]
  /\ read' = [read EXCEPT ![p] = Latest]
  /\ passed' = passed \cup (rows \ Latest)
  /\ To(p, "save")
  /\ UNCHANGED <<store, task, fresh, removed, commands>>
Extract(p) ==
  /\ pc[p] = "extract"
  /\ found' = [found EXCEPT ![p] = Inferred(Latest)]
  /\ read' = [read EXCEPT ![p] = Latest]
  /\ passed' = passed \cup (rows \ Latest)
  /\ To(p, "save")
  /\ UNCHANGED <<store, task, fresh, removed, commands>>

UpsertPattern(p) ==
  /\ pc[p] = "save"
  /\ \E x \in found[p] :
       /\ patterns' = patterns \cup {x}
       /\ found' = [found EXCEPT ![p] = @ \ {x}]
  /\ UNCHANGED <<rows, newer, lookups, pc, task, read, history, commands>>

(* A pattern that cannot be saved is skipped, until a next teach. *)
SkipPattern(p) ==
  /\ pc[p] = "save"
  /\ \E x \in found[p] : found' = [found EXCEPT ![p] = @ \ {x}]
  /\ read' = [read EXCEPT ![p] = {}]
  /\ UNCHANGED <<store, pc, task, history, commands>>

EndTeach(p) ==
  /\ pc[p] = "save" /\ found[p] = {}
  /\ fresh' = fresh \ read[p]
  /\ End(p)
  /\ UNCHANGED <<store, passed, removed, commands>>

(* An error, or a death: a row that cannot be written ends the command     *)
(* before Extract.                                                         *)
Fail(p) ==
  /\ pc[p] # "idle"
  /\ End(p)
  /\ UNCHANGED <<store, history, commands>>

(* One resource of a question, or all. *)
Forget(q, R) ==
  LET gone == {x \in rows : x.words = Pattern(q) /\ x.res \in R}
  IN /\ gone # {} /\ Counted
     /\ rows' = rows \ gone
     /\ newer' = {y \in newer : y[1] \notin gone /\ y[2] \notin gone}
     /\ fresh' = fresh \ gone
     /\ passed' = passed \ gone
     /\ removed' = removed \cup {Shape(x) : x \in gone}
     /\ UNCHANGED <<patterns, lookups, pc, task, found, read>>

TeachLookup(a) ==
  /\ Counted
  /\ lookups' = lookups \cup {a}
  /\ UNCHANGED <<rows, newer, patterns, pc, task, found, read, history>>

TeachPattern(x) ==
  /\ Counted
  /\ patterns' = patterns \cup {x}
  /\ UNCHANGED <<rows, newer, lookups, pc, task, found, read, history>>

Next ==
  \/ \E p \in Process :
       \/ Teach(p) \/ UpsertLearning(p) \/ Extract(p) \/ UpsertPattern(p)
       \/ SkipPattern(p) \/ EndTeach(p) \/ Fail(p)
  \/ \E q \in Question : \E R \in {{r} : r \in Resource} \cup {Resource} : Forget(q, R)
  \/ \E a \in Alias : TeachLookup(a)
  \/ \E x \in TaughtPattern : TeachPattern(x)

Spec == Init /\ [][Next]_vars

-----------------------------------------------------------------------------
(* Properties. *)

(* teach and recall cut a question with two tokenizers and promote its     *)
(* words from two states of the lookups.  "so stored query_entities stays  *)
(* symmetric with what recall sees": whoever taught a question written as  *)
(* this one is, recall answers with its resource, unless the store's       *)
(* tokenizer takes one of its words apart, or the lookups have come to     *)
(* know another of its words since the teach began (a row without entities *)
(* follows them).  A resource that is stored under a title of other        *)
(* entities is a mismatch, and Limit others may come before it.            *)
Plain(q) == (\A w \in Words[q] : Split[w] = {w}) /\ Words[q] \ Stopword # {}
SeenAlike(q, row) ==
  \/ Entities(row.by, row.under) = Entities(q, lookups)
  \/ row.ents = {} /\ Capital[q] = {}
Disowned(q, r, S) ==
  /\ r \in S /\ Title[r] # {} /\ Entities(q, lookups) # {}
  /\ \A e \in Entities(q, lookups) : Resolve(e, lookups) = {}
       /\ \A x \in Title[r] : ~SameName(e, x)
TaughtIsRecalled ==
  \A row \in rows : \A q \in Question : \A S \in SUBSET Resource :
    Pattern(q) = row.words /\ Plain(q) /\ SeenAlike(q, row) /\ ~Disowned(q, row.res, S) =>
      \A answer \in Answers(q, S) : Full(answer) \/ \E hit \in answer : hit.res = row.res

(* Backgrounded teaches run next to each other, and each infers from what  *)
(* it reads: once the teaches of two or more like rows went through, in    *)
(* whatever order, the next question of that shape is answered for an      *)
(* entity nobody taught, as far as there is room.  (A forget does not      *)
(* infer again, and a row that an Extract has passed over, with            *)
(* ExtractWindow others observed after it, may have missed the one it goes *)
(* with.)                                                                  *)
Generalized ==
  \A g \in Groups(rows) :
    /\ Cardinality(g) >= 2 /\ OneEntity(g) /\ \E t \in Template : Binds(t, g)
    /\ g \cap (fresh \cup passed) = {}
    /\ \A r \in g : Shape(r) \notin removed
    => \E t \in Template :
         /\ Binds(t, g)
         /\ \A q \in Question : \A r \in g : \A S \in SUBSET Resource :
              LET x == [shape |-> Shape(r), template |-> t]
              IN Tokens(q) = Shape(r) /\ LeadsTo(x, q, S) # {} =>
                   \A answer \in Answers(q, S) :
                     \/ \E hit \in answer : hit.res \in LeadsTo(x, q, S)
                     \/ Full(answer) \/ Crowded(Applied(q, S))
=============================================================================
