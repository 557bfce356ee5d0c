-------------------------- MODULE CandidatesProofs ---------------------------
(***************************************************************************)
(* What Candidates satisfies for every number of processes, signatures and *)
(* families, and for every length of the clock.                            *)
(***************************************************************************)
EXTENDS Candidates, TLAPS, FiniteSetTheorems

-----------------------------------------------------------------------------
(* Finite sets of numbers have a largest element.  Minimal counterexamples *)
(* take the place of induction.                                            *)

(* Every nonempty set of naturals has a least element.                     *)
LEMMA LeastNat ==
  ASSUME NEW T \in SUBSET Nat, T # {}
  PROVE  \E n \in T : \A m \in T : n <= m
<1> DEFINE R == {ss \in Nat \X Nat : ss[1] < ss[2]}
<1>1. IsWellFoundedOn(R, Nat)
  BY NatLessThanWellFounded DEF OpToRel
<1> HIDE DEF R
<1>2. PICK n \in T : \A m \in T : ~ (<<m, n>> \in R)
  BY <1>1, WFMin
<1>3. \A m \in T : ~ (m < n)
  BY <1>2 DEF R
<1> QED
  BY <1>3

(* Every nonempty finite set of naturals has a largest one.                *)
LEMMA MaxOfFinite ==
  ASSUME NEW S \in SUBSET Nat, IsFiniteSet(S), S # {}
  PROVE  Max(S) \in S /\ \A y \in S : Max(S) >= y
<1> DEFINE HasMax(U) == \E x \in U : \A y \in U : x >= y
           Size(n) == \E U \in SUBSET S : U # {} /\ ~ HasMax(U) /\ Cardinality(U) = n
           T == {n \in Nat : Size(n)}
<1>1. T = {}
  <2> SUFFICES ASSUME T # {} PROVE FALSE
    OBVIOUS
  <2>1. PICK n \in T : \A m \in T : n <= m
    BY LeastNat
  <2>2. PICK U \in SUBSET S : U # {} /\ ~ HasMax(U) /\ Cardinality(U) = n
    BY <2>1
  <2>3. IsFiniteSet(U)
    BY <2>2, FS_Subset
  <2>4. PICK x \in U : TRUE
    BY <2>2
  <2>5. /\ IsFiniteSet(U \ {x}) /\ Cardinality(U \ {x}) = Cardinality(U) - 1
        /\ Cardinality(U \ {x}) \in Nat
    BY <2>3, <2>4, FS_RemoveElement, FS_CardinalityType
  <2>6. U \ {x} = {} \/ HasMax(U \ {x})
    <3> SUFFICES ASSUME U \ {x} # {}, ~ HasMax(U \ {x}) PROVE FALSE
      OBVIOUS
    <3>1. U \ {x} \in SUBSET S
      BY <2>2
    <3>2. Cardinality(U \ {x}) \in T
      BY <3>1, <2>5
    <3> HIDE DEF T
    <3>3. Cardinality(U \ {x}) < n /\ n \in Nat
      BY <2>2, <2>5, <2>3, FS_CardinalityType
    <3> QED
      BY <2>1, <2>5, <3>2, <3>3
  <2>7. CASE U \ {x} = {}
    <3>1. \A y \in U : y = x
      BY <2>7
    <3> QED
      BY <2>2, <2>4, <3>1
  <2>8. CASE HasMax(U \ {x})
    <3>1. PICK m \in U \ {x} : \A y \in U \ {x} : m >= y
      BY <2>8
    <3>2. m \in Nat /\ x \in Nat /\ U \subseteq Nat
      BY <2>2, <2>4
    <3>3. CASE m >= x
      BY <2>2, <3>1, <3>2, <3>3
    <3>4. CASE x >= m
      <4>1. \A y \in U : x >= y
        BY <3>1, <3>2, <3>4
      <4> QED
        BY <2>2, <2>4, <4>1
    <3> QED
      BY <3>2, <3>3, <3>4
  <2> QED
    BY <2>6, <2>7, <2>8
<1>2. HasMax(S)
  <2>1. Cardinality(S) \in Nat
    BY FS_CardinalityType
  <2> QED
    BY <1>1, <2>1
<1> QED
  BY <1>2 DEF Max

-----------------------------------------------------------------------------
(* Where a command is, and what it has read by then. *)

Working == {"book", "list", "exists", "confirm", "materialize", "synthesize",
            "upsert", "reread", "derived", "reject"}
Placed ==
  \A p \in Process :
    /\ pc[p] \in Working => arg[p] \in Arg
    /\ pc[p] \in {"exists", "confirm", "materialize", "derived", "reject"} => seen[p] \in Read

(* The rows are finitely many, whatever the signatures are.                *)
Typed == TypeOK /\ Placed /\ IsFiniteSet(Present)

(* An id in the table is the id of one row.                                *)
LEMMA RowOfId ==
  ASSUME NEW i \in Ids
  PROVE  WithId(i) \in Present /\ rows[WithId(i)].id = i
BY DEF Ids, WithId

(* A fresh id is larger than any other.                                    *)
LEMMA FreshId ==
  ASSUME Typed
  PROVE  NextId \in Nat \ {0} /\ \A s \in Present : rows[s].id < NextId
<1>1. \A s \in Present : rows[s] \in Row
  BY DEF Typed, TypeOK, Present
<1>2. Ids \subseteq Nat
  BY <1>1 DEF Ids, Row
<1>3. CASE Present = {}
  BY <1>3 DEF NextId
<1>4. CASE Present # {}
  <2>1. IsFiniteSet(Ids) /\ Ids # {}
    <3> DEFINE id == [s \in Present |-> rows[s].id]
    <3>1. id \in Surjection(Present, Ids)
      BY DEF Surjection, Ids
    <3> QED
      BY <1>4, <3>1, FS_Surjection DEF Typed, Ids
  <2>2. Max(Ids) \in Ids /\ \A y \in Ids : Max(Ids) >= y
    BY <1>2, <2>1, MaxOfFinite
  <2> HIDE DEF Ids
  <2>3. NextId = Max(Ids) + 1
    BY <1>4 DEF NextId
  <2>4. \A s \in Present : rows[s].id \in Ids
    BY DEF Ids
  <2>5. Max(Ids) \in Nat
    BY <1>2, <2>2
  <2>6. \A s \in Present : rows[s].id <= Max(Ids) /\ rows[s].id \in Nat
    BY <1>2, <2>2, <2>4
  <2> QED
    BY <2>3, <2>5, <2>6
<1> QED
  BY <1>3, <1>4

-----------------------------------------------------------------------------
(* What a step may do to the table. *)

Derived(s, n) ==
  /\ UpsertRow(s, n)
  /\ made' = IF rows[s] = NoRow /\ s \in FlagSignature THEN made + 1 ELSE made
  /\ notes' = notes
Shortened(s, n) ==
  /\ rows[s].status = "open"
  /\ rows' = [rows EXCEPT ![s].steps = n]
  /\ UNCHANGED <<made, notes>>
Confirmed(s) ==
  /\ rows[s].status = "open"
  /\ rows' = [rows EXCEPT ![s].status = "confirmed"]
  /\ made' = made
  /\ notes' = notes \/ (s \in FlagSignature /\ notes' = notes + 1)
Rejected(s) ==
  /\ rows[s].status = "confirmed" => s \in BookSignature
  /\ rows[s].status # "rejected"
  /\ rows' = [rows EXCEPT ![s].status = "rejected"]
  /\ UNCHANGED <<made, notes>>
Swept ==
  /\ rows' = [s \in Signature |->
       IF rows[s] # NoRow /\ rows[s].status = "open" /\ Unseen(rows[s])
       THEN [rows[s] EXCEPT !.status = "expired"] ELSE rows[s]]
  /\ UNCHANGED <<made, notes>>
Deleted ==
  /\ \E p \in Process :
       rows' = [s \in Signature |->
         IF rows[s] # NoRow /\ rows[s].status \in Settled(p) THEN NoRow ELSE rows[s]]
  /\ UNCHANGED <<made, notes>>

RowStep ==
  \/ UNCHANGED <<rows, made, notes>>
  \/ \E s \in Signature, n \in Steps : Derived(s, n)
  \/ \E s \in Present : Confirmed(s) \/ Rejected(s) \/ \E n \in Steps : Shortened(s, n)
  \/ Swept
  \/ Deleted

(* Every step of every command is one of these.                            *)
LEMMA StepsOfRows == ASSUME Typed, [Next]_vars PROVE RowStep
<1>1. ASSUME NEW p \in Process, NEW s \in FlagSignature, Sight(p, s)
      PROVE  RowStep
  BY <1>1 DEF Sight, To, RowStep, history
<1>2. ASSUME NEW p \in Process, NEW s \in Signature, Confirm(p, s)
      PROVE  RowStep
  BY <1>2 DEF Confirm, ReadRow, To, RowStep, history
<1>3. ASSUME NEW p \in Process, NEW s \in Signature, Reject(p, s)
      PROVE  RowStep
  BY <1>3 DEF Reject, ReadRow, To, RowStep, history
<1>4. ASSUME NEW p \in Process, NEW label \in {"purge", "purgeAll"}, Expire(p, label)
      PROVE  RowStep
  BY <1>4 DEF Expire, Swept, RowStep, history
<1>5. ASSUME NEW p \in Process, NEW s \in BookSignature, NEW n \in Steps, NEW label \in {"book", "list"},
             Teach(p, s, n, label)
      PROVE  RowStep
  BY <1>5 DEF Teach, To, RowStep, history
<1>6. ASSUME NEW p \in Process, Upsert(p) PROVE RowStep
  <2>1. arg[p].sig \in Signature /\ arg[p].steps \in Steps
    BY <1>6 DEF Upsert, Typed, Placed, Working, Arg
  <2> QED
    BY <1>6, <2>1 DEF Upsert, Derived, RowStep
<1>7. ASSUME NEW p \in Process, Reread(p) PROVE RowStep
  BY <1>7 DEF Reread, Return, To, ReadRow, RowStep, history
<1>8. ASSUME NEW p \in Process, Refresh(p) PROVE RowStep
  <2>1. arg[p].steps \in Steps
    BY <1>8 DEF Refresh, Typed, Placed, Working, Arg
  <2>2. CASE UNCHANGED rows
    BY <1>8, <2>2 DEF Refresh, RowStep, history
  <2>3. CASE rows' # rows
    <3>1. seen[p].id \in Ids /\ WithId(seen[p].id) \in Present
      BY <1>8, <2>3, RowOfId DEF Refresh
    <3> QED
      BY <1>8, <2>1, <2>3, <3>1 DEF Refresh, Shortened, RowStep, history
  <2> QED
    BY <2>2, <2>3
<1>9. ASSUME NEW p \in Process, Materialize(p) PROVE RowStep
  <2>1. CASE ~ (RowIsOpen(p) /\ WithId(seen[p].id) \in ClassOf(arg[p].sig))
    BY <1>9, <2>1 DEF Materialize, RowStep
  <2>2. CASE RowIsOpen(p) /\ WithId(seen[p].id) \in ClassOf(arg[p].sig)
    <3>1. WithId(seen[p].id) \in Present /\ rows[WithId(seen[p].id)].status = "open"
      BY <2>2, RowOfId DEF RowIsOpen
    <3>2. notes' = notes \/ (WithId(seen[p].id) \in FlagSignature /\ notes' = notes + 1)
      BY <1>9, <2>2 DEF Materialize, ClassOf
    <3>3. MarkConfirmed(p) /\ made' = made
      BY <1>9, <2>2 DEF Materialize
    <3> QED
      BY <3>1, <3>2, <3>3 DEF MarkConfirmed, Confirmed, RowStep
  <2> QED
    BY <2>1, <2>2
<1>10. ASSUME NEW p \in Process, ConfirmOnly(p) PROVE RowStep
  <2>1. CASE ~ RowIsOpen(p)
    BY <1>10, <2>1 DEF ConfirmOnly, RowStep, history
  <2>2. CASE RowIsOpen(p)
    <3>1. WithId(seen[p].id) \in Present
      BY <2>2, RowOfId DEF RowIsOpen
    <3> QED
      BY <1>10, <2>2, <3>1 DEF ConfirmOnly, RowIsOpen, MarkConfirmed, Confirmed, RowStep, history
  <2> QED
    BY <2>1, <2>2
<1>11. ASSUME NEW p \in Process, RejectRow(p) PROVE RowStep
  <2>1. CASE ~ Rejectable(p)
    BY <1>11, <2>1 DEF RejectRow, RowStep, history
  <2>2. CASE Rejectable(p)
    <3>1. WithId(seen[p].id) \in Present
      BY <2>2, RowOfId DEF Rejectable
    <3> QED
      BY <1>11, <2>2, <3>1 DEF RejectRow, Rejectable, Rejected, RowStep, history
  <2> QED
    BY <2>1, <2>2
<1>12. ASSUME NEW p \in Process, Purge(p) PROVE RowStep
  BY <1>12 DEF Purge, Deleted, RowStep, history
<1>13. ASSUME NEW p \in Process, TeachBook(p) PROVE RowStep
  BY <1>13 DEF TeachBook, To, local, RowStep, history
<1>14. ASSUME NEW p \in Process, List(p) PROVE RowStep
  BY <1>14 DEF List, To, ReadRow, RowStep, history
<1>15. ASSUME NEW p \in Process, Exists(p) PROVE RowStep
  BY <1>15 DEF Exists, To, local, RowStep, history
<1>16. ASSUME NEW p \in Process, Synthesize(p) PROVE RowStep
  BY <1>16 DEF Synthesize, Return, To, Goes, local, RowStep, history
<1>17. ASSUME NEW p \in Process, Fail(p) PROVE RowStep
  BY <1>17 DEF Fail, Return, To, Goes, local, RowStep, history
<1>18. ASSUME Tick PROVE RowStep
  BY <1>18 DEF Tick, local, RowStep, history
<1>19. CASE UNCHANGED vars
  BY <1>19 DEF vars, local, history, RowStep
<1> QED
  BY <1>1, <1>2, <1>3, <1>4, <1>5, <1>6, <1>7, <1>8, <1>9, <1>10, <1>11,
     <1>12, <1>13, <1>14, <1>15, <1>16, <1>17, <1>18, <1>19 DEF Next, Step,
     Begin

-----------------------------------------------------------------------------
(* Types. *)

Table ==
  /\ rows \in [Signature -> Row \cup {NoRow}]
  /\ \A s, t \in Present : rows[s].id = rows[t].id => s = t
  /\ IsFiniteSet(Present)
  /\ made \in Nat /\ notes \in Nat

(* A row that is inserted has an id of its own.                            *)
LEMMA InsertedTypes ==
  ASSUME Typed, NEW s \in Signature, NEW n \in Steps, Derived(s, n), rows[s] = NoRow
  PROVE  Table'
<1>1. /\ rows \in [Signature -> Row \cup {NoRow}] /\ now \in Nat /\ Steps \subseteq Nat
      /\ made \in Nat /\ notes \in Nat /\ IsFiniteSet(Present)
  BY BoundsAssumption DEF Typed, TypeOK
<1>2. rows' = [rows EXCEPT ![s] = Inserted(n)]
  BY <1>1 DEF Derived, UpsertRow
<1>3. Inserted(n) \in Row /\ Inserted(n).id = NextId
  BY <1>1, FreshId DEF Inserted, Row, Status
<1>4. rows' \in [Signature -> Row \cup {NoRow}]
  BY <1>1, <1>2, <1>3
<1>5. Present' \subseteq Present \cup {s}
  BY <1>1, <1>2 DEF Present
<1>6. IsFiniteSet(Present \cup {s})
  BY <1>1, FS_AddElement
<1>7. IsFiniteSet(Present')
  BY <1>5, <1>6, FS_Subset
<1>8. \A x \in Signature \ {s} : rows'[x] = rows[x]
  BY <1>1, <1>2
<1>9. rows'[s].id = NextId
  BY <1>1, <1>2, <1>3
<1>10. \A x \in Present : x # s /\ rows[x].id < NextId /\ rows[x].id \in Nat
  BY <1>1, FreshId DEF Present, Row
<1>11. ASSUME NEW x \in Present', NEW y \in Present', rows'[x].id = rows'[y].id
       PROVE  x = y
  <2>1. CASE x = s /\ y # s
    BY <1>5, <1>8, <1>9, <1>10, <1>11, <2>1, FreshId DEF Present
  <2>2. CASE x # s /\ y = s
    BY <1>5, <1>8, <1>9, <1>10, <1>11, <2>2, FreshId DEF Present
  <2>3. CASE x # s /\ y # s
    <3>1. x \in Present /\ y \in Present /\ rows[x].id = rows[y].id
      BY <1>5, <1>8, <1>11, <2>3 DEF Present
    <3> QED
      BY <3>1 DEF Typed, TypeOK
  <2> QED
    BY <2>1, <2>2, <2>3
<1>12. made' \in Nat /\ notes' \in Nat
  BY <1>1 DEF Derived
<1> QED
  BY <1>4, <1>7, <1>11, <1>12 DEF Table

(* What is written into a row leaves a row, with its id.                   *)
LEMMA Edits ==
  ASSUME NEW r \in Row
  PROVE  /\ \A x \in Status : [r EXCEPT !.status = x] \in Row /\ [r EXCEPT !.status = x].id = r.id
         /\ \A n \in Steps : [r EXCEPT !.steps = n] \in Row /\ [r EXCEPT !.steps = n].id = r.id
<1>1. r.id \in Nat \ {0} /\ r.sightings \in Nat \ {0} /\ r.at \in Nat
  BY DEF Row
<1> QED
  BY <1>1 DEF Row

(* So does a sighting.                                                     *)
LEMMA Bumps ==
  ASSUME NEW r \in Row, now \in Nat
  PROVE  Bumped(r) \in Row /\ Bumped(r).id = r.id
<1>1. r.sightings + 1 \in Nat \ {0}
  BY DEF Row
<1> DEFINE x == IF r.status = "expired" THEN "open" ELSE r.status
<1>2. x \in Status
  BY DEF Row, Status
<1>3. Bumped(r) = [r EXCEPT !.sightings = @ + 1, !.at = now, !.status = x]
  BY DEF Bumped
<1> HIDE DEF x
<1> QED
  BY <1>1, <1>2, <1>3 DEF Row

(* Whatever a step leaves are rows, with ids of their own.                 *)
LEMMA RowTypes == ASSUME Typed, RowStep PROVE Table'
<1>0. /\ rows \in [Signature -> Row \cup {NoRow}] /\ now \in Nat /\ Steps \subseteq Nat
      /\ made \in Nat /\ notes \in Nat /\ IsFiniteSet(Present)
  BY BoundsAssumption DEF Typed, TypeOK
<1>a. ASSUME rows' \in [Signature -> Row \cup {NoRow}], made' \in Nat, notes' \in Nat,
             \A s \in Signature : rows'[s] # NoRow => rows[s] # NoRow /\ rows'[s].id = rows[s].id
      PROVE  Table'
  <2>1. Present' \subseteq Present /\ \A s \in Present' : rows'[s].id = rows[s].id
    BY <1>a DEF Present
  <2>2. IsFiniteSet(Present')
    BY <1>0, <2>1, FS_Subset
  <2> QED
    BY <1>a, <2>1, <2>2 DEF Table, Typed, TypeOK
<1>b. \A s \in Present : rows[s] \in Row
  BY <1>0 DEF Present
<1>1. CASE UNCHANGED <<rows, made, notes>>
  BY <1>0, <1>1, <1>a
<1>2. ASSUME NEW s \in Signature, NEW n \in Steps, Derived(s, n)
      PROVE  Table'
  <2>1. CASE rows[s] = NoRow
    BY <1>2, <2>1, InsertedTypes
  <2>2. CASE rows[s] # NoRow
    <3>1. rows[s] \in Row /\ Bumped(rows[s]) \in Row /\ Bumped(rows[s]).id = rows[s].id
      BY <1>0, <2>2, Bumps
    <3>2. \E r \in Row : rows' = [rows EXCEPT ![s] = r] /\ r.id = rows[s].id
      BY <1>0, <1>2, <2>2, <3>1 DEF Derived, UpsertRow
    <3>3. made' \in Nat /\ notes' \in Nat
      BY <1>0, <1>2 DEF Derived
    <3> QED
      BY <1>0, <2>2, <3>2, <3>3, <1>a
  <2> QED
    BY <2>1, <2>2
<1>3. ASSUME NEW s \in Present, Confirmed(s) PROVE Table'
  <2>1. \E r \in Row : rows' = [rows EXCEPT ![s] = r] /\ r.id = rows[s].id
    <3> DEFINE r == [rows[s] EXCEPT !.status = "confirmed"]
    <3>1. r \in Row /\ r.id = rows[s].id
      BY <1>b, Edits DEF Status
    <3>2. rows' = [rows EXCEPT ![s] = r]
      BY <1>3 DEF Confirmed
    <3> QED
      BY <3>1, <3>2
  <2>2. s \in Signature /\ rows[s] # NoRow /\ made' \in Nat /\ notes' \in Nat
    BY <1>0, <1>3 DEF Confirmed, Present
  <2> QED
    BY <1>0, <2>1, <2>2, <1>a
<1>4. ASSUME NEW s \in Present, Rejected(s) PROVE Table'
  <2>1. \E r \in Row : rows' = [rows EXCEPT ![s] = r] /\ r.id = rows[s].id
    <3> DEFINE r == [rows[s] EXCEPT !.status = "rejected"]
    <3>1. r \in Row /\ r.id = rows[s].id
      BY <1>b, Edits DEF Status
    <3>2. rows' = [rows EXCEPT ![s] = r]
      BY <1>4 DEF Rejected
    <3> QED
      BY <3>1, <3>2
  <2>2. s \in Signature /\ rows[s] # NoRow /\ made' \in Nat /\ notes' \in Nat
    BY <1>0, <1>4 DEF Rejected, Present
  <2> QED
    BY <1>0, <2>1, <2>2, <1>a
<1>5. ASSUME NEW s \in Present, NEW n \in Steps, Shortened(s, n) PROVE Table'
  <2>1. \E r \in Row : rows' = [rows EXCEPT ![s] = r] /\ r.id = rows[s].id
    <3> DEFINE r == [rows[s] EXCEPT !.steps = n]
    <3>1. r \in Row /\ r.id = rows[s].id
      BY <1>b, Edits DEF Status
    <3>2. rows' = [rows EXCEPT ![s] = r]
      BY <1>5 DEF Shortened
    <3> QED
      BY <3>1, <3>2
  <2>2. s \in Signature /\ rows[s] # NoRow /\ made' \in Nat /\ notes' \in Nat
    BY <1>0, <1>5 DEF Shortened, Present
  <2> QED
    BY <1>0, <2>1, <2>2, <1>a
<1>6. CASE Swept
  <2>1. \A s \in Present : [rows[s] EXCEPT !.status = "expired"] \in Row
    BY <1>b DEF Row, Status
  <2>2. /\ rows' \in [Signature -> Row \cup {NoRow}]
        /\ \A s \in Signature : rows'[s] # NoRow => rows[s] # NoRow /\ rows'[s].id = rows[s].id
    BY <1>0, <1>b, <1>6, <2>1 DEF Swept, Present, Row
  <2> QED
    BY <1>0, <1>6, <2>2, <1>a DEF Swept
<1>7. CASE Deleted
  <2>1. /\ rows' \in [Signature -> Row \cup {NoRow}]
        /\ \A s \in Signature : rows'[s] # NoRow => rows[s] # NoRow /\ rows'[s].id = rows[s].id
    BY <1>0, <1>7 DEF Deleted
  <2> QED
    BY <1>0, <1>7, <2>1, <1>a DEF Deleted
<1> QED
  BY <1>1, <1>2, <1>3, <1>4, <1>5, <1>6, <1>7 DEF RowStep

Others ==
  /\ book \in [Family -> Steps \cup {Taught, NoBook}]
  /\ noted \subseteq FlagSignature
  /\ pc \in [Process -> Label]
  /\ arg \in [Process -> Arg \cup {NoArg}]
  /\ seen \in [Process -> Read \cup {NoRow}]
  /\ told \in [Process -> BOOLEAN]
  /\ born \in [Signature -> Nat]
  /\ now \in Nat

(* What a command reads of a row.                                          *)
LEMMA ReadTypes ==
  ASSUME Typed, NEW p \in Process, NEW s \in Signature, rows[s] # NoRow, ReadRow(p, s)
  PROVE  /\ seen' \in [Process -> Read \cup {NoRow}] /\ seen'[p] \in Read
         /\ \A q \in Process \ {p} : seen'[q] = seen[q]
<1>1. rows[s] \in Row
  BY DEF Typed, TypeOK
<1>2. [id |-> rows[s].id, status |-> rows[s].status, steps |-> rows[s].steps] \in Read
  BY <1>1 DEF Row, Read
<1> QED
  BY <1>2 DEF ReadRow, Typed, TypeOK

(* A command that ends is in its place,                                    *)
LEMMA Returns ==
  ASSUME Typed, NEW p \in Process, Return(p)
  PROVE  /\ pc' \in [Process -> Label] /\ arg' \in [Process -> Arg \cup {NoArg}]
         /\ seen' \in [Process -> Read \cup {NoRow}] /\ told' \in [Process -> BOOLEAN]
         /\ Placed'
BY DEF Return, To, Typed, TypeOK, Placed, Label, Working

(* and so is one that goes on after a confirmation.                        *)
LEMMA AfterConfirms ==
  ASSUME Typed, NEW p \in Process, pc[p] \in {"confirm", "materialize"}, AfterConfirm(p)
  PROVE  /\ pc' \in [Process -> Label] /\ arg' \in [Process -> Arg \cup {NoArg}]
         /\ seen' \in [Process -> Read \cup {NoRow}] /\ told' \in [Process -> BOOLEAN]
         /\ Placed'
<1>1. CASE Return(p)
  BY <1>1, Returns
<1>2. CASE Goes(p, "synthesize")
  BY <1>2 DEF Goes, To, local, Typed, TypeOK, Placed, Label, Working
<1> QED
  BY <1>1, <1>2 DEF AfterConfirm

(* Every step keeps the other types, and every command in its place.       *)
LEMMA OtherTypes == ASSUME Typed, [Next]_vars PROVE Others' /\ Placed'
<1>1. ASSUME NEW p \in Process, NEW s \in FlagSignature, Sight(p, s)
      PROVE  Others' /\ Placed'
  <2>1. Max(Steps) \in Steps
    BY BoundsAssumption, MaxOfFinite
  <2>2. [sig |-> s, steps |-> Max(Steps), teach |-> FALSE] \in Arg
    BY <2>1 DEF Arg, Signature
  <2> QED
    BY <1>1, <2>2 DEF Sight, To, history, Typed, TypeOK, Others, Placed, Label, Working
<1>2. ASSUME NEW p \in Process, NEW s \in Signature, Confirm(p, s)
      PROVE  Others' /\ Placed'
  <2>1. [sig |-> s, steps |-> rows[s].steps, teach |-> FALSE] \in Arg
    BY <1>2 DEF Confirm, Typed, TypeOK, Row, Arg
  <2>2. seen' \in [Process -> Read \cup {NoRow}] /\ seen'[p] \in Read
        /\ \A q \in Process \ {p} : seen'[q] = seen[q]
    BY <1>2, ReadTypes DEF Confirm, Typed, TypeOK
  <2> QED
    BY <1>2, <2>1, <2>2 DEF Confirm, To, history, Typed, TypeOK, Others, Placed, Label, Working
<1>3. ASSUME NEW p \in Process, NEW s \in Signature, Reject(p, s)
      PROVE  Others' /\ Placed'
  <2>1. [sig |-> s, steps |-> rows[s].steps, teach |-> FALSE] \in Arg
    BY <1>3 DEF Reject, Typed, TypeOK, Row, Arg
  <2>2. seen' \in [Process -> Read \cup {NoRow}] /\ seen'[p] \in Read
        /\ \A q \in Process \ {p} : seen'[q] = seen[q]
    BY <1>3, ReadTypes DEF Reject, Typed, TypeOK
  <2> QED
    BY <1>3, <2>1, <2>2 DEF Reject, To, history, Typed, TypeOK, Others, Placed, Label, Working
<1>4. ASSUME NEW p \in Process, NEW label \in {"purge", "purgeAll"}, Expire(p, label)
      PROVE  Others' /\ Placed'
  BY <1>4 DEF Expire, To, local, Typed, TypeOK, Others, Placed, Label,
     Working, history
<1>5. ASSUME NEW p \in Process, NEW s \in BookSignature, NEW n \in Steps, NEW label \in {"book", "list"},
             Teach(p, s, n, label)
      PROVE  Others' /\ Placed'
  <2>1. [sig |-> s, steps |-> n, teach |-> TRUE] \in Arg
    BY DEF Arg, Signature
  <2> QED
    BY <1>5, <2>1 DEF Teach, To, history, Typed, TypeOK, Others, Placed, Label, Working
<1>6. ASSUME NEW p \in Process, Upsert(p) PROVE Others' /\ Placed'
  <2> DEFINE did == rows[arg[p].sig] = NoRow \/ rows[arg[p].sig].status # "rejected"
  <2>1. told' \in [Process -> BOOLEAN]
    <3>1. did \in BOOLEAN
      OBVIOUS
    <3>2. told' = [told EXCEPT ![p] = did]
      BY <1>6 DEF Upsert
    <3> HIDE DEF did
    <3> QED
      BY <3>1, <3>2 DEF Typed, TypeOK
  <2>2. born' \in [Signature -> Nat]
    <3>1. born' = [born EXCEPT ![arg[p].sig] =
                     IF rows[arg[p].sig] = NoRow THEN born[arg[p].sig] + 1 ELSE born[arg[p].sig]]
      BY <1>6, Zenon DEF Upsert
    <3>2. arg[p].sig \in Signature
      BY <1>6 DEF Upsert, Typed, Placed, Working, Arg
    <3> QED
      BY <3>1, <3>2 DEF Typed, TypeOK
  <2> QED
    BY <1>6, <2>1, <2>2 DEF Upsert, To, Typed, TypeOK, Others, Placed, Label, Working
<1>7. ASSUME NEW p \in Process, Reread(p) PROVE Others' /\ Placed'
  <2>1. CASE Return(p)
    BY <1>7, <2>1, Returns DEF Reread, history, Typed, TypeOK, Others
  <2>2. CASE ~ Return(p)
    <3>1. arg[p].sig \in Signature /\ rows[arg[p].sig] # NoRow /\ ReadRow(p, arg[p].sig)
      BY <1>7, <2>2 DEF Reread, Typed, Placed, Working, Arg
    <3>2. seen' \in [Process -> Read \cup {NoRow}] /\ seen'[p] \in Read
          /\ \A q \in Process \ {p} : seen'[q] = seen[q]
      BY <3>1, ReadTypes
    <3>3. told' \in [Process -> BOOLEAN]
      BY <1>7, <2>2 DEF Reread, ReportInserted, Typed, TypeOK
    <3> QED
      BY <1>7, <2>2, <3>2, <3>3 DEF Reread, To, history, Typed, TypeOK, Others, Placed, Label, Working
  <2> QED
    BY <2>1, <2>2
<1>8. ASSUME NEW p \in Process, Refresh(p) PROVE Others' /\ Placed'
  BY <1>8, Returns DEF Refresh, history, Typed, TypeOK, Others
<1>9. ASSUME NEW p \in Process, Materialize(p) PROVE Others' /\ Placed'
  <2>1. /\ pc[p] = "materialize" /\ AfterConfirm(p) /\ UNCHANGED <<now, born>>
    BY <1>9 DEF Materialize
  <2>2. arg[p].sig \in Signature /\ seen[p].steps \in Steps
    BY <2>1 DEF Typed, Placed, Working, Arg, Read
  <2>3. FamilyOf[arg[p].sig] \in Family
    BY <2>2, SignaturesAssumption
  <2>4. book' \in [Family -> Steps \cup {Taught, NoBook}] /\ noted' \subseteq FlagSignature
    BY <1>9, <2>2, <2>3 DEF Materialize, Typed, TypeOK
  <2> QED
    BY <2>1, <2>4, AfterConfirms DEF Typed, TypeOK, Others
<1>10. ASSUME NEW p \in Process, ConfirmOnly(p) PROVE Others' /\ Placed'
  BY <1>10, AfterConfirms DEF ConfirmOnly, history, Typed, TypeOK, Others
<1>11. ASSUME NEW p \in Process, RejectRow(p) PROVE Others' /\ Placed'
  BY <1>11, Returns DEF RejectRow, history, Typed, TypeOK, Others
<1>12. ASSUME NEW p \in Process, Purge(p) PROVE Others' /\ Placed'
  BY <1>12, Returns DEF Purge, history, Typed, TypeOK, Others
<1>13. ASSUME NEW p \in Process, TeachBook(p) PROVE Others' /\ Placed'
  BY <1>13 DEF TeachBook, To, local, Typed, TypeOK, Others, Placed, Label,
     Working, history
<1>14. ASSUME NEW p \in Process, List(p) PROVE Others' /\ Placed'
  <2>1. CASE pc' = [pc EXCEPT ![p] = "synthesize"] /\ UNCHANGED seen
    BY <1>14, <2>1 DEF List, history, Typed, TypeOK, Others, Placed, Label, Working
  <2>2. CASE pc' = [pc EXCEPT ![p] = "exists"] /\ ReadRow(p, arg[p].sig) /\ rows[arg[p].sig] # NoRow
    <3>1. arg[p].sig \in Signature
      BY <1>14 DEF List, Typed, Placed, Working, Arg
    <3>2. seen' \in [Process -> Read \cup {NoRow}] /\ seen'[p] \in Read
          /\ \A q \in Process \ {p} : seen'[q] = seen[q]
      BY <2>2, <3>1, ReadTypes
    <3> QED
      BY <1>14, <2>2, <3>2 DEF List, history, Typed, TypeOK, Others, Placed, Label, Working
  <2> QED
    BY <1>14, <2>1, <2>2 DEF List, To
<1>15. ASSUME NEW p \in Process, Exists(p) PROVE Others' /\ Placed'
  BY <1>15 DEF Exists, To, local, Typed, TypeOK, Others, Placed, Label,
     Working, history
<1>16. ASSUME NEW p \in Process, Synthesize(p) PROVE Others' /\ Placed'
  <2>1. CASE Return(p)
    BY <1>16, <2>1, Returns DEF Synthesize, history, Typed, TypeOK, Others
  <2>2. CASE Goes(p, "upsert")
    BY <1>16, <2>2 DEF Synthesize, Goes, To, local, history, Typed, TypeOK, Others, Placed, Label, Working
  <2> QED
    BY <1>16, <2>1, <2>2 DEF Synthesize
<1>17. ASSUME NEW p \in Process, Fail(p) PROVE Others' /\ Placed'
  <2>1. CASE Return(p)
    BY <1>17, <2>1, Returns DEF Fail, history, Typed, TypeOK, Others
  <2>2. CASE ~ Return(p)
    BY <1>17, <2>2 DEF Fail, Goes, To, local, history, Typed, TypeOK, Others, Placed, Label, Working
  <2> QED
    BY <2>1, <2>2
<1>18. ASSUME Tick PROVE Others' /\ Placed'
  BY <1>18 DEF Tick, local, Typed, TypeOK, Others, Placed, Label, Working,
     history
<1>19. CASE UNCHANGED vars
  BY <1>19 DEF vars, local, history, Typed, TypeOK, Others, Placed, Label,
     Working
<1> QED
  BY <1>1, <1>2, <1>3, <1>4, <1>5, <1>6, <1>7, <1>8, <1>9, <1>10, <1>11,
     <1>12, <1>13, <1>14, <1>15, <1>16, <1>17, <1>18, <1>19 DEF Next, Step,
     Begin

(* Every step keeps the types.                                             *)
LEMMA TypedStep == Typed /\ [Next]_vars => Typed'
<1> SUFFICES ASSUME Typed, [Next]_vars PROVE Typed'
  OBVIOUS
<1>1. Table'
  BY StepsOfRows, RowTypes
<1> QED
  BY <1>1, OtherTypes DEF Table, Others, Typed, TypeOK

(* They hold at first,                                                     *)
LEMMA TypedInit == Init => Typed
<1> SUFFICES ASSUME Init PROVE Typed
  OBVIOUS
<1>1. Present = {}
  BY DEF Init, Present
<1>2. IsFiniteSet(Present)
  BY <1>1, FS_EmptySet
<1>3. TypeOK
  BY <1>1 DEF Init, TypeOK, Label
<1> QED
  BY <1>2, <1>3 DEF Typed, Placed, Working, Init

(* and so for ever.                                                        *)
LEMMA AlwaysTyped == Spec => []Typed
BY TypedInit, TypedStep, PTL DEF Spec

-----------------------------------------------------------------------------
(* The theorems. *)

(* Candidates keeps its types: an id is the id of one row, and a command   *)
(* that works on a row has read one.                                       *)
THEOREM TypeCorrect == Spec => []TypeOK
<1>1. Typed => TypeOK
  BY DEF Typed
<1> QED
  BY <1>1, AlwaysTyped, PTL

(* A rejected row leaves that state only by a purge that asks for          *)
(* tombstones (candidates.go:427), whatever the other commands have read   *)
(* of it before.                                                           *)
THEOREM TombstoneAlwaysHolds == Spec => TombstoneHolds
<1> DEFINE Kept(s) == rows[s] # NoRow /\ rows[s].status = "rejected" =>
                        \/ rows'[s] = rows[s]
                        \/ rows'[s] = NoRow /\ \E p \in Process : pc[p] = "purgeAll"
<1>1. ASSUME Typed, [Next]_vars, NEW s \in Signature, rows[s] # NoRow, rows[s].status = "rejected"
      PROVE  \/ rows'[s] = rows[s]
             \/ rows'[s] = NoRow /\ \E p \in Process : pc[p] = "purgeAll"
  <2>0. RowStep /\ rows \in [Signature -> Row \cup {NoRow}] /\ Present \subseteq Signature
    BY <1>1, StepsOfRows DEF Typed, TypeOK, Present
  <2>1. CASE UNCHANGED <<rows, made, notes>>
    BY <2>1
  <2>2. ASSUME NEW x \in Signature, NEW n \in Steps, Derived(x, n) PROVE rows'[s] = rows[s]
    BY <1>1, <2>0, <2>2 DEF Derived, UpsertRow
  <2>3. ASSUME NEW x \in Present, Confirmed(x) \/ Rejected(x) \/ \E n \in Steps : Shortened(x, n)
        PROVE  rows'[s] = rows[s]
    BY <1>1, <2>0, <2>3 DEF Confirmed, Rejected, Shortened
  <2>4. CASE Swept
    BY <1>1, <2>4 DEF Swept
  <2>5. CASE Deleted
    <3>1. PICK p \in Process : rows' = [x \in Signature |->
            IF rows[x] # NoRow /\ rows[x].status \in Settled(p) THEN NoRow ELSE rows[x]]
      BY <2>5 DEF Deleted
    <3> QED
      BY <1>1, <3>1 DEF Settled
  <2> QED
    BY <2>0, <2>1, <2>2, <2>3, <2>4, <2>5 DEF RowStep
<1>2. Typed /\ [Next]_vars => [\A s \in Signature : Kept(s)]_vars
  BY <1>1
<1> QED
  BY <1>2, AlwaysTyped, PTL DEF Spec, TombstoneHolds

(* A confirmed flag correction, whose note stays in the playbook, is       *)
(* deleted or stays confirmed: a reject that read it open turns back in    *)
(* its transaction (candidates.go:363).                                    *)
THEOREM ConfirmedFlagAlwaysStays == Spec => ConfirmedFlagStays
<1> DEFINE Kept(s) == rows[s] # NoRow /\ rows[s].status = "confirmed" =>
                        rows'[s] = NoRow \/ rows'[s].status = "confirmed"
<1>1. ASSUME Typed, [Next]_vars, NEW s \in FlagSignature, rows[s] # NoRow,
             rows[s].status = "confirmed"
      PROVE  rows'[s] = NoRow \/ rows'[s].status = "confirmed"
  <2>0. /\ RowStep /\ rows \in [Signature -> Row \cup {NoRow}] /\ Present \subseteq Signature
        /\ s \in Signature /\ s \notin BookSignature
    BY <1>1, StepsOfRows, SignaturesAssumption DEF Typed, TypeOK, Present, Signature
  <2>1. CASE UNCHANGED <<rows, made, notes>>
    BY <1>1, <2>1
  <2>2. ASSUME NEW x \in Signature, NEW n \in Steps, Derived(x, n)
        PROVE  rows'[s].status = "confirmed"
    <3>1. rows[s] \in Row
      BY <1>1, <2>0
    <3>2. Bumped(rows[s]).status = "confirmed"
      BY <1>1, <3>1 DEF Bumped, Row
    <3> QED
      BY <1>1, <2>0, <2>2, <3>2 DEF Derived, UpsertRow
  <2>3. ASSUME NEW x \in Present, Confirmed(x) \/ Rejected(x) \/ \E n \in Steps : Shortened(x, n)
        PROVE  rows'[s].status = "confirmed"
    BY <1>1, <2>0, <2>3 DEF Confirmed, Rejected, Shortened
  <2>4. CASE Swept
    BY <1>1, <2>0, <2>4 DEF Swept
  <2>5. CASE Deleted
    BY <1>1, <2>0, <2>5 DEF Deleted
  <2> QED
    BY <2>0, <2>1, <2>2, <2>3, <2>4, <2>5 DEF RowStep
<1>2. Typed /\ [Next]_vars => [\A s \in FlagSignature : Kept(s)]_vars
  BY <1>1
<1> QED
  BY <1>2, AlwaysTyped, PTL DEF Spec, ConfirmedFlagStays

-----------------------------------------------------------------------------
(* What a purge finds expired has been unseen for the TTL ever since the   *)
(* sweep: a sighting in between has opened it again.                       *)

Aged == \A s \in Present : rows[s].status = "expired" => Unseen(rows[s])

(* The clock only goes on.                                                 *)
LEMMA TimePasses == ASSUME [Next]_vars PROVE now' = now \/ now' = now + 1
<1>1. ASSUME NEW p \in Process, NEW s \in FlagSignature, Sight(p, s)
      PROVE  now' = now \/ now' = now + 1
  BY <1>1 DEF Sight, To, history, history
<1>2. ASSUME NEW p \in Process, NEW s \in Signature, Confirm(p, s)
      PROVE  now' = now \/ now' = now + 1
  BY <1>2 DEF Confirm, ReadRow, To, history, history
<1>3. ASSUME NEW p \in Process, NEW s \in Signature, Reject(p, s)
      PROVE  now' = now \/ now' = now + 1
  BY <1>3 DEF Reject, ReadRow, To, history, history
<1>4. ASSUME NEW p \in Process, NEW label \in {"purge", "purgeAll"}, Expire(p, label)
      PROVE  now' = now \/ now' = now + 1
  BY <1>4 DEF Expire, To, local, history, history
<1>5. ASSUME NEW p \in Process, NEW s \in BookSignature, NEW n \in Steps, NEW label \in {"book", "list"},
             Teach(p, s, n, label)
      PROVE  now' = now \/ now' = now + 1
  BY <1>5 DEF Teach, To, history, history
<1>6. ASSUME NEW p \in Process, Upsert(p)
      PROVE  now' = now \/ now' = now + 1
  BY <1>6 DEF Upsert, To, history, history
<1>7. ASSUME NEW p \in Process, Reread(p)
      PROVE  now' = now \/ now' = now + 1
  BY <1>7 DEF Reread, Return, To, ReadRow, history, history
<1>8. ASSUME NEW p \in Process, Refresh(p)
      PROVE  now' = now \/ now' = now + 1
  BY <1>8 DEF Refresh, Return, To, history, history
<1>9. ASSUME NEW p \in Process, Materialize(p)
      PROVE  now' = now \/ now' = now + 1
  BY <1>9 DEF Materialize, AfterConfirm, local, Return, To, Goes, history,
     history
<1>10. ASSUME NEW p \in Process, ConfirmOnly(p)
      PROVE  now' = now \/ now' = now + 1
  BY <1>10 DEF ConfirmOnly, AfterConfirm, local, Return, To, Goes, history,
     history
<1>11. ASSUME NEW p \in Process, RejectRow(p)
      PROVE  now' = now \/ now' = now + 1
  BY <1>11 DEF RejectRow, Return, To, history, history
<1>12. ASSUME NEW p \in Process, Purge(p)
      PROVE  now' = now \/ now' = now + 1
  BY <1>12 DEF Purge, Return, To, history, history
<1>13. ASSUME NEW p \in Process, TeachBook(p)
      PROVE  now' = now \/ now' = now + 1
  BY <1>13 DEF TeachBook, To, local, history, history
<1>14. ASSUME NEW p \in Process, List(p) PROVE now' = now \/ now' = now + 1
  BY <1>14 DEF List, To, ReadRow, history, history
<1>15. ASSUME NEW p \in Process, Exists(p)
      PROVE  now' = now \/ now' = now + 1
  BY <1>15 DEF Exists, To, local, history, history
<1>16. ASSUME NEW p \in Process, Synthesize(p)
      PROVE  now' = now \/ now' = now + 1
  BY <1>16 DEF Synthesize, Return, To, Goes, local, history, history
<1>17. ASSUME NEW p \in Process, Fail(p) PROVE now' = now \/ now' = now + 1
  BY <1>17 DEF Fail, Return, To, Goes, local, history, history
<1>18. ASSUME Tick PROVE now' = now \/ now' = now + 1
  BY <1>18 DEF Tick, local, history, history
<1>19. CASE UNCHANGED vars
  BY <1>19 DEF vars, local, history
<1> QED
  BY <1>1, <1>2, <1>3, <1>4, <1>5, <1>6, <1>7, <1>8, <1>9, <1>10, <1>11,
     <1>12, <1>13, <1>14, <1>15, <1>16, <1>17, <1>18, <1>19 DEF Next, Step,
     Begin

(* A row that stays unseen was unseen before.                              *)
LEMMA StaysUnseen ==
  ASSUME Typed, NEW r \in Row, Unseen(r), now' = now \/ now' = now + 1
  PROVE  Unseen(r)'
<1>1. r.at \in Nat /\ now \in Nat /\ TTL \in Nat
  BY BoundsAssumption DEF Typed, TypeOK, Row
<1> QED
  BY <1>1 DEF Unseen

(* Every step keeps Aged.                                                  *)
LEMMA AgedStep == Typed /\ Aged /\ [Next]_vars => Aged'
<1> SUFFICES ASSUME Typed, Aged, [Next]_vars,
                    NEW s \in Present', rows'[s].status = "expired"
             PROVE  Unseen(rows[s])'
  BY DEF Aged
<1>0. /\ rows \in [Signature -> Row \cup {NoRow}] /\ s \in Signature /\ rows'[s] # NoRow
      /\ RowStep /\ (now' = now \/ now' = now + 1)
  BY StepsOfRows, TimePasses DEF Typed, TypeOK, Present
<1>a. ASSUME s \in Present, rows'[s] = rows[s] PROVE Unseen(rows[s])'
  <2>1. Unseen(rows[s]) /\ rows[s] \in Row
    BY <1>0, <1>a DEF Aged, Present
  <2>2. PICK r \in Row : r = rows[s]
    BY <2>1
  <2>3. Unseen(r)'
    BY <1>0, <2>1, <2>2, StaysUnseen
  <2> QED
    BY <1>a, <2>2, <2>3 DEF Unseen
<1>1. CASE UNCHANGED <<rows, made, notes>>
  BY <1>0, <1>1, <1>a DEF Present
<1>2. ASSUME NEW x \in Signature, NEW n \in Steps, Derived(x, n) PROVE Unseen(rows[s])'
  <2>1. CASE x # s \/ rows'[s] = rows[s]
    BY <1>0, <1>2, <2>1, <1>a DEF Derived, UpsertRow, Present
  <2>2. CASE x = s /\ rows'[s] # rows[s]
    <3>1. rows'[s] = Inserted(n) \/ (rows[s] \in Row /\ rows'[s] = Bumped(rows[s]))
      BY <1>0, <1>2, <2>2 DEF Derived, UpsertRow
    <3>2. Inserted(n).status = "open"
      BY DEF Inserted
    <3>3. rows[s] \in Row => Bumped(rows[s]).status # "expired"
      BY DEF Bumped, Row
    <3> QED
      BY <3>1, <3>2, <3>3
  <2> QED
    BY <2>1, <2>2
<1>3. ASSUME NEW x \in Present, Confirmed(x) \/ Rejected(x) \/ \E n \in Steps : Shortened(x, n)
      PROVE  Unseen(rows[s])'
  <2>1. x \in Signature /\ rows[x] \in Row
    BY <1>0, <1>3 DEF Present
  <2>2. CASE x = s
    BY <1>0, <1>3, <2>1, <2>2 DEF Confirmed, Rejected, Shortened, Row
  <2>3. CASE x # s
    BY <1>0, <1>3, <2>1, <2>3, <1>a DEF Confirmed, Rejected, Shortened, Present
  <2> QED
    BY <2>2, <2>3
<1>4. CASE Swept
  <2>1. CASE rows'[s] = rows[s]
    BY <1>0, <2>1, <1>a DEF Present
  <2>2. CASE rows'[s] # rows[s]
    <3>1. rows[s] \in Row /\ Unseen(rows[s]) /\ rows'[s] = [rows[s] EXCEPT !.status = "expired"]
      BY <1>0, <1>4, <2>2 DEF Swept
    <3>2. PICK r \in Row : r = rows[s]
      BY <3>1
    <3>3. Unseen(r)'
      BY <1>0, <3>1, <3>2, StaysUnseen
    <3>4. rows'[s].at = r.at
      BY <3>1, <3>2 DEF Row
    <3> QED
      BY <3>3, <3>4 DEF Unseen
  <2> QED
    BY <2>1, <2>2
<1>5. CASE Deleted
  BY <1>0, <1>5, <1>a DEF Deleted, Present
<1> QED
  BY <1>0, <1>1, <1>2, <1>3, <1>4, <1>5 DEF RowStep

(* What a purge deletes as expired has been unseen for the TTL: a sighting *)
(* that arrives between the sweep and the delete keeps its candidate       *)
(* (candidates.go:427).                                                    *)
THEOREM FreshSightingAlwaysSurvives == Spec => FreshSightingSurvives
<1> DEFINE Old(s) == rows[s] # NoRow /\ rows[s].status = "expired" /\ rows'[s] = NoRow =>
                       Unseen(rows[s])
<1>1. Init => Aged
  BY DEF Init, Aged, Present
<1>2. Typed /\ Aged /\ [Next]_vars => [\A s \in Signature : Old(s)]_vars
  BY DEF Aged, Present
<1> QED
  BY <1>1, <1>2, AgedStep, AlwaysTyped, PTL DEF Spec, FreshSightingSurvives

-----------------------------------------------------------------------------
(* The flag candidates that may still be materialized, and the notes that  *)
(* were written, are no more than the candidates there were.               *)

Unconfirmed == {s \in FlagSignature : rows[s] # NoRow /\ rows[s].status # "confirmed"}
Balanced == notes + Cardinality(Unconfirmed) <= made

(* There are finitely many.                                                *)
LEMMA FewUnconfirmed ==
  ASSUME Typed PROVE IsFiniteSet(Unconfirmed) /\ Cardinality(Unconfirmed) \in Nat
<1>1. Unconfirmed \subseteq Present
  BY DEF Unconfirmed, Present, Signature
<1> QED
  BY <1>1, FS_Subset, FS_CardinalityType DEF Typed

(* Every step keeps Balanced.                                              *)
LEMMA BalancedStep == Typed /\ Balanced /\ [Next]_vars => Balanced'
<1> SUFFICES ASSUME Typed, Balanced, [Next]_vars PROVE Balanced'
  OBVIOUS
<1>0. /\ rows \in [Signature -> Row \cup {NoRow}] /\ RowStep
      /\ made \in Nat /\ notes \in Nat
      /\ IsFiniteSet(Unconfirmed) /\ Cardinality(Unconfirmed) \in Nat
      /\ FlagSignature \subseteq Signature
  BY StepsOfRows, FewUnconfirmed DEF Typed, TypeOK, Signature
<1>a. ASSUME Unconfirmed' \subseteq Unconfirmed, UNCHANGED <<made, notes>> PROVE Balanced'
  <2>1. Cardinality(Unconfirmed') <= Cardinality(Unconfirmed) /\ Cardinality(Unconfirmed') \in Nat
    BY <1>0, <1>a, FS_Subset, FS_CardinalityType
  <2> QED
    BY <1>0, <1>a, <2>1 DEF Balanced
<1>1. CASE UNCHANGED <<rows, made, notes>>
  BY <1>1, <1>a DEF Unconfirmed
<1>2. ASSUME NEW s \in Signature, NEW n \in Steps, Derived(s, n) PROVE Balanced'
  <2>1. CASE rows[s] = NoRow /\ s \in FlagSignature
    <3>1. Unconfirmed' \subseteq Unconfirmed \cup {s} /\ s \notin Unconfirmed
      BY <1>0, <1>2, <2>1 DEF Derived, UpsertRow, Unconfirmed
    <3>2. IsFiniteSet(Unconfirmed \cup {s})
          /\ Cardinality(Unconfirmed \cup {s}) = Cardinality(Unconfirmed) + 1
      BY <1>0, <3>1, FS_AddElement
    <3>3. Cardinality(Unconfirmed') <= Cardinality(Unconfirmed) + 1
          /\ Cardinality(Unconfirmed') \in Nat
      BY <3>1, <3>2, FS_Subset, FS_CardinalityType
    <3>4. made' = made + 1 /\ notes' = notes
      BY <1>2, <2>1 DEF Derived
    <3> QED
      BY <1>0, <3>3, <3>4 DEF Balanced
  <2>2. CASE rows[s] = NoRow /\ s \notin FlagSignature
    BY <1>0, <1>2, <2>2, <1>a DEF Derived, UpsertRow, Unconfirmed
  <2>3. CASE rows[s] # NoRow
    <3>1. rows[s] \in Row
      BY <1>0, <2>3
    <3>2. rows[s].status = "confirmed" => Bumped(rows[s]).status = "confirmed"
      BY <3>1 DEF Bumped, Row
    <3>3. Unconfirmed' \subseteq Unconfirmed
      BY <1>0, <1>2, <2>3, <3>2 DEF Derived, UpsertRow, Unconfirmed
    <3> QED
      BY <1>2, <2>3, <3>3, <1>a DEF Derived
  <2> QED
    BY <2>1, <2>2, <2>3
<1>3. ASSUME NEW s \in Present, Confirmed(s) PROVE Balanced'
  <2>1. s \in Signature /\ rows[s] \in Row
    BY <1>0, <1>3 DEF Present
  <2>2. Unconfirmed' = Unconfirmed \ {s}
    BY <1>0, <1>3, <2>1 DEF Confirmed, Unconfirmed, Row
  <2>3. CASE notes' = notes
    BY <1>3, <2>2, <2>3, <1>a DEF Confirmed
  <2>4. CASE s \in FlagSignature /\ notes' = notes + 1
    <3>1. s \in Unconfirmed
      BY <1>3, <2>4 DEF Confirmed, Unconfirmed, Present
    <3>2. Cardinality(Unconfirmed \ {s}) = Cardinality(Unconfirmed) - 1
      BY <1>0, <3>1, FS_RemoveElement
    <3>3. made' = made
      BY <1>3 DEF Confirmed
    <3> QED
      BY <1>0, <2>2, <2>4, <3>2, <3>3 DEF Balanced
  <2> QED
    BY <1>3, <2>3, <2>4 DEF Confirmed
<1>4. ASSUME NEW s \in Present, Rejected(s) PROVE Balanced'
  <2>1. s \in FlagSignature => s \in Unconfirmed
    BY <1>4, SignaturesAssumption DEF Rejected, Unconfirmed, Present
  <2>2. Unconfirmed' \subseteq Unconfirmed
    BY <1>0, <1>4, <2>1 DEF Rejected, Unconfirmed, Present
  <2> QED
    BY <1>4, <2>2, <1>a DEF Rejected
<1>5. ASSUME NEW s \in Present, NEW n \in Steps, Shortened(s, n) PROVE Balanced'
  <2>1. s \in FlagSignature => s \in Unconfirmed
    BY <1>5 DEF Shortened, Unconfirmed, Present
  <2>2. Unconfirmed' \subseteq Unconfirmed
    BY <1>0, <1>5, <2>1 DEF Shortened, Unconfirmed, Present
  <2> QED
    BY <1>5, <2>2, <1>a DEF Shortened
<1>6. CASE Swept
  <2>1. Unconfirmed' \subseteq Unconfirmed
    BY <1>0, <1>6 DEF Swept, Unconfirmed
  <2> QED
    BY <1>6, <2>1, <1>a DEF Swept
<1>7. CASE Deleted
  <2>1. Unconfirmed' \subseteq Unconfirmed
    BY <1>0, <1>7 DEF Deleted, Unconfirmed
  <2> QED
    BY <1>7, <2>1, <1>a DEF Deleted
<1> QED
  BY <1>0, <1>1, <1>2, <1>3, <1>4, <1>5, <1>6, <1>7 DEF RowStep

(* A flag candidate is materialized at most once in its life, however many *)
(* processes confirm it at the same time, also when the id they have read  *)
(* has come to name another row (candidates.go:316).                       *)
THEOREM AlwaysMaterializedOnce == Spec => []MaterializedOnce
<1>1. Init => Balanced
  <2> SUFFICES ASSUME Init PROVE Balanced
    OBVIOUS
  <2>1. Unconfirmed = {}
    BY DEF Init, Unconfirmed, Signature
  <2>2. Cardinality(Unconfirmed) = 0
    BY <2>1, FS_EmptySet
  <2> QED
    BY <2>2 DEF Init, Balanced
<1>2. Typed /\ Balanced => MaterializedOnce
  BY FewUnconfirmed DEF Typed, TypeOK, Balanced, MaterializedOnce
<1> QED
  BY <1>1, <1>2, BalancedStep, AlwaysTyped, PTL DEF Spec
=============================================================================
