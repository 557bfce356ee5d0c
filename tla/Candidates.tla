----------------------------- MODULE Candidates -----------------------------
(***************************************************************************)
(* The life cycle of learned candidates (internal/store/candidates.go) and *)
(* the commands that drive it: the derivation of flag corrections, teach   *)
(* with its promotion and synthesis, learnings confirm, reject and purge.  *)
(*                                                                         *)
(* A process runs one command at a time.  A SQL statement, or a            *)
(* transaction (they are opened IMMEDIATE), is one step; between two of    *)
(* them the other processes run, and a process that meets an error or dies *)
(* goes no further.  A signature is a candidate's identity: flag           *)
(* corrections and synthesized playbooks have signatures of their own.     *)
(***************************************************************************)
EXTENDS Integers, FiniteSets, FiniteSetsExt

CONSTANTS
  Process,
  FlagSignature,   \* signatures of class flag_alias
  BookSignature,   \* signatures of class playbook_candidate, one per family
  Family,
  FamilyOf,        \* a signature's query family
  Steps,           \* how many steps a synthesized playbook may have
  TTL,             \* how long an open candidate may go unseen, in ticks
  MaxTime,         \* bound: the clock stops here
  MaxSightings,    \* bound: no row is seen more often
  MaxBorn,         \* bound: no signature is inserted more often
  Taught, NoBook, NoRow, NoArg

Signature == FlagSignature \cup BookSignature

ASSUME SignaturesAssumption ==
  /\ FlagSignature \cap BookSignature = {}
  /\ FamilyOf \in [Signature -> Family]
ASSUME BoundsAssumption ==
  /\ Steps \subseteq Nat \ {0} /\ Steps # {} /\ IsFiniteSet(Steps)
  /\ TTL \in Nat /\ MaxTime \in Nat
  /\ MaxSightings \in Nat /\ MaxBorn \in Nat

VARIABLES
  rows,       \* learn_candidates, by signature
  book,       \* learning_playbooks: the playbook of each family
  noted,      \* the flag corrections that are in their family's notes
  pc,         \* where each process is
  arg,        \* the signature and the steps of the command it runs
  seen,       \* the row it has read
  now,        \* the clock
  told,       \* what this call reports: that it inserted it
  born,       \* how often each signature was inserted, for the bound
  made,       \* history: how many flag candidates were inserted
  notes       \* history: how many corrections were appended to notes

vars == <<rows, book, noted, pc, arg, seen, now, told, born, made, notes>>
local == <<arg, seen, told>>
history == <<born, made, notes>>

Status == {"open", "confirmed", "rejected", "expired"}
Row == [id : Nat \ {0}, status : Status, sightings : Nat \ {0}, steps : Steps, at : Nat]
Arg == [sig : Signature, steps : Steps, teach : BOOLEAN]
Read == [id : Nat \ {0}, status : Status, steps : Steps]
Label == {"idle", "book", "list", "exists", "confirm", "materialize", "synthesize",
          "upsert", "reread", "derived", "reject", "purge", "purgeAll"}

Present == {s \in Signature : rows[s] # NoRow}
Ids == {rows[s].id : s \in Present}
WithId(i) == CHOOSE s \in Present : rows[s].id = i

TypeOK ==
  /\ rows \in [Signature -> Row \cup {NoRow}]
  /\ \A s, t \in Present : rows[s].id = rows[t].id => s = t
  /\ book \in [Family -> Steps \cup {Taught, NoBook}]
  /\ noted \subseteq FlagSignature
  /\ pc \in [Process -> Label]
  /\ arg \in [Process -> Arg \cup {NoArg}]
  /\ seen \in [Process -> Read \cup {NoRow}]
  /\ now \in Nat
  /\ told \in [Process -> BOOLEAN]
  /\ born \in [Signature -> Nat]
  /\ made \in Nat /\ notes \in Nat

Init ==
  /\ rows = [s \in Signature |-> NoRow]
  /\ book = [f \in Family |-> NoBook]
  /\ noted = {}
  /\ pc = [p \in Process |-> "idle"]
  /\ arg = [p \in Process |-> NoArg]
  /\ seen = [p \in Process |-> NoRow]
  /\ now = 0
  /\ told = [p \in Process |-> FALSE]
  /\ born = [s \in Signature |-> 0]
  /\ made = 0 /\ notes = 0

To(p, label) == pc' = [pc EXCEPT ![p] = label]
Goes(p, label) == To(p, label) /\ UNCHANGED local
ReadRow(p, s) ==
  seen' = [seen EXCEPT ![p] =
    [id |-> rows[s].id, status |-> rows[s].status, steps |-> rows[s].steps]]

(* A command ends and its locals with it. *)
Return(p) ==
  /\ To(p, "idle")
  /\ arg' = [arg EXCEPT ![p] = NoArg]
  /\ seen' = [seen EXCEPT ![p] = NoRow]
  /\ told' = [told EXCEPT ![p] = FALSE]

(* A family has a playbook row once it was taught one or given a note. *)
Covered(f) ==
  \/ book[f] # NoBook
  \/ \E s \in noted : FamilyOf[s] = f

-----------------------------------------------------------------------------
(* DeriveCandidate: one upsert, then the row is read back by signature.    *)

NextId == IF Present = {} THEN 1 ELSE Max(Ids) + 1

Inserted(n) == [id |-> NextId, status |-> "open", sightings |-> 1, steps |-> n, at |-> now]
BumpedAsIs(r) == [r EXCEPT !.sightings = @ + 1, !.at = now]
Bumped(r) ==
  [r EXCEPT !.sightings = @ + 1, !.at = now,
            !.status = IF @ = "expired" THEN "open" ELSE @]

UpsertEvenRejected(s, n) ==
  rows' = [rows EXCEPT ![s] = IF @ = NoRow THEN Inserted(n)
                              ELSE [Bumped(@) EXCEPT !.status = "open"]]
UpsertRow(s, n) ==
  rows' = [rows EXCEPT ![s] = IF @ = NoRow THEN Inserted(n)
                              ELSE IF @.status = "rejected" THEN @
                              ELSE Bumped(@)]

(* The post-run pass counts an observation of a flag correction. *)
Sight(p, s) ==
  /\ pc[p] = "idle"
  /\ arg' = [arg EXCEPT ![p] = [sig |-> s, steps |-> Max(Steps), teach |-> FALSE]]
  /\ To(p, "upsert")
  /\ UNCHANGED <<rows, book, noted, seen, now, told, history>>

Upsert(p) ==
  LET s == arg[p].sig IN
  /\ pc[p] = "upsert"
  /\ rows[s] = NoRow => born[s] < MaxBorn
  /\ rows[s] # NoRow => rows[s].sightings < MaxSightings
  /\ UpsertRow(s, arg[p].steps)
  \* RowsAffected, kept until the row has been read back
  /\ told' = [told EXCEPT ![p] = rows[s] = NoRow \/ rows[s].status # "rejected"]
  /\ born' = [born EXCEPT ![s] = IF rows[s] = NoRow THEN @ + 1 ELSE @]
  /\ made' = IF rows[s] = NoRow /\ s \in FlagSignature THEN made + 1 ELSE made
  /\ To(p, "reread")
  /\ UNCHANGED <<book, noted, notes, arg, seen, now>>

ReportInserted(p, r) == told[p] /\ r.sightings = 1

Reread(p) ==
  LET s == arg[p].sig IN
  /\ pc[p] = "reread"
  /\ IF rows[s] = NoRow
     THEN Return(p)
     ELSE /\ ReadRow(p, s)
          /\ told' = [told EXCEPT ![p] = ReportInserted(p, rows[s])]
          /\ To(p, "derived")
          /\ UNCHANGED arg
  /\ UNCHANGED <<rows, book, noted, now, history>>

-----------------------------------------------------------------------------
(* The end of a derivation.  Synthesis replaces the payload of the row it  *)
(* read, when it did not insert it and the fresh episode is shorter.       *)

Shorter(n, r) == n < r.steps

Refresh(p) ==
  LET s == arg[p].sig
      i == seen[p].id
      replace == /\ s \in BookSignature
                 /\ seen[p].status # "rejected"
                 /\ ~told[p]
                 /\ Shorter(arg[p].steps, seen[p])
  IN
  /\ pc[p] = "derived"
  /\ IF replace /\ i \in Ids /\ rows[WithId(i)].status = "open"
     THEN rows' = [rows EXCEPT ![WithId(i)].steps = arg[p].steps]
     ELSE UNCHANGED rows
  /\ Return(p)
  /\ UNCHANGED <<book, noted, now, history>>

-----------------------------------------------------------------------------
(* Confirming: the transaction finds the row by its id, checks that it is  *)
(* open and of the class it is to be, writes the artifact of the row the   *)
(* command has read, and marks the row.                                    *)

ClassOf(s) == IF s \in FlagSignature THEN FlagSignature ELSE BookSignature

RowExists(p) == seen[p].id \in Ids
RowIsOpen(p) == seen[p].id \in Ids /\ rows[WithId(seen[p].id)].status = "open"

MarkConfirmed(p) ==
  rows' = [rows EXCEPT ![WithId(seen[p].id)].status = "confirmed"]

(* The command that ends after a confirmation, or the teach that goes on.  *)
AfterConfirm(p) == IF arg[p].teach THEN Goes(p, "synthesize") ELSE Return(p)

Materialize(p) ==
  LET s == arg[p].sig IN
  /\ pc[p] = "materialize"
  /\ IF RowIsOpen(p) /\ WithId(seen[p].id) \in ClassOf(s)
     THEN /\ MarkConfirmed(p)
          /\ IF s \in FlagSignature
             THEN noted' = noted \cup {s} /\ notes' = notes + 1 /\ UNCHANGED book
             ELSE book' = [book EXCEPT ![FamilyOf[s]] = seen[p].steps] /\ UNCHANGED <<noted, notes>>
     ELSE UNCHANGED <<rows, book, noted, notes>>
  /\ AfterConfirm(p)
  /\ UNCHANGED <<now, born, made>>

ConfirmOnly(p) ==
  /\ pc[p] = "confirm"
  /\ IF RowIsOpen(p) THEN MarkConfirmed(p) ELSE UNCHANGED rows
  /\ AfterConfirm(p)
  /\ UNCHANGED <<book, noted, now, history>>

(* learnings confirm <id>: read the row, show it, confirm it. *)
Confirm(p, s) ==
  /\ pc[p] = "idle"
  /\ rows[s] # NoRow /\ rows[s].status = "open"
  /\ ReadRow(p, s)
  /\ arg' = [arg EXCEPT ![p] = [sig |-> s, steps |-> rows[s].steps, teach |-> FALSE]]
  /\ To(p, "materialize")
  /\ UNCHANGED <<rows, book, noted, now, told, history>>

-----------------------------------------------------------------------------
(* learnings reject <id>: read the row, then check and mark it in a        *)
(* transaction.                                                            *)

Reject(p, s) ==
  /\ pc[p] = "idle"
  /\ rows[s] # NoRow
  /\ ReadRow(p, s)
  /\ arg' = [arg EXCEPT ![p] = [sig |-> s, steps |-> rows[s].steps, teach |-> FALSE]]
  /\ To(p, "reject")
  /\ UNCHANGED <<rows, book, noted, now, told, history>>

RejectableAsRead(p) ==
  LET i == seen[p].id IN
  /\ i \in Ids
  /\ seen[p].status # "rejected"
  /\ seen[p].status = "confirmed" => arg[p].sig \in BookSignature
Rejectable(p) ==
  LET i == seen[p].id IN
  /\ i \in Ids
  /\ rows[WithId(i)].status # "rejected"
  /\ rows[WithId(i)].status = "confirmed" => WithId(i) \in BookSignature

RejectRow(p) ==
  /\ pc[p] = "reject"
  /\ IF Rejectable(p)
     THEN rows' = [rows EXCEPT ![WithId(seen[p].id)].status = "rejected"]
     ELSE UNCHANGED rows
  /\ Return(p)
  /\ UNCHANGED <<book, noted, now, history>>

-----------------------------------------------------------------------------
(* learnings purge [--tombstones]: sweep the unseen open rows to expired,  *)
(* then delete the settled ones.                                           *)

Unseen(r) == r.at < now - TTL

Expire(p, label) ==
  /\ pc[p] = "idle"
  /\ rows' = [s \in Signature |->
       IF rows[s] # NoRow /\ rows[s].status = "open" /\ Unseen(rows[s])
       THEN [rows[s] EXCEPT !.status = "expired"] ELSE rows[s]]
  /\ To(p, label)
  /\ UNCHANGED <<book, noted, local, now, history>>

Settled(p) ==
  {"expired", "confirmed"} \cup IF pc[p] = "purgeAll" THEN {"rejected"} ELSE {}

Purge(p) ==
  /\ pc[p] \in {"purge", "purgeAll"}
  /\ rows' = [s \in Signature |->
       IF rows[s] # NoRow /\ rows[s].status \in Settled(p) THEN NoRow ELSE rows[s]]
  /\ Return(p)
  /\ UNCHANGED <<book, noted, now, history>>

-----------------------------------------------------------------------------
(* teach: record a playbook if one was given; promote the family's open    *)
(* candidate, with its playbook unless the family has one; synthesize a    *)
(* candidate from the session's journal unless the family has a playbook.  *)

Teach(p, s, n, label) ==
  /\ pc[p] = "idle"
  /\ arg' = [arg EXCEPT ![p] = [sig |-> s, steps |-> n, teach |-> TRUE]]
  /\ To(p, label)
  /\ UNCHANGED <<rows, book, noted, seen, now, told, history>>

TeachBook(p) ==
  /\ pc[p] = "book"
  /\ book' = [book EXCEPT ![FamilyOf[arg[p].sig]] = Taught]
  /\ To(p, "list")
  /\ UNCHANGED <<rows, noted, local, now, history>>

List(p) ==
  LET s == arg[p].sig IN
  /\ pc[p] = "list"
  /\ IF rows[s] # NoRow /\ rows[s].status = "open"
     THEN ReadRow(p, s) /\ To(p, "exists")
     ELSE To(p, "synthesize") /\ UNCHANGED seen
  /\ UNCHANGED <<rows, book, noted, arg, now, told, history>>

Exists(p) ==
  /\ pc[p] = "exists"
  /\ To(p, IF Covered(FamilyOf[arg[p].sig]) THEN "confirm" ELSE "materialize")
  /\ UNCHANGED <<rows, book, noted, local, now, history>>

Synthesize(p) ==
  /\ pc[p] = "synthesize"
  /\ IF Covered(FamilyOf[arg[p].sig]) THEN Return(p) ELSE Goes(p, "upsert")
  /\ UNCHANGED <<rows, book, noted, now, history>>

-----------------------------------------------------------------------------

(* An error ends a command, and so does the death of its process.  Only a  *)
(* teach goes on: a failed playbook does not stop the promotion, a failed  *)
(* promotion does not stop the synthesis, and synthesis needs an episode.  *)
Fail(p) ==
  /\ pc[p] # "idle"
  /\ \/ Return(p)
     \/ pc[p] = "book" /\ Goes(p, "list")
     \/ pc[p] \in {"list", "exists"} /\ Goes(p, "synthesize")
     \/ pc[p] \in {"confirm", "materialize"} /\ arg[p].teach /\ Goes(p, "synthesize")
  /\ UNCHANGED <<rows, book, noted, now, history>>

Tick ==
  /\ now < MaxTime
  /\ now' = now + 1
  /\ UNCHANGED <<rows, book, noted, pc, local, history>>

Begin(p) ==
  \/ \E s \in FlagSignature : Sight(p, s)
  \/ \E s \in Signature : Confirm(p, s) \/ Reject(p, s)
  \/ \E label \in {"purge", "purgeAll"} : Expire(p, label)
  \/ \E s \in BookSignature, n \in Steps, label \in {"book", "list"} : Teach(p, s, n, label)

Step(p) ==
  \/ Begin(p)
  \/ Upsert(p) \/ Reread(p) \/ Refresh(p)
  \/ Materialize(p) \/ ConfirmOnly(p) \/ RejectRow(p) \/ Purge(p)
  \/ TeachBook(p) \/ List(p) \/ Exists(p) \/ Synthesize(p)
  \/ Fail(p)

Next ==
  \/ \E p \in Process : Step(p)
  \/ Tick

Spec == Init /\ [][Next]_vars

-----------------------------------------------------------------------------
(* Properties of any number of processes. *)

(* "the identical observation never re-derives a candidate": a rejected    *)
(* row leaves that state only by a purge that asks for tombstones.         *)
TombstoneHolds ==
  [][\A s \in Signature :
       rows[s] # NoRow /\ rows[s].status = "rejected" =>
         \/ rows'[s] = rows[s]
         \/ rows'[s] = NoRow /\ \E p \in Process : pc[p] = "purgeAll"]_vars

(* A candidate is materialized at most once in its life, however many      *)
(* processes confirm it at the same time: there are never more correction  *)
(* notes than flag candidates were inserted.                               *)
MaterializedOnce == notes <= made

(* "a confirmed flag_alias has no reject path": its note stays in the      *)
(* playbook, so its row must not become a tombstone, even when a reject    *)
(* read the row before another process confirmed it.                       *)
ConfirmedFlagStays ==
  [][\A s \in FlagSignature :
       rows[s] # NoRow /\ rows[s].status = "confirmed" =>
         rows'[s] = NoRow \/ rows'[s].status = "confirmed"]_vars

(* A sighting keeps a candidate alive through a purge that runs at the     *)
(* same time: what a purge deletes as expired has been unseen for the TTL. *)
FreshSightingSurvives ==
  [][\A s \in Signature :
       rows[s] # NoRow /\ rows[s].status = "expired" /\ rows'[s] = NoRow =>
         Unseen(rows[s])]_vars
=============================================================================
