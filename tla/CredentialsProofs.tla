-------------------------- MODULE CredentialsProofs --------------------------
(***************************************************************************)
(* What Credentials satisfies for every number of processes and commands,  *)
(* from whatever files a first command finds.                              *)
(***************************************************************************)
EXTENDS Credentials, TLAPS

-----------------------------------------------------------------------------
(* Types. *)

(* What a step leaves of the variables that are not history.               *)
State ==
  /\ config \in [ConfigPath -> Fields \cup {NoFile}]
  /\ creds \in [DataPath -> Fields \cup {NoFile, Malformed}]
  /\ loose \subseteq ConfigPath \cup DataPath
  /\ managed \subseteq Context
  /\ pc \in [Process -> Label]
  /\ op \in [Process -> {"set", "logout", "use"}]
  /\ ctx \in [Process -> Context]
  /\ new \in [Process -> Field]
  /\ cfg \in [Process -> [fields : Fields, legacy : BOOLEAN]]
  /\ commands \in Nat
  /\ \A p \in Process : pc[p] \in {"credentials", "scrub"} => ctx[p] \notin managed

(* What a command is at knows of what it was asked and has read: only an   *)
(* unmanaged context goes on to the credentials files, only a set-token or *)
(* a logout writes, and the legacy file is scrubbed once the default one   *)
(* is written.                                                             *)
Kinds ==
  \A p \in Process :
    /\ pc[p] \in {"legacy", "check"} \/ cfg[p].legacy => ctx[p] = "default"
    /\ pc[p] = "sibling" => ctx[p] = "explicit"
    /\ pc[p] \in {"sibling", "data"} => ctx[p] \notin managed
    /\ pc[p] \in {"credentials", "save", "scrub"} => op[p] # "use"
    /\ pc[p] \in {"credentials", "save"} => cfg[p].fields = OnlyToken(new[p])
    /\ pc[p] = "scrub" => cfg[p].legacy /\ config["default"] = NoFields
    /\ IF op[p] = "set" THEN new[p] \in Token ELSE new[p] = NoToken

(* The credential fields there may be.                                     *)
LEMMA FieldTypes ==
  /\ NoFields \in Fields /\ NoToken \in Field
  /\ \A t \in Field : OnlyToken(t) \in Fields /\ AuthHeader(OnlyToken(t)) = t
  /\ AuthHeader(NoFields) = NoToken
  /\ \A f \in Fields : AuthHeader(f) \in Field
BY DEF Fields, Field, NoFields, OnlyToken, AuthHeader

(* What a source gives is fields.                                          *)
LEMMA SourceTypes ==
  ASSUME State
  PROVE  /\ \A path \in ConfigPath : ConfigFields(path) \in Fields
         /\ SiblingDecides => SiblingFields \in Fields
         /\ DataFields \in Fields
<1>1. NoFields \in Fields
  BY FieldTypes
<1>2. \A path \in ConfigPath : ConfigFields(path) \in Fields
  BY <1>1 DEF State, ConfigFields
<1>3. SiblingDecides => SiblingFields \in Fields
  BY <1>1 DEF State, SiblingDecides, SiblingFields, DataPath
<1>4. DataFields \in Fields
  BY <1>1 DEF State, DataFields, DataPath
<1> QED
  BY <1>2, <1>3, <1>4

(* What a Load finds is a token or none.                                   *)
LEMMA LoadsTypes == State => \A c \in Context : Loads(c) \in Field
<1> SUFFICES ASSUME State, NEW c \in Context PROVE Loads(c) \in Field
  OBVIOUS
<1>1. Source(c) \in ConfigPath
  BY DEF Source, ConfigPath, Context
<1> QED
  BY <1>1, SourceTypes, FieldTypes DEF Loads

(* Fields that are taken over, and contents that still have to be checked. *)
LEMMA ParsedTypes ==
  ASSUME State, NEW p \in Process, NEW f \in Fields, NEW l \in BOOLEAN, Parsed(p, f, l)
  PROVE  /\ cfg' \in [Process -> [fields : Fields, legacy : BOOLEAN]]
         /\ pc' \in [Process -> Label]
         /\ cfg'[p] = [fields |-> f, legacy |-> l]
         /\ pc'[p] = IF ConfigDecides(ctx[p], f) THEN "loaded"
                     ELSE IF ctx[p] = "explicit" THEN "sibling" ELSE "data"
         /\ \A q \in Process \ {p} : pc'[q] = pc[q] /\ cfg'[q] = cfg[q]
<1>1. cfg' = [cfg EXCEPT ![p] = [fields |-> f, legacy |-> l]]
  BY DEF Parsed
<1>2. PICK label \in {"loaded", "sibling", "data"} :
        /\ To(p, label)
        /\ label = IF ConfigDecides(ctx[p], f) THEN "loaded"
                   ELSE IF ctx[p] = "explicit" THEN "sibling" ELSE "data"
  BY DEF Parsed
<1> QED
  BY <1>1, <1>2 DEF To, State, Label
LEMMA ContentsTypes ==
  ASSUME State, NEW p \in Process, NEW path \in ConfigPath, config[path] # NoFile,
         Contents(p, path)
  PROVE  /\ cfg' \in [Process -> [fields : Fields, legacy : BOOLEAN]]
         /\ pc' \in [Process -> Label]
         /\ cfg'[p].fields = config[path]
         /\ cfg'[p].legacy <=> path = "legacy"
         /\ pc'[p] = "check"
         /\ \A q \in Process \ {p} : pc'[q] = pc[q] /\ cfg'[q] = cfg[q]
<1> DEFINE l == path = "legacy"
<1>1. l \in BOOLEAN /\ config[path] \in Fields
  BY DEF State
<1>2. cfg' = [cfg EXCEPT ![p] = [fields |-> config[path], legacy |-> l]]
  BY DEF Contents
<1> HIDE DEF l
<1>3. /\ cfg' \in [Process -> [fields : Fields, legacy : BOOLEAN]]
      /\ cfg'[p].fields = config[path] /\ cfg'[p].legacy = l
      /\ \A q \in Process \ {p} : cfg'[q] = cfg[q]
  BY <1>1, <1>2 DEF State
<1> QED
  BY <1>3 DEF Contents, To, State, Label, l

(* The three steps that look at a config file, one way or the other.       *)
Looks(p) == ReadConfig(p) \/ ReadLegacy(p) \/ CheckConfig(p)
LEMMA LooksSteps ==
  ASSUME State, NEW p \in Process, Looks(p)
  PROVE  /\ UNCHANGED <<files, local>>
         /\ pc[p] \in {"config", "legacy", "check"}
         /\ \/ To(p, "legacy") /\ UNCHANGED cfg
            \/ \E path \in ConfigPath : config[path] # NoFile /\ Contents(p, path)
            \/ \E f \in Fields, l \in BOOLEAN : Parsed(p, f, l)
<1>1. CASE ReadConfig(p)
  BY <1>1, SourceTypes DEF ReadConfig, ConfigPath, Context
<1>2. CASE ReadLegacy(p)
  BY <1>2, FieldTypes DEF ReadLegacy, ConfigPath
<1>3. CASE CheckConfig(p)
  <2> DEFINE f == IF ReadFrom(p) \in loose THEN NoFields ELSE cfg[p].fields
  <2>1. f \in Fields /\ cfg[p].legacy \in BOOLEAN
    BY FieldTypes DEF State
  <2>2. Parsed(p, f, cfg[p].legacy)
    BY <1>3 DEF CheckConfig
  <2> HIDE DEF f
  <2> QED
    BY <1>3, <2>1, <2>2 DEF CheckConfig
<1> QED
  BY <1>1, <1>2, <1>3 DEF Looks

(* What they do to the variables of the processes.                         *)
LEMMA LooksTypes ==
  ASSUME State, NEW p \in Process, Looks(p)
  PROVE  /\ cfg' \in [Process -> [fields : Fields, legacy : BOOLEAN]]
         /\ pc' \in [Process -> Label]
         /\ pc'[p] \in {"legacy", "check", "loaded", "sibling", "data"}
         /\ \A q \in Process \ {p} : pc'[q] = pc[q] /\ cfg'[q] = cfg[q]
         /\ UNCHANGED <<files, local>>
<1>1. CASE To(p, "legacy") /\ UNCHANGED cfg
  BY <1>1, LooksSteps DEF To, State, Label
<1>2. ASSUME NEW path \in ConfigPath, config[path] # NoFile, Contents(p, path)
      PROVE  /\ cfg' \in [Process -> [fields : Fields, legacy : BOOLEAN]]
             /\ pc' \in [Process -> Label]
             /\ pc'[p] = "check"
             /\ \A q \in Process \ {p} : pc'[q] = pc[q] /\ cfg'[q] = cfg[q]
  BY <1>2, ContentsTypes
<1>3. ASSUME NEW f \in Fields, NEW l \in BOOLEAN, Parsed(p, f, l)
      PROVE  /\ cfg' \in [Process -> [fields : Fields, legacy : BOOLEAN]]
             /\ pc' \in [Process -> Label]
             /\ pc'[p] \in {"loaded", "sibling", "data"}
             /\ \A q \in Process \ {p} : pc'[q] = pc[q] /\ cfg'[q] = cfg[q]
  BY <1>3, ParsedTypes
<1> QED
  BY <1>1, <1>2, <1>3, LooksSteps

(* Every step leaves such a state.                                         *)
LEMMA StateStep == ASSUME State, NEW p \in Process, Step(p) PROVE State'
<1>1. ASSUME NEW c \in Context, NEW t \in Token \ {Old}, Begin(p, "set", c, t)
      PROVE  State'
  BY <1>1, FieldTypes DEF Begin, To, State, Field, Label, files
<1>2. ASSUME NEW c \in Context, NEW o \in {"logout", "use"}, Begin(p, o, c, NoToken)
      PROVE  State'
  BY <1>2, FieldTypes DEF Begin, To, State, Field, Label, files
<1>3. CASE Looks(p)
  BY <1>3, LooksTypes DEF State, files, local
<1>5. CASE ReadSibling(p)
  <2>1. PICK label \in {"loaded", "data"} : To(p, label)
    BY <1>5 DEF ReadSibling
  <2>2. cfg' \in [Process -> [fields : Fields, legacy : BOOLEAN]]
    <3>1. CASE SiblingDecides
      <4>1. SiblingFields \in Fields /\ cfg' = [cfg EXCEPT ![p].fields = SiblingFields]
        BY <1>5, <3>1, SourceTypes DEF ReadSibling
      <4> QED
        BY <4>1 DEF State
    <3>2. CASE ~ SiblingDecides
      BY <1>5, <3>2 DEF ReadSibling, State
    <3> QED
      BY <3>1, <3>2
  <2>3. UNCHANGED <<files, local>>
    BY <1>5 DEF ReadSibling
  <2> QED
    BY <2>1, <2>2, <2>3 DEF To, State, Label, files, local
<1>6. CASE ReadData(p)
  BY <1>6, SourceTypes DEF ReadData, To, State, Label, files, local
<1>7. CASE Change(p)
  <2>1. OnlyToken(new[p]) \in Fields
    BY FieldTypes DEF State
  <2>2. PICK label \in {"done", "save", "credentials"} :
          To(p, label) /\ (label = "credentials" => ctx[p] \notin managed)
    BY <1>7 DEF Change
  <2>3. cfg' \in [Process -> [fields : Fields, legacy : BOOLEAN]]
    BY <1>7, <2>1 DEF Change, State
  <2>4. UNCHANGED <<files, local>>
    BY <1>7 DEF Change
  <2> QED
    BY <2>2, <2>3, <2>4 DEF To, State, Label, files, local
<1>8. CASE SaveCredentials(p)
  BY <1>8 DEF SaveCredentials, Tight, To, State, Label, Context, DataPath,
     files, local
<1>9. ASSUME RemoveCredentials(p)
      PROVE  State'
  BY <1>9 DEF RemoveCredentials, Tight, To, State, Label, Context,
     DataPath, files, local
<1>10. CASE Save(p)
  <2>1. ctx[p] \in ConfigPath /\ Persisted(p) \in Fields
    BY FieldTypes DEF State, Persisted, ConfigPath
  <2> QED
    BY <1>10, <2>1 DEF Save, Tight, To, State, Label, local
<1>11. CASE ScrubLegacy(p)
  BY <1>11, FieldTypes DEF ScrubLegacy, Tight, To, State, Label, local
<1>12. CASE Fail(p)
  BY <1>12 DEF Fail, To, State, Label, Context, DataPath, files, local
<1> QED
  BY <1>1, <1>2, <1>3, <1>5, <1>6, <1>7, <1>8, <1>9, <1>10, <1>11,
     <1>12 DEF Step, Looks

(* What a step does to the files.                                          *)
Untouched == UNCHANGED files
DataWritten(p) ==
  /\ pc[p] = "credentials" /\ op[p] # "use"
  /\ config' = config /\ loose' = loose \ {"data"}
  /\ creds' = [creds EXCEPT !["data"] = IF op[p] = "set" THEN OnlyToken(new[p]) ELSE NoFile]
ConfigWritten(p) ==
  /\ pc[p] = "save" /\ op[p] # "use"
  /\ config' = [config EXCEPT ![ctx[p]] = IF ctx[p] \in managed THEN OnlyToken(new[p]) ELSE NoFields]
  /\ loose' = loose \ {ctx[p]} /\ creds' = creds
LegacyScrubbed(p) ==
  /\ pc[p] = "scrub" /\ op[p] # "use"
  /\ ctx[p] = "default" /\ "default" \notin managed /\ config["default"] = NoFields
  /\ config' = [config EXCEPT !["legacy"] = NoFields]
  /\ loose' = loose \ {"legacy"} /\ creds' = creds

(* A step leaves the files alone or writes one of them.                    *)
LEMMA FileSteps ==
  ASSUME State, Kinds, NEW p \in Process, Step(p)
  PROVE  /\ managed' = managed
         /\ Untouched \/ DataWritten(p) \/ ConfigWritten(p) \/ LegacyScrubbed(p)
<1> DEFINE Goal == /\ managed' = managed
                   /\ Untouched \/ DataWritten(p) \/ ConfigWritten(p) \/ LegacyScrubbed(p)
<1> SUFFICES Goal
  OBVIOUS
<1>1. ASSUME NEW c \in Context, NEW t \in Token \ {Old}, Begin(p, "set", c, t)
      PROVE  Goal
  BY <1>1 DEF Begin, Untouched, files, local
<1>2. ASSUME NEW c \in Context, NEW o \in {"logout", "use"}, Begin(p, o, c, NoToken)
      PROVE  Goal
  BY <1>2 DEF Begin, Untouched, files, local
<1>3. CASE Looks(p)
  BY <1>3, LooksSteps DEF Untouched, files, local
<1>5. CASE ReadSibling(p)
  BY <1>5 DEF ReadSibling, Untouched, files, local
<1>6. CASE ReadData(p)
  BY <1>6 DEF ReadData, Untouched, files, local
<1>7. CASE Change(p)
  BY <1>7 DEF Change, Untouched, files, local
<1>8. CASE SaveCredentials(p)
  BY <1>8 DEF SaveCredentials, Tight, To, DataWritten, Kinds, local
<1>9. ASSUME RemoveCredentials(p)
      PROVE  Goal
  BY <1>9 DEF RemoveCredentials, Tight, To, DataWritten, Kinds, local
<1>10. CASE Save(p)
  BY <1>10 DEF Save, Tight, To, ConfigWritten, Kinds, Persisted, local
<1>11. CASE ScrubLegacy(p)
  BY <1>11 DEF ScrubLegacy, Tight, To, LegacyScrubbed, Untouched, State, Kinds, local, files
<1>12. CASE Fail(p)
  BY <1>12 DEF Fail, Untouched, files, local
<1> QED
  BY <1>1, <1>2, <1>3, <1>5, <1>6, <1>7, <1>8, <1>9, <1>10, <1>11,
     <1>12 DEF Step, Looks

(* What a step of p leaves of the other processes' variables.              *)
LEMMA OthersStay ==
  ASSUME State, NEW p \in Process, Step(p), NEW q \in Process, q # p
  PROVE  /\ pc'[q] = pc[q] /\ op'[q] = op[q] /\ ctx'[q] = ctx[q]
         /\ new'[q] = new[q] /\ cfg'[q] = cfg[q]
<1> DEFINE Goal == /\ pc'[q] = pc[q] /\ op'[q] = op[q] /\ ctx'[q] = ctx[q]
                   /\ new'[q] = new[q] /\ cfg'[q] = cfg[q]
<1> SUFFICES Goal
  OBVIOUS
<1>1. ASSUME NEW c \in Context, NEW t \in Token \ {Old}, Begin(p, "set", c, t)
      PROVE  Goal
  BY <1>1 DEF Begin, To, State, files, local
<1>2. ASSUME NEW c \in Context, NEW o \in {"logout", "use"}, Begin(p, o, c, NoToken)
      PROVE  Goal
  BY <1>2 DEF Begin, To, State, files, local
<1>3. CASE Looks(p)
  BY <1>3, LooksTypes DEF files, local
<1>5. CASE ReadSibling(p)
  BY <1>5 DEF ReadSibling, To, State, files, local
<1>6. CASE ReadData(p)
  BY <1>6 DEF ReadData, To, State, files, local
<1>7. CASE Change(p)
  BY <1>7 DEF Change, To, State, files, local
<1>8. CASE SaveCredentials(p)
  BY <1>8 DEF SaveCredentials, Tight, To, State, files, local
<1>9. ASSUME RemoveCredentials(p)
      PROVE  Goal
  BY <1>9 DEF RemoveCredentials, Tight, To, State, files, local
<1>10. CASE Save(p)
  BY <1>10 DEF Save, Tight, Persisted, To, State, files, local
<1>11. CASE ScrubLegacy(p)
  BY <1>11 DEF ScrubLegacy, Tight, To, State, files, local
<1>12. CASE Fail(p)
  BY <1>12 DEF Fail, To, State, files, local
<1> QED
  BY <1>1, <1>2, <1>3, <1>5, <1>6, <1>7, <1>8, <1>9, <1>10, <1>11,
     <1>12 DEF Step, Looks

(* And of p's own, unless it begins a command.                             *)
LEMMA OwnStays ==
  ASSUME State, NEW p \in Process, Step(p)
  PROVE  \/ pc'[p] = "config" /\ pc[p] # "config"
         \/ op' = op /\ ctx' = ctx /\ new' = new
<1> DEFINE Goal == \/ pc'[p] = "config" /\ pc[p] # "config"
                   \/ op' = op /\ ctx' = ctx /\ new' = new
<1> SUFFICES Goal
  OBVIOUS
<1>1. ASSUME NEW c \in Context, NEW t \in Token \ {Old}, Begin(p, "set", c, t)
      PROVE  Goal
  BY <1>1 DEF Begin, To, State, files, local
<1>2. ASSUME NEW c \in Context, NEW o \in {"logout", "use"}, Begin(p, o, c, NoToken)
      PROVE  Goal
  BY <1>2 DEF Begin, To, State, files, local
<1>3. CASE Looks(p)
  BY <1>3, LooksSteps DEF local
<1>5. CASE ReadSibling(p)
  BY <1>5 DEF ReadSibling, To, State, files, local
<1>6. CASE ReadData(p)
  BY <1>6 DEF ReadData, To, State, files, local
<1>7. CASE Change(p)
  BY <1>7 DEF Change, To, State, files, local
<1>8. CASE SaveCredentials(p)
  BY <1>8 DEF SaveCredentials, Tight, To, State, files, local
<1>9. ASSUME RemoveCredentials(p)
      PROVE  Goal
  BY <1>9 DEF RemoveCredentials, Tight, To, State, files, local
<1>10. CASE Save(p)
  BY <1>10 DEF Save, Tight, Persisted, To, State, files, local
<1>11. CASE ScrubLegacy(p)
  BY <1>11 DEF ScrubLegacy, Tight, To, State, files, local
<1>12. CASE Fail(p)
  BY <1>12 DEF Fail, To, State, files, local
<1> QED
  BY <1>1, <1>2, <1>3, <1>5, <1>6, <1>7, <1>8, <1>9, <1>10, <1>11,
     <1>12 DEF Step, Looks

(* What a command is at goes on being true.                                *)
LEMMA KindsStep ==
  ASSUME State, Kinds, NEW p \in Process, Step(p) PROVE Kinds'
<1> DEFINE K(q) ==
      /\ pc[q] \in {"legacy", "check"} \/ cfg[q].legacy => ctx[q] = "default"
      /\ pc[q] = "sibling" => ctx[q] = "explicit"
      /\ pc[q] \in {"sibling", "data"} => ctx[q] \notin managed
      /\ pc[q] \in {"credentials", "save", "scrub"} => op[q] # "use"
      /\ pc[q] \in {"credentials", "save"} => cfg[q].fields = OnlyToken(new[q])
      /\ pc[q] = "scrub" => cfg[q].legacy /\ config["default"] = NoFields
      /\ IF op[q] = "set" THEN new[q] \in Token ELSE new[q] = NoToken
<1>a. K(p)
  BY DEF Kinds
<1>c. ASSUME NEW q \in Process, q # p PROVE K(q)'
  <2>1. K(q) /\ managed' = managed
    BY FileSteps DEF Kinds
  <2>2. pc[q] = "scrub" => config'["default"] = NoFields
    <3>1. ASSUME pc[q] = "scrub" PROVE config'["default"] = NoFields
      <4>1. config["default"] = NoFields /\ "default" \notin managed
        BY <3>1, <2>1 DEF State, Context
      <4> QED
        BY <4>1, FileSteps DEF Untouched, DataWritten, ConfigWritten, LegacyScrubbed, State, ConfigPath, Context, files
    <3> QED
      BY <3>1
  <2> QED
    BY <2>1, <2>2, <1>c, OthersStay
<1>d. K(p)'
  <2>1. ASSUME NEW c \in Context, NEW t \in Token \ {Old}, Begin(p, "set", c, t)
        PROVE  K(p)'
    BY <2>1 DEF Begin, To, State, files
  <2>2. ASSUME NEW c \in Context, NEW o \in {"logout", "use"}, Begin(p, o, c, NoToken)
        PROVE  K(p)'
    BY <2>2 DEF Begin, To, State, files
  <2>3. CASE Looks(p)
    <3>0. UNCHANGED <<files, local>> /\ State'
      BY <2>3, LooksSteps, StateStep DEF Looks
    <3>1. CASE ReadConfig(p) /\ ctx[p] = "explicit"
      <4>1. /\ cfg' = [cfg EXCEPT ![p] = [fields |-> ConfigFields("explicit"), legacy |-> FALSE]]
            /\ pc'[p] = IF ConfigDecides(ctx[p], ConfigFields("explicit")) THEN "loaded" ELSE "sibling"
        BY <3>1 DEF ReadConfig, Parsed, To, State
      <4>2. ~cfg'[p].legacy
        BY <4>1 DEF State
      <4> QED
        BY <3>0, <3>1, <4>1, <4>2, <1>a DEF files, local, ConfigDecides
    <3>2. CASE ReadConfig(p) /\ ctx[p] # "explicit" /\ config["default"] = NoFile
      BY <3>0, <3>2, <1>a DEF ReadConfig, To, State, files, local, Context
    <3>3. CASE ReadConfig(p) /\ ctx[p] # "explicit" /\ config["default"] # NoFile
      BY <3>0, <3>3, <1>a, ContentsTypes DEF ReadConfig, State, files, local, ConfigPath, Context
    <3>4. CASE ReadLegacy(p) /\ config["legacy"] = NoFile
      BY <3>0, <3>4, <1>a, FieldTypes, ParsedTypes DEF ReadLegacy, files, local, ConfigDecides
    <3>5. CASE ReadLegacy(p) /\ config["legacy"] # NoFile
      BY <3>0, <3>5, <1>a, ContentsTypes DEF ReadLegacy, files, local, ConfigPath
    <3>6. CASE CheckConfig(p)
      <4> DEFINE f == IF ReadFrom(p) \in loose THEN NoFields ELSE cfg[p].fields
      <4>1. f \in Fields /\ cfg[p].legacy \in BOOLEAN
        BY FieldTypes DEF State
      <4>2. Parsed(p, f, cfg[p].legacy)
        BY <3>6 DEF CheckConfig
      <4> HIDE DEF f
      <4>3. /\ cfg'[p].legacy <=> cfg[p].legacy
            /\ pc'[p] = IF ConfigDecides(ctx[p], f) THEN "loaded"
                        ELSE IF ctx[p] = "explicit" THEN "sibling" ELSE "data"
        <5> DEFINE l == cfg[p].legacy
        <5>1. l \in BOOLEAN /\ Parsed(p, f, l)
          BY <4>1, <4>2
        <5> HIDE DEF l
        <5>2. cfg'[p].legacy = l
          BY <5>1 DEF Parsed, State
        <5> QED
          BY <4>2, <5>2 DEF l, Parsed, To, State
      <4> QED
        BY <3>0, <3>6, <4>3, <1>a DEF CheckConfig, files, local, ConfigDecides
    <3> QED
      BY <2>3, <3>1, <3>2, <3>3, <3>4, <3>5, <3>6 DEF Looks
  <2>5. CASE ReadSibling(p)
    BY <2>5, <1>a DEF ReadSibling, To, State, Parsed, files, local
  <2>6. CASE ReadData(p)
    BY <2>6, <1>a DEF ReadData, To, State, Parsed, files, local
  <2>7. CASE Change(p)
    BY <2>7, <1>a DEF Change, To, State, Parsed, files, local
  <2>8. CASE SaveCredentials(p)
    BY <2>8, <1>a DEF SaveCredentials, Tight, To, State, Parsed, files, local
  <2>9. ASSUME RemoveCredentials(p)
        PROVE  K(p)'
    BY <2>9, <1>a DEF RemoveCredentials, Tight, To, State, Parsed, files,
       local
  <2>10. CASE Save(p)
    <3>1. ctx[p] \in ConfigPath
      BY DEF State, ConfigPath
    <3> QED
      BY <2>10, <1>a, <3>1 DEF Save, Tight, Persisted, To, State, local
  <2>11. CASE ScrubLegacy(p)
    BY <2>11, <1>a DEF ScrubLegacy, Tight, To, State, Parsed, files, local
  <2>12. CASE Fail(p)
    BY <2>12, <1>a DEF Fail, To, State, Parsed, files, local
  <2> QED
    BY <2>1, <2>2, <2>3, <2>5, <2>6, <2>7, <2>8, <2>9, <2>10, <2>11,
       <2>12 DEF Step, Looks
<1>e. \A q \in Process : K(q)'
  BY <1>c, <1>d
<1> QED
  BY <1>e DEF Kinds

(* What Watch notes of permissions.                                        *)
LEMMA SlipStep ==
  ASSUME slipped \in [Process -> BOOLEAN], NEW p \in Process, Watch(p)
  PROVE  /\ slipped' \in [Process -> BOOLEAN]
         /\ slipped'[p] <=> Slips(p)
         /\ \A q \in Process \ {p} : slipped'[q] = slipped[q]
<1> DEFINE b == Slips(p)
<1>1. b \in BOOLEAN
  BY DEF Slips
<1>2. slipped' = [slipped EXCEPT ![p] = b]
  BY DEF Watch
<1> HIDE DEF b
<1>3. /\ slipped' \in [Process -> BOOLEAN] /\ slipped'[p] = b
      /\ \A q \in Process \ {p} : slipped'[q] = slipped[q]
  BY <1>1, <1>2
<1> QED
  BY <1>3 DEF b

(* The histories keep their types too.                                     *)
LEMMA TypeStep == TypeOK /\ Kinds /\ [Next]_vars => TypeOK' /\ Kinds'
<1> SUFFICES ASSUME TypeOK, Kinds, [Next]_vars PROVE TypeOK' /\ Kinds'
  OBVIOUS
<1>1. /\ State /\ could \in [Process -> SUBSET Field] /\ met \in [Process -> SUBSET {"set", "logout"}]
      /\ slipped \in [Process -> BOOLEAN]
  BY DEF TypeOK, State
<1>2. ASSUME NEW p \in Process, Step(p), Watch(p) PROVE TypeOK' /\ Kinds'
  <2>1. State'
    BY <1>1, <1>2, StateStep
  <2>2. could' \in [Process -> SUBSET Field]
    <3>1. (\A c \in Context : Loads(c) \in Field)'
      BY <2>1, LoadsTypes, PTL
    <3>2. \A q \in Process : ctx'[q] \in Context /\ Credential'[ctx'[q]] \in Field
      BY <2>1, <3>1 DEF State, Credential
    <3> QED
      BY <1>1, <1>2, <3>2 DEF Watch
  <2>3. files' # files => op[p] \in {"set", "logout"}
    BY <1>1, <1>2, FileSteps DEF Untouched, DataWritten, ConfigWritten, LegacyScrubbed, State
  <2>4. met' \in [Process -> SUBSET {"set", "logout"}]
    BY <1>1, <1>2, <2>3 DEF Watch
  <2>5. slipped' \in [Process -> BOOLEAN]
    BY <1>1, <1>2, SlipStep
  <2> QED
    BY <1>1, <1>2, <2>1, <2>2, <2>4, <2>5, KindsStep DEF State, TypeOK
<1>3. CASE UNCHANGED vars
  BY <1>3 DEF vars, files, TypeOK, Kinds
<1> QED
  BY <1>2, <1>3 DEF Next

-----------------------------------------------------------------------------
(* What a write changes of what the sources give.                          *)

(* The credentials file: what it gives is the new token, or none.          *)
LEMMA DataEffect ==
  ASSUME State, Kinds, NEW p \in Process, DataWritten(p)
  PROVE  /\ config' = config
         /\ \A path \in ConfigPath : ConfigFields(path)' = ConfigFields(path)
         /\ SiblingDecides' <=> SiblingDecides
         /\ SiblingFields' = SiblingFields
         /\ AuthHeader(DataFields)' = new[p]
<1>1. config' = config /\ creds'["sibling"] = creds["sibling"]
  BY DEF DataWritten, State, DataPath
<1>2. ("sibling" \in loose') <=> ("sibling" \in loose)
  BY DEF DataWritten
<1>3. \A path \in ConfigPath : (path \in loose') <=> (path \in loose)
  BY DEF DataWritten, ConfigPath, Context
<1>4. "data" \notin loose' /\ creds'["data"] = IF op[p] = "set" THEN OnlyToken(new[p]) ELSE NoFile
  BY DEF DataWritten, State, DataPath
<1>5. new[p] \in Field /\ (op[p] # "set" => new[p] = NoToken)
  BY DEF State, Kinds
<1>6. AuthHeader(DataFields)' = new[p]
  <2>1. CASE op[p] = "set"
    <3>1. OnlyToken(new[p]) \in Fields
      BY <1>5, FieldTypes
    <3>2. DataFields' = OnlyToken(new[p])
      BY <1>4, <2>1, <3>1, FilesAssumption DEF DataFields
    <3> QED
      BY <3>2, <1>5, FieldTypes DEF AuthHeader
  <2>2. CASE op[p] # "set"
    <3>1. DataFields' = NoFields
      BY <1>4, <2>2 DEF DataFields
    <3> QED
      BY <3>1, <2>2, <1>5 DEF AuthHeader, NoFields
  <2> QED
    BY <2>1, <2>2
<1>7. \A path \in ConfigPath : ConfigFields(path)' = ConfigFields(path)
  BY <1>1, <1>3 DEF ConfigFields
<1>8. (SiblingDecides' <=> SiblingDecides) /\ SiblingFields' = SiblingFields
  BY <1>1, <1>2 DEF SiblingDecides, SiblingFields
<1> QED
  BY <1>1, <1>6, <1>7, <1>8

(* The config file of the context: it exists, with no credential of its    *)
(* own unless the store is managed.                                        *)
LEMMA ConfigEffect ==
  ASSUME State, Kinds, NEW p \in Process, ConfigWritten(p)
  PROVE  /\ \A path \in ConfigPath \ {ctx[p]} :
              config'[path] = config[path] /\ ConfigFields(path)' = ConfigFields(path)
         /\ config'[ctx[p]] # NoFile
         /\ \A c \in Context : c = ctx[p] =>
              ConfigFields(c)' = IF c \in managed THEN OnlyToken(new[p]) ELSE NoFields
         /\ SiblingDecides' <=> SiblingDecides
         /\ SiblingFields' = SiblingFields
         /\ DataFields' = DataFields
<1>1. ctx[p] \in Context /\ ctx[p] \in ConfigPath /\ ctx[p] \notin DataPath
  BY DEF State, ConfigPath, Context, DataPath
<1>2. \A d \in DataPath : (d \in loose') <=> (d \in loose)
  BY <1>1 DEF ConfigWritten
<1>3. SiblingFields' = SiblingFields /\ DataFields' = DataFields /\ (SiblingDecides' <=> SiblingDecides)
  BY <1>2 DEF ConfigWritten, SiblingFields, DataFields, SiblingDecides, DataPath
<1> DEFINE f == IF ctx[p] \in managed THEN OnlyToken(new[p]) ELSE NoFields
<1>4. f \in Fields
  BY FieldTypes DEF State
<1>5. f # NoFile
  BY <1>4, FilesAssumption
<1>6. config' = [config EXCEPT ![ctx[p]] = f] /\ loose' = loose \ {ctx[p]}
  BY DEF ConfigWritten
<1> HIDE DEF f
<1>7. config'[ctx[p]] = f /\ ctx[p] \notin loose'
  BY <1>1, <1>6 DEF State
<1>8. \A c \in Context : c = ctx[p] => ConfigFields(c)' = f
  <2>1. (IF config'[ctx[p]] = NoFile \/ ctx[p] \in loose' THEN NoFields ELSE config'[ctx[p]]) = f
    BY <1>5, <1>7
  <2> QED
    BY <2>1 DEF ConfigFields
<1>9. \A path \in ConfigPath \ {ctx[p]} :
        config'[path] = config[path] /\ ((path \in loose') <=> (path \in loose))
  BY <1>6 DEF State
<1>10. \A path \in ConfigPath \ {ctx[p]} : ConfigFields(path)' = ConfigFields(path)
  BY <1>9 DEF ConfigFields
<1> QED
  BY <1>3, <1>5, <1>7, <1>8, <1>9, <1>10 DEF f

(* The legacy file: it has no credential any more.                         *)
LEMMA ScrubEffect ==
  ASSUME State, Kinds, NEW p \in Process, LegacyScrubbed(p)
  PROVE  /\ \A c \in Context : config'[c] = config[c] /\ ConfigFields(c)' = ConfigFields(c)
         /\ ConfigFields("legacy")' = NoFields
         /\ SiblingDecides' <=> SiblingDecides
         /\ SiblingFields' = SiblingFields
         /\ DataFields' = DataFields
<1>1. \A d \in DataPath \cup Context : (d \in loose') <=> (d \in loose)
  BY DEF LegacyScrubbed, DataPath, Context
<1>2. SiblingFields' = SiblingFields /\ DataFields' = DataFields /\ (SiblingDecides' <=> SiblingDecides)
  BY <1>1 DEF LegacyScrubbed, SiblingFields, DataFields, SiblingDecides, DataPath
<1>3. \A c \in Context : config'[c] = config[c]
  BY DEF LegacyScrubbed, State, ConfigPath, Context
<1>4. \A c \in Context : ConfigFields(c)' = ConfigFields(c)
  BY <1>1, <1>3 DEF ConfigFields
<1>5. config'["legacy"] = NoFields
  BY DEF LegacyScrubbed, State, ConfigPath
<1>6. ConfigFields("legacy")' = NoFields
  BY <1>5 DEF ConfigFields
<1> QED
  BY <1>2, <1>3, <1>4, <1>6

(* With the files untouched, every source gives what it gave.              *)
LEMMA NoEffect ==
  ASSUME Untouched, managed' = managed
  PROVE  /\ config' = config
         /\ \A path \in ConfigPath : ConfigFields(path)' = ConfigFields(path)
         /\ \A c \in Context : Source(c)' = Source(c) /\ Loads(c)' = Loads(c)
         /\ SiblingDecides' <=> SiblingDecides
         /\ SiblingFields' = SiblingFields
         /\ DataFields' = DataFields
BY DEF Untouched, files, ConfigFields, Source, Loads, ConfigDecides, SiblingDecides, SiblingFields, DataFields

-----------------------------------------------------------------------------
(* What a step of any process leaves of the sources.                       *)

(* The file beside an explicit config is never written.                    *)
LEMMA SiblingStays ==
  ASSUME State, Kinds, NEW p \in Process, Step(p)
  PROVE  (SiblingDecides' <=> SiblingDecides) /\ SiblingFields' = SiblingFields
BY FileSteps, NoEffect, DataEffect, ConfigEffect, ScrubEffect

(* The credential of the legacy file stays or is scrubbed, never for a     *)
(* managed default config.                                                 *)
LEMMA LegacyStays ==
  ASSUME State, Kinds, NEW p \in Process, Step(p)
  PROVE  \/ ConfigFields("legacy")' = ConfigFields("legacy")
         \/ "default" \notin managed /\ ConfigFields("legacy")' = NoFields
<1>1. "legacy" \in ConfigPath \ {ctx[p]}
  BY DEF State, ConfigPath, Context
<1> QED
  BY <1>1, FileSteps, NoEffect, DataEffect, ConfigEffect, ScrubEffect DEF LegacyScrubbed

(* The config file of an unmanaged context, once it is there, stays, and   *)
(* keeps its credential or loses it.                                       *)
LEMMA UnmanagedStays ==
  ASSUME State, Kinds, NEW p \in Process, Step(p), NEW c \in Context, c \notin managed
  PROVE  \/ config'[c] = config[c] /\ ConfigFields(c)' = ConfigFields(c)
         \/ config'[c] # NoFile /\ ConfigFields(c)' = NoFields
<1>1. c \in ConfigPath
  BY DEF ConfigPath
<1>2. CASE ConfigWritten(p)
  <2>1. CASE c = ctx[p]
    BY <1>2, <2>1, ConfigEffect
  <2>2. CASE c # ctx[p]
    BY <1>1, <1>2, <2>2, ConfigEffect
  <2> QED
    BY <2>1, <2>2
<1> QED
  BY <1>1, <1>2, FileSteps, NoEffect, DataEffect, ScrubEffect

(* No file is made readable to others.                                     *)
LEMMA LooseShrinks ==
  ASSUME State, Kinds, NEW p \in Process, Step(p) PROVE loose' \subseteq loose
BY FileSteps DEF Untouched, files, DataWritten, ConfigWritten, LegacyScrubbed

(* A context without a credential in its config, which the credentials     *)
(* files decide.                                                           *)
Bare(c) == c \notin managed /\ AuthHeader(ConfigFields(Source(c))) = NoToken

(* It stays without one.                                                   *)
LEMMA BareStays ==
  ASSUME State, Kinds, NEW p \in Process, Step(p), NEW c \in Context, Bare(c)
  PROVE  Bare(c)'
<1>1. managed' = managed /\ c \notin managed
  BY FileSteps DEF Bare
<1>2. AuthHeader(NoFields) = NoToken
  BY DEF AuthHeader, NoFields
<1>3. \/ config'[c] = config[c] /\ ConfigFields(c)' = ConfigFields(c)
      \/ config'[c] # NoFile /\ ConfigFields(c)' = NoFields
  BY <1>1, UnmanagedStays
<1>4. CASE Source(c) = c
  <2>1. Source(c)' = c /\ AuthHeader(ConfigFields(c)) = NoToken
    BY <1>3, <1>4 DEF Source, Bare, Context
  <2>2. AuthHeader(ConfigFields(c)') = NoToken
    BY <1>2, <1>3, <2>1
  <2> QED
    BY <1>1, <2>1, <2>2 DEF Bare, AuthHeader
<1>5. CASE Source(c) # c
  <2>1. c = "default" /\ Source(c) = "legacy" /\ AuthHeader(ConfigFields("legacy")) = NoToken
    BY <1>5 DEF Source, Bare
  <2>2. AuthHeader(ConfigFields("legacy")') = NoToken
    BY <1>2, <2>1, LegacyStays
  <2>3. CASE Source(c)' = "legacy"
    BY <1>1, <2>2, <2>3 DEF Bare, AuthHeader
  <2>4. CASE Source(c)' # "legacy"
    <3>1. config'[c] # NoFile /\ config[c] = NoFile /\ Source(c)' = c
      BY <1>5, <2>1, <2>4 DEF Source
    <3>2. AuthHeader(ConfigFields(c)') = NoToken
      BY <1>2, <1>3, <3>1
    <3> QED
      BY <1>1, <3>1, <3>2 DEF Bare, AuthHeader
  <2> QED
    BY <2>3, <2>4
<1> QED
  BY <1>4, <1>5

-----------------------------------------------------------------------------
(* A Load returns what a single look could have returned.                  *)

(* What a Load has behind it when it comes to each source: the credential  *)
(* of this moment is among those it could return; a credential the legacy  *)
(* file still has is one it has had since the Load looked for the default  *)
(* file; what it read and has not checked yet it could return, if the file *)
(* was not refused, and the file is then not refused any more (Given: what *)
(* a look at that moment would have taken); and a Load comes to the        *)
(* credentials files with nothing in the config file, now as when it read  *)
(* it.                                                                     *)
Given(p) == IF slipped[p] THEN NoFields ELSE cfg[p].fields
SeenBy(p) ==
  /\ Loading(pc[p]) => Credential[ctx[p]] \in could[p]
  /\ pc[p] = "legacy" =>
       /\ AuthHeader(ConfigFields("legacy")) # NoToken \/ "default" \in managed =>
            AuthHeader(ConfigFields("legacy")) \in could[p]
       /\ "default" \notin managed /\ config["default"] # NoFile =>
            AuthHeader(ConfigFields("default")) = NoToken
  /\ pc[p] = "check" =>
       /\ ~slipped[p] => ReadFrom(p) \notin loose
       /\ AuthHeader(Given(p)) # NoToken \/ "default" \in managed =>
            AuthHeader(Given(p)) \in could[p]
       /\ ~ConfigDecides("default", Given(p)) => Bare("default")
  /\ pc[p] \in {"sibling", "data"} => Bare(ctx[p])
  /\ pc[p] = "data" /\ ctx[p] = "explicit" => ~SiblingDecides
  /\ pc[p] = "loaded" /\ ~slipped[p] => AuthHeader(cfg[p].fields) \in could[p]
Seen == \A p \in Process : SeenBy(p)

(* What Watch adds to what a Load could return.                            *)
LEMMA CouldGrows ==
  ASSUME State, NEW p \in Process, Step(p), Watch(p), NEW q \in Process, Loading(pc'[q])
  PROVE  /\ could'[q] = could[q] \cup {Credential'[ctx'[q]]}
         /\ ctx'[q] \in Context
         /\ Credential'[ctx'[q]] \in could'[q]
<1>1. could'[q] = could[q] \cup {Credential'[ctx'[q]]}
  BY DEF Watch
<1>2. State'
  BY StateStep
<1> QED
  BY <1>1, <1>2 DEF State

(* A step of another process leaves all that true.                         *)
LEMMA SeenByOthers ==
  ASSUME State, Kinds, slipped \in [Process -> BOOLEAN],
         NEW p \in Process, Step(p), Watch(p), NEW q \in Process, q # p, SeenBy(q)
  PROVE  SeenBy(q)'
<1>1. /\ pc'[q] = pc[q] /\ ctx'[q] = ctx[q] /\ cfg'[q] = cfg[q] /\ ctx[q] \in Context
      /\ managed' = managed
  BY OthersStay, FileSteps DEF State
<1>2. Loading(pc'[q]) => Credential'[ctx'[q]] \in could'[q] /\ could[q] \subseteq could'[q]
  BY CouldGrows
<1>3. ASSUME pc[q] = "legacy"
      PROVE  /\ (AuthHeader(ConfigFields("legacy")') # NoToken \/ "default" \in managed) =>
                  AuthHeader(ConfigFields("legacy")') \in could'[q]
             /\ ("default" \notin managed /\ config'["default"] # NoFile) =>
                  AuthHeader(ConfigFields("default")') = NoToken
  <2>1. could[q] \subseteq could'[q]
    BY <1>1, <1>2, <1>3 DEF Loading
  <2>2. AuthHeader(NoFields) = NoToken /\ "default" \in Context
    BY FieldTypes DEF Context
  <2>3. (AuthHeader(ConfigFields("legacy")') # NoToken \/ "default" \in managed) =>
           AuthHeader(ConfigFields("legacy")') \in could'[q]
    BY <1>3, <2>1, <2>2, LegacyStays DEF SeenBy
  <2>4. ("default" \notin managed /\ config'["default"] # NoFile) =>
           AuthHeader(ConfigFields("default")') = NoToken
    BY <1>3, <2>2, UnmanagedStays DEF SeenBy
  <2> QED
    BY <2>3, <2>4
<1>4. ASSUME pc[q] \in {"sibling", "data"} PROVE Bare(ctx[q])'
  <2>1. ASSUME NEW c \in Context, c = ctx[q] PROVE Bare(c)'
    BY <1>4, <2>1, BareStays DEF SeenBy
  <2> QED
    BY <1>1, <2>1 DEF Bare, Source
<1>5. pc[q] = "data" /\ ctx[q] = "explicit" => ~SiblingDecides'
  BY SiblingStays DEF SeenBy
<1>6. slipped'[q] = slipped[q]
  BY SlipStep
<1>7. pc[q] = "loaded" /\ ~slipped'[q] => AuthHeader(cfg[q].fields) \in could'[q]
  BY <1>1, <1>2, <1>6 DEF SeenBy, Loading
<1>8. ASSUME pc[q] = "check"
      PROVE  /\ ~slipped'[q] => ReadFrom(q)' \notin loose'
             /\ AuthHeader(Given(q)') # NoToken \/ "default" \in managed' =>
                  AuthHeader(Given(q)') \in could'[q]
             /\ ~ConfigDecides("default", Given(q))' => Bare("default")'
  <2>1. ReadFrom(q)' = ReadFrom(q) /\ Given(q)' = Given(q) /\ could[q] \subseteq could'[q]
    BY <1>1, <1>2, <1>6, <1>8 DEF ReadFrom, Given, Loading
  <2>2. ConfigDecides("default", Given(q))' <=> ConfigDecides("default", Given(q))
    BY <1>1, <2>1 DEF ConfigDecides, AuthHeader
  <2>3. Bare("default") => Bare("default")'
    BY BareStays DEF Context
  <2> QED
    BY <1>1, <1>6, <1>8, <2>1, <2>2, <2>3, LooseShrinks DEF SeenBy
<1> QED
  BY <1>1, <1>2, <1>3, <1>4, <1>5, <1>7, <1>8 DEF SeenBy, AuthHeader

(* What a Load finds when the config decides.                              *)
LEMMA LoadsConfig ==
  ASSUME NEW c \in Context, ConfigDecides(c, ConfigFields(Source(c)))
  PROVE  Loads(c) = AuthHeader(ConfigFields(Source(c)))
BY DEF Loads

(* And when it has no credential: the file beside it decides, or the       *)
(* data directory's.                                                       *)
LEMMA LoadsCreds ==
  ASSUME NEW c \in Context, Bare(c)
  PROVE  Loads(c) = IF c = "explicit" /\ SiblingDecides THEN AuthHeader(SiblingFields)
                    ELSE AuthHeader(DataFields)
BY DEF Loads, Bare, ConfigDecides

(* A step of the Load itself.                                              *)
LEMMA SeenByItself ==
  ASSUME State, Kinds, slipped \in [Process -> BOOLEAN],
         NEW p \in Process, Step(p), Watch(p), SeenBy(p)
  PROVE  SeenBy(p)'
<1> USE DEF Loading
<1>p. slipped'[p] <=> Slips(p)
  BY SlipStep
<1>c. Loading(pc'[p]) => Credential'[ctx'[p]] \in could'[p] /\ could[p] \subseteq could'[p]
  BY CouldGrows
<1>m. managed' = managed /\ ctx[p] \in Context
  BY FileSteps DEF State
<1>u. ASSUME files' = files, ctx' = ctx
      PROVE  /\ config' = config
             /\ \A path \in ConfigPath : ConfigFields(path)' = ConfigFields(path)
             /\ \A c \in Context : Bare(c)' <=> Bare(c)
             /\ SiblingDecides' <=> SiblingDecides
  BY <1>u, <1>m, NoEffect DEF Untouched, Bare, files, Source, ConfigPath, AuthHeader, ConfigFields
<1>1. ASSUME NEW c \in Context, NEW t \in Token \ {Old}, Begin(p, "set", c, t)
      PROVE  SeenBy(p)'
  BY <1>1, <1>c DEF Begin, To, State, files, SeenBy
<1>2. ASSUME NEW c \in Context, NEW o \in {"logout", "use"}, Begin(p, o, c, NoToken)
      PROVE  SeenBy(p)'
  BY <1>2, <1>c DEF Begin, To, State, files, SeenBy
<1>k. ASSUME NEW path \in ConfigPath, config[path] # NoFile, Contents(p, path), files' = files,
             path = "default" \/ path = "legacy", pc[p] # "check"
      PROVE  pc'[p] = "check" /\ ReadFrom(p)' = path /\ Given(p)' = ConfigFields(path)
             /\ (~slipped'[p] => ReadFrom(p)' \notin loose')
  <2>1. /\ pc'[p] = "check" /\ cfg'[p].fields = config[path]
        /\ cfg'[p].legacy <=> path = "legacy"
    BY <1>k, ContentsTypes
  <2>2. ReadFrom(p)' = path
    BY <1>k, <2>1 DEF ReadFrom
  <2>3. slipped'[p] <=> path \in loose
    BY <1>k, <1>p, <2>1, <2>2 DEF Slips
  <2> QED
    BY <1>k, <2>1, <2>2, <2>3 DEF Given, ConfigFields, files
<1>3. CASE ReadConfig(p)
  <2>0. files' = files /\ ctx' = ctx /\ Credential[ctx[p]] \in could[p]
    BY <1>3 DEF ReadConfig, files, local, SeenBy
  <2>1. CASE ctx[p] # "explicit" /\ config["default"] = NoFile
    <3>0. ctx[p] = "default"
      BY <1>m, <2>1 DEF Context
    <3>1. pc'[p] = "legacy" /\ Source("default") = "legacy"
      BY <1>3, <2>1 DEF ReadConfig, To, State, Source
    <3>2. ConfigDecides("default", ConfigFields("legacy")) =>
            AuthHeader(ConfigFields("legacy")) \in could[p]
      BY <2>0, <3>0, <3>1, LoadsConfig DEF Credential, Context
    <3>3. AuthHeader(ConfigFields("legacy")') # NoToken \/ "default" \in managed =>
            AuthHeader(ConfigFields("legacy")') \in could'[p]
      BY <1>c, <1>u, <2>0, <3>1, <3>2 DEF ConfigDecides, ConfigPath
    <3>4. config'["default"] = NoFile
      BY <1>u, <2>0, <2>1
    <3> QED
      BY <1>c, <1>m, <3>1, <3>3, <3>4 DEF SeenBy, AuthHeader
  <2>2. CASE ctx[p] # "explicit" /\ config["default"] # NoFile
    <3>0. ctx[p] = "default" /\ Source("default") = "default" /\ "default" \in ConfigPath
          /\ Contents(p, "default") /\ pc[p] # "check"
      BY <1>3, <1>m, <2>2 DEF ReadConfig, Context, Source, ConfigPath
    <3>1. /\ pc'[p] = "check" /\ Given(p)' = ConfigFields("default")
          /\ (~slipped'[p] => ReadFrom(p)' \notin loose')
      BY <1>k, <2>0, <2>2, <3>0
    <3>2. ConfigDecides("default", ConfigFields("default")) =>
            AuthHeader(ConfigFields("default")) \in could'[p]
      BY <1>c, <2>0, <3>0, <3>1, LoadsConfig DEF Credential, Context
    <3>3. ~ConfigDecides("default", ConfigFields("default")) => Bare("default")'
      BY <1>u, <2>0, <3>0 DEF Bare, ConfigDecides, Context
    <3>4. ConfigDecides("default", Given(p))' <=> ConfigDecides("default", ConfigFields("default"))
      BY <1>m, <3>1 DEF ConfigDecides, AuthHeader
    <3>5. AuthHeader(Given(p))' = AuthHeader(ConfigFields("default"))
      BY <3>1 DEF AuthHeader
    <3> QED
      BY <1>c, <1>m, <3>1, <3>2, <3>3, <3>4, <3>5 DEF SeenBy, ConfigDecides
  <2>3. CASE ctx[p] = "explicit"
    <3>0. Source(ctx[p]) = ctx[p] /\ Parsed(p, ConfigFields("explicit"), FALSE)
          /\ ConfigFields("explicit") \in Fields
      BY <1>3, <2>3, SourceTypes DEF ReadConfig, Source, ConfigPath, Context
    <3>1. pc'[p] = (IF ConfigDecides(ctx[p], ConfigFields(ctx[p])) THEN "loaded"
                    ELSE IF ctx[p] = "explicit" THEN "sibling" ELSE "data")
          /\ cfg'[p].fields = ConfigFields(ctx[p])
      BY <2>3, <3>0 DEF Parsed, To, State
    <3>2. CASE ConfigDecides(ctx[p], ConfigFields(ctx[p]))
      <4>1. AuthHeader(ConfigFields(ctx[p])) \in could'[p]
        BY <1>c, <1>m, <2>0, <3>0, <3>1, <3>2, LoadsConfig DEF Credential
      <4> QED
        BY <1>c, <3>1, <3>2, <4>1 DEF SeenBy
    <3>3. CASE ~ConfigDecides(ctx[p], ConfigFields(ctx[p]))
      <4>1. Bare(ctx[p])
        BY <3>0, <3>3 DEF Bare, ConfigDecides
      <4>2. Bare(ctx[p])'
        BY <1>u, <1>m, <2>0, <4>1 DEF Bare, Source
      <4> QED
        BY <1>c, <1>m, <2>0, <2>3, <3>1, <3>3, <4>2 DEF SeenBy, Context
    <3> QED
      BY <3>2, <3>3
  <2> QED
    BY <2>1, <2>2, <2>3
<1>4. CASE ReadLegacy(p)
  <2>0. /\ files' = files /\ ctx' = ctx /\ Credential[ctx[p]] \in could[p]
        /\ ctx[p] = "default" /\ pc[p] = "legacy"
    BY <1>4 DEF ReadLegacy, files, local, SeenBy, Kinds
  <2>1. ~ConfigDecides("default", ConfigFields("legacy")) => Bare("default")'
    <3>1. ~ConfigDecides("default", ConfigFields("legacy")) => Bare("default")
      BY <2>0 DEF Bare, ConfigDecides, Source, SeenBy
    <3> QED
      BY <1>u, <2>0, <3>1 DEF Context
  <2>2. CASE config["legacy"] = NoFile
    <3>1. ConfigFields("legacy") = NoFields
      BY <2>2 DEF ConfigFields
    <3>2. pc'[p] = (IF ConfigDecides("default", NoFields) THEN "loaded" ELSE "data")
          /\ cfg'[p].fields = NoFields
      BY <1>4, <2>0, <2>2 DEF ReadLegacy, Parsed, To, State
    <3>3. ConfigDecides("default", NoFields) => AuthHeader(NoFields) \in could'[p]
      BY <1>c, <2>0, <3>1, <3>2 DEF SeenBy, ConfigDecides
    <3>4. ~ConfigDecides("default", NoFields) => Bare(ctx[p])'
      BY <2>0, <2>1, <3>1 DEF Bare, Source
    <3> QED
      BY <1>c, <2>0, <3>2, <3>3, <3>4 DEF SeenBy
  <2>3. CASE config["legacy"] # NoFile
    <3>0. Contents(p, "legacy") /\ "legacy" \in ConfigPath /\ pc[p] # "check"
      BY <1>4, <2>3 DEF ReadLegacy, ConfigPath
    <3>1. /\ pc'[p] = "check" /\ Given(p)' = ConfigFields("legacy")
          /\ (~slipped'[p] => ReadFrom(p)' \notin loose')
      BY <1>k, <2>0, <2>3, <3>0
    <3>2. AuthHeader(ConfigFields("legacy")) # NoToken \/ "default" \in managed =>
            AuthHeader(ConfigFields("legacy")) \in could'[p]
      BY <1>c, <2>0, <3>1 DEF SeenBy
    <3>4. ConfigDecides("default", Given(p))' <=> ConfigDecides("default", ConfigFields("legacy"))
      BY <1>m, <3>1 DEF ConfigDecides, AuthHeader
    <3>5. AuthHeader(Given(p))' = AuthHeader(ConfigFields("legacy"))
      BY <3>1 DEF AuthHeader
    <3> QED
      BY <1>c, <1>m, <2>1, <3>1, <3>2, <3>4, <3>5 DEF SeenBy
  <2> QED
    BY <2>2, <2>3
<1>13. CASE CheckConfig(p)
  <2> DEFINE f == IF ReadFrom(p) \in loose THEN NoFields ELSE cfg[p].fields
  <2>0. /\ files' = files /\ ctx' = ctx /\ ctx[p] = "default" /\ pc[p] = "check"
        /\ f \in Fields /\ cfg[p].legacy \in BOOLEAN /\ Parsed(p, f, cfg[p].legacy)
    BY <1>13, FieldTypes DEF CheckConfig, files, local, Kinds, State
  <2>1. f = Given(p) \/ (slipped[p] /\ ReadFrom(p) \notin loose /\ Given(p) = NoFields)
    BY <2>0 DEF SeenBy, Given
  <2> HIDE DEF f
  <2>2. pc'[p] = (IF ConfigDecides("default", f) THEN "loaded" ELSE "data")
        /\ cfg'[p].fields = f
    BY <2>0 DEF Parsed, To, State
  <2>3. slipped'[p] <=> slipped[p] /\ ReadFrom(p) \notin loose
    BY <1>p, <2>0, <2>2 DEF Slips
  <2>4. CASE ConfigDecides("default", f)
    <3>1. ~slipped'[p] => AuthHeader(f) \in could'[p]
      BY <1>c, <2>0, <2>1, <2>2, <2>3, <2>4 DEF SeenBy, ConfigDecides
    <3> QED
      BY <1>c, <2>2, <2>4, <3>1 DEF SeenBy
  <2>5. CASE ~ConfigDecides("default", f)
    <3>1. ~ConfigDecides("default", Given(p))
      BY <2>1, <2>5, FieldTypes DEF ConfigDecides
    <3>2. Bare(ctx[p])'
      BY <1>u, <2>0, <3>1 DEF SeenBy, Bare, Source, Context
    <3> QED
      BY <1>c, <2>0, <2>2, <2>5, <3>2 DEF SeenBy
  <2> QED
    BY <2>4, <2>5
<1>5. CASE ReadSibling(p)
  <2>0. /\ files' = files /\ ctx' = ctx /\ Credential[ctx[p]] \in could[p]
        /\ ctx[p] = "explicit" /\ Bare(ctx[p])
    BY <1>5 DEF ReadSibling, files, local, SeenBy, Kinds
  <2>1. CASE SiblingDecides
    <3>1. pc'[p] = "loaded" /\ cfg'[p].fields = SiblingFields
      BY <1>5, <2>1 DEF ReadSibling, To, State
    <3>2. AuthHeader(SiblingFields) \in could'[p]
      BY <1>c, <1>m, <2>0, <2>1, <3>1, LoadsCreds DEF Credential
    <3> QED
      BY <1>c, <3>1, <3>2 DEF SeenBy
  <2>2. CASE ~SiblingDecides
    <3>1. pc'[p] = "data"
      BY <1>5, <2>2 DEF ReadSibling, To, State
    <3>2. Bare(ctx[p])' /\ ~SiblingDecides'
      BY <1>u, <1>m, <2>0, <2>2 DEF Bare, Source
    <3> QED
      BY <1>c, <3>1, <3>2 DEF SeenBy
  <2> QED
    BY <2>1, <2>2
<1>6. CASE ReadData(p)
  <2>0. /\ files' = files /\ ctx' = ctx /\ Credential[ctx[p]] \in could[p]
        /\ Bare(ctx[p]) /\ (ctx[p] = "explicit" => ~SiblingDecides)
    BY <1>6 DEF ReadData, files, local, SeenBy
  <2>1. pc'[p] = "loaded" /\ cfg'[p].fields = DataFields
    BY <1>6 DEF ReadData, To, State
  <2>2. AuthHeader(DataFields) \in could'[p]
    BY <1>c, <1>m, <2>0, <2>1, LoadsCreds DEF Credential
  <2> QED
    BY <1>c, <2>1, <2>2 DEF SeenBy
<1>7. CASE Change(p)
  <2>1. pc'[p] \in {"credentials", "save", "scrub", "done", "idle"}
    BY <1>7 DEF Change, To, State
  <2> QED
    BY <2>1 DEF SeenBy
<1>8. CASE SaveCredentials(p)
  <2>1. pc'[p] \in {"credentials", "save", "scrub", "done", "idle"}
    BY <1>8 DEF SaveCredentials, To, State
  <2> QED
    BY <2>1 DEF SeenBy
<1>9. ASSUME RemoveCredentials(p)
      PROVE  SeenBy(p)'
  <2>1. pc'[p] \in {"credentials", "save", "scrub", "done", "idle"}
    BY <1>9 DEF RemoveCredentials, To, State
  <2> QED
    BY <2>1 DEF SeenBy
<1>10. CASE Save(p)
  <2>1. pc'[p] \in {"credentials", "save", "scrub", "done", "idle"}
    BY <1>10 DEF Save, To, State
  <2> QED
    BY <2>1 DEF SeenBy
<1>11. CASE ScrubLegacy(p)
  <2>1. pc'[p] \in {"credentials", "save", "scrub", "done", "idle"}
    BY <1>11 DEF ScrubLegacy, To, State
  <2> QED
    BY <2>1 DEF SeenBy
<1>12. CASE Fail(p)
  <2>1. pc'[p] \in {"credentials", "save", "scrub", "done", "idle"}
    BY <1>12 DEF Fail, To, State
  <2> QED
    BY <2>1 DEF SeenBy
<1> QED
  BY <1>1, <1>2, <1>3, <1>4, <1>5, <1>6, <1>7, <1>8, <1>9, <1>10, <1>11,
     <1>12, <1>13 DEF Step

-----------------------------------------------------------------------------
(* What a set-token or a logout has written, while it and after it ends.   *)

(* Between the credentials file and the config file: the credentials file  *)
(* gives what it has written, unless another has written since, and        *)
(* some token still after a set-token, unless another has logged out.      *)
KeptFor(p) ==
  pc[p] = "save" /\ ctx[p] \notin managed =>
    /\ met[p] = {} => AuthHeader(DataFields) = new[p]
    /\ op[p] = "set" /\ "logout" \notin met[p] => AuthHeader(DataFields) # NoToken
Kept == \A p \in Process : KeptFor(p)

(* And once the config file is written too.                                *)
StoredFor(p) ==
  pc[p] \in {"scrub", "done"} /\ op[p] # "use" /\ met[p] = {} =>
    /\ config[ctx[p]] # NoFile
    /\ ctx[p] \in managed => AuthHeader(ConfigFields(ctx[p])) = new[p]
    /\ ctx[p] \notin managed => /\ AuthHeader(ConfigFields(ctx[p])) = NoToken
                                /\ AuthHeader(DataFields) = new[p]
Stored == \A p \in Process : StoredFor(p)

(* What Watch notes of a step of p for another process, and for p.         *)
LEMMA MetGrows ==
  ASSUME TypeOK, NEW p \in Process, Step(p), Watch(p), NEW q \in Process
  PROVE  \/ pc'[q] = "idle" \/ (pc'[q] = "config" /\ pc[q] # "config")
         \/ met'[q] = met[q] /\ (q = p \/ files' = files)
         \/ q # p /\ met'[q] = met[q] \cup {op[p]}
<1>1. met'[q] = IF pc'[q] = "idle" \/ (pc'[q] = "config" /\ pc[q] # "config") THEN {}
                ELSE IF q # p /\ files' # files THEN met[q] \cup {op[p]} ELSE met[q]
  BY DEF Watch
<1>2. CASE pc'[q] = "idle" \/ (pc'[q] = "config" /\ pc[q] # "config")
  BY <1>2, Zenon
<1>3. CASE ~(pc'[q] = "idle" \/ (pc'[q] = "config" /\ pc[q] # "config"))
  <2>1. CASE q # p /\ files' # files
    BY <1>1, <1>3, <2>1, Zenon
  <2>2. CASE ~(q # p /\ files' # files)
    BY <1>1, <1>3, <2>2, Zenon
  <2> QED
    BY <2>1, <2>2
<1> QED
  BY <1>2, <1>3, Zenon

(* The steps that follow a write that another process may make.            *)
LEMMA KeptByOthers ==
  ASSUME TypeOK, Kinds, NEW p \in Process, Step(p), Watch(p), NEW q \in Process, q # p,
         KeptFor(q), StoredFor(q)
  PROVE  KeptFor(q)' /\ StoredFor(q)'
<1>1. State
  BY DEF TypeOK, State
<1>2. /\ pc'[q] = pc[q] /\ ctx'[q] = ctx[q] /\ new'[q] = new[q] /\ op'[q] = op[q]
      /\ ctx[q] \in Context /\ managed' = managed
  BY <1>1, OthersStay, FileSteps DEF State
<1>3. CASE pc'[q] = "idle" \/ (pc'[q] = "config" /\ pc[q] # "config")
  BY <1>3 DEF KeptFor, StoredFor
<1>4. CASE met'[q] = met[q] /\ files' = files
  <2>1. /\ config' = config /\ AuthHeader(DataFields') = AuthHeader(DataFields)
        /\ \A c \in Context : AuthHeader(ConfigFields(c)') = AuthHeader(ConfigFields(c))
    BY <1>2, <1>4, NoEffect DEF Untouched, ConfigPath
  <2>2. ASSUME NEW c \in Context, c = ctx[q]
        PROVE  AuthHeader(ConfigFields(ctx[q]))' = AuthHeader(ConfigFields(ctx[q]))
    BY <1>2, <2>1, <2>2 DEF AuthHeader, ConfigFields
  <2> QED
    BY <1>2, <1>4, <2>1, <2>2 DEF KeptFor, StoredFor, AuthHeader
<1>5. CASE met'[q] = met[q] \cup {op[p]}
  <2>1. met'[q] # {} /\ op[p] \in met'[q] /\ met[q] \subseteq met'[q]
    BY <1>5
  <2>2. StoredFor(q)'
    BY <2>1 DEF StoredFor
  <2>3. ASSUME pc'[q] = "save", ctx'[q] \notin managed', op'[q] = "set", "logout" \notin met'[q]
        PROVE  AuthHeader(DataFields)' # NoToken
    <3>1. AuthHeader(DataFields) # NoToken /\ op[p] # "logout"
      BY <1>2, <2>1, <2>3 DEF KeptFor
    <3>2. CASE DataWritten(p)
      <4>1. op[p] = "set" /\ new[p] \in Token
        BY <1>1, <3>1, <3>2 DEF DataWritten, State, Kinds
      <4> QED
        BY <1>1, <3>2, <4>1, DataEffect, TokensAssumption
    <3>3. CASE Untouched \/ ConfigWritten(p) \/ LegacyScrubbed(p)
      <4>1. DataFields' = DataFields
        BY <1>1, <1>2, <3>3, NoEffect, ConfigEffect, ScrubEffect
      <4> QED
        BY <3>1, <4>1 DEF AuthHeader
    <3> QED
      BY <1>1, <3>2, <3>3, FileSteps
  <2> QED
    BY <2>1, <2>2, <2>3 DEF KeptFor
<1> QED
  BY <1>3, <1>4, <1>5, MetGrows

(* The writer's own steps.                                                 *)
LEMMA KeptByItself ==
  ASSUME TypeOK, Kinds, NEW p \in Process, Step(p), Watch(p), KeptFor(p), StoredFor(p)
  PROVE  KeptFor(p)' /\ StoredFor(p)'
<1>s. State
  BY DEF TypeOK, State
<1>m. managed' = managed /\ ctx[p] \in Context /\ ctx[p] \in ConfigPath
  BY <1>s, FileSteps DEF State, ConfigPath
<1>n. new[p] \in Field /\ (op[p] = "set" => new[p] # NoToken)
  BY <1>s, TokensAssumption DEF State, Kinds
<1>1. ASSUME NEW c \in Context, NEW t \in Token \ {Old}, Begin(p, "set", c, t)
      PROVE  KeptFor(p)' /\ StoredFor(p)'
  <2>1. pc'[p] \in {"idle", "config", "loaded", "sibling", "data"}
    BY <1>1, <1>s DEF Begin, To, Parsed, State
  <2> QED
    BY <2>1 DEF KeptFor, StoredFor
<1>2. ASSUME NEW c \in Context, NEW o \in {"logout", "use"}, Begin(p, o, c, NoToken)
      PROVE  KeptFor(p)' /\ StoredFor(p)'
  <2>1. pc'[p] \in {"idle", "config", "loaded", "sibling", "data"}
    BY <1>2, <1>s DEF Begin, To, Parsed, State
  <2> QED
    BY <2>1 DEF KeptFor, StoredFor
<1>3. CASE Looks(p)
  <2>1. pc'[p] \in {"legacy", "check", "loaded", "sibling", "data"}
    BY <1>3, <1>s, LooksTypes
  <2> QED
    BY <2>1 DEF KeptFor, StoredFor
<1>5. CASE ReadSibling(p)
  <2>1. pc'[p] \in {"idle", "config", "loaded", "sibling", "data"}
    BY <1>5, <1>s DEF ReadSibling, To, Parsed, State
  <2> QED
    BY <2>1 DEF KeptFor, StoredFor
<1>6. CASE ReadData(p)
  <2>1. pc'[p] \in {"idle", "config", "loaded", "sibling", "data"}
    BY <1>6, <1>s DEF ReadData, To, Parsed, State
  <2> QED
    BY <2>1 DEF KeptFor, StoredFor
<1>7. CASE Change(p)
  <2>1. /\ pc'[p] \in {"done", "save", "credentials"} /\ ctx' = ctx /\ op' = op
        /\ pc'[p] = "done" => op[p] = "use"
        /\ pc'[p] = "save" => ctx[p] \in managed
    BY <1>7, <1>s DEF Change, To, State, local
  <2> QED
    BY <2>1, <1>m DEF KeptFor, StoredFor
<1>8. CASE SaveCredentials(p)
  <2>1. pc'[p] = "save" /\ new' = new /\ pc[p] = "credentials"
    BY <1>8, <1>s DEF SaveCredentials, To, State, local
  <2>2. DataWritten(p)
    BY <1>8, <1>s DEF SaveCredentials, Tight, DataWritten, Kinds
  <2>3. AuthHeader(DataFields)' = new[p]
    BY <1>s, <2>2, DataEffect
  <2>4. op'[p] = "set" => new[p] # NoToken
    BY <1>8, <1>n DEF SaveCredentials, local
  <2> QED
    BY <2>1, <2>3, <2>4 DEF KeptFor, StoredFor
<1>9. ASSUME RemoveCredentials(p)
      PROVE  KeptFor(p)' /\ StoredFor(p)'
  <2>1. pc'[p] = "save" /\ new' = new /\ pc[p] = "credentials"
    BY <1>9, <1>s DEF RemoveCredentials, To, State, local
  <2>2. DataWritten(p)
    BY <1>9, <1>s DEF RemoveCredentials, Tight, DataWritten, Kinds
  <2>3. AuthHeader(DataFields)' = new[p]
    BY <1>s, <2>2, DataEffect
  <2>4. op'[p] = "set" => new[p] # NoToken
    BY <1>9, <1>n DEF RemoveCredentials, local
  <2> QED
    BY <2>1, <2>3, <2>4 DEF KeptFor, StoredFor
<1>10. CASE Save(p)
  <2>1. /\ pc'[p] \in {"scrub", "done"} /\ new' = new /\ op' = op /\ ctx' = ctx
        /\ pc[p] = "save"
    BY <1>10, <1>s DEF Save, To, State, local
  <2>2. ConfigWritten(p)
    BY <1>10, <1>s DEF Save, Tight, Persisted, ConfigWritten, Kinds
  <2>3. met'[p] = met[p]
    BY <2>1, MetGrows
  <2>4. ASSUME NEW c \in Context, c = ctx[p], met[p] = {}
        PROVE  /\ config'[c] # NoFile
               /\ c \in managed => AuthHeader(ConfigFields(c)') = new[p]
               /\ c \notin managed => /\ AuthHeader(ConfigFields(c)') = NoToken
                                      /\ AuthHeader(DataFields') = new[p]
    BY <1>s, <1>n, <2>1, <2>2, <2>4, ConfigEffect, FieldTypes DEF KeptFor
  <2> QED
    BY <1>m, <2>1, <2>3, <2>4 DEF KeptFor, StoredFor, AuthHeader, ConfigFields
<1>11. CASE ScrubLegacy(p)
  <2>1. /\ pc'[p] = "done" /\ new' = new /\ op' = op /\ ctx' = ctx
        /\ pc[p] = "scrub" /\ met'[p] = met[p]
    BY <1>11, <1>s, MetGrows DEF ScrubLegacy, To, State, local
  <2>2. Untouched \/ LegacyScrubbed(p)
    BY <1>s, <2>1, FileSteps DEF DataWritten, ConfigWritten
  <2>3. /\ \A c \in Context : config'[c] = config[c] /\ ConfigFields(c)' = ConfigFields(c)
        /\ DataFields' = DataFields
    BY <1>s, <1>m, <2>2, NoEffect, ScrubEffect DEF ConfigPath
  <2>4. ASSUME NEW c \in Context, c = ctx[p], met[p] = {}
        PROVE  /\ config'[c] # NoFile
               /\ c \in managed => AuthHeader(ConfigFields(c)') = new[p]
               /\ c \notin managed => /\ AuthHeader(ConfigFields(c)') = NoToken
                                      /\ AuthHeader(DataFields') = new[p]
    BY <1>s, <2>1, <2>3, <2>4 DEF StoredFor, Kinds
  <2> QED
    BY <1>m, <2>1, <2>4 DEF KeptFor, StoredFor, AuthHeader, ConfigFields
<1>12. CASE Fail(p)
  <2>1. pc'[p] \in {"idle", "config", "loaded", "sibling", "data"}
    BY <1>12, <1>s DEF Fail, To, Parsed, State
  <2> QED
    BY <2>1 DEF KeptFor, StoredFor
<1> QED
  BY <1>1, <1>2, <1>3, <1>5, <1>6, <1>7, <1>8, <1>9, <1>10, <1>11,
     <1>12 DEF Step, Looks

-----------------------------------------------------------------------------
(* The theorems.                                                           *)

Inv == TypeOK /\ Kinds /\ Seen /\ Kept /\ Stored

(* The first state.                                                        *)
LEMMA InvInit == Init => Inv
<1> SUFFICES ASSUME Init PROVE Inv
  OBVIOUS
<1>1. \A p \in Process : pc[p] = "idle" /\ op[p] = "use" /\ new[p] = NoToken /\ ~cfg[p].legacy
  BY DEF Init
<1>2. TypeOK
  <2>1. OnlyToken(Old) \in Fields /\ [auth |-> Old, token |-> NoToken] \in Fields /\ NoFields \in Fields
    BY TokensAssumption, FieldTypes DEF Fields, Field
  <2>2. loose \subseteq ConfigPath \cup DataPath
    BY DEF Init
  <2>3. config \in [ConfigPath -> Fields \cup {NoFile}] /\ creds \in [DataPath -> Fields \cup {NoFile, Malformed}]
    BY <2>1 DEF Init
  <2>4. /\ pc \in [Process -> Label] /\ op \in [Process -> {"set", "logout", "use"}]
        /\ ctx \in [Process -> Context] /\ new \in [Process -> Field] /\ managed \subseteq Context
        /\ cfg \in [Process -> [fields : Fields, legacy : BOOLEAN]]
        /\ commands \in Nat
        /\ could \in [Process -> SUBSET Field] /\ met \in [Process -> SUBSET {"set", "logout"}]
        /\ slipped \in [Process -> BOOLEAN]
    BY <2>1 DEF Init, Label, Context, Field
  <2> QED
    BY <1>1, <2>2, <2>3, <2>4 DEF TypeOK
<1>3. Kinds /\ Seen /\ Kept /\ Stored
  BY <1>1 DEF Kinds, Seen, SeenBy, Loading, Kept, KeptFor, Stored, StoredFor
<1> QED
  BY <1>2, <1>3 DEF Inv

(* Every step.                                                             *)
LEMMA InvStep == Inv /\ [Next]_vars => Inv'
<1> SUFFICES ASSUME Inv, [Next]_vars PROVE Inv'
  OBVIOUS
<1>1. TypeOK' /\ Kinds'
  BY TypeStep DEF Inv
<1>2. ASSUME NEW p \in Process, Step(p), Watch(p) PROVE Seen' /\ Kept' /\ Stored'
  <2>1. State /\ slipped \in [Process -> BOOLEAN]
    BY DEF Inv, TypeOK, State
  <2>2. ASSUME NEW q \in Process PROVE SeenBy(q)' /\ KeptFor(q)' /\ StoredFor(q)'
    <3>1. SeenBy(q) /\ KeptFor(q) /\ StoredFor(q)
      BY DEF Inv, Seen, Kept, Stored
    <3>2. CASE q = p
      BY <1>2, <2>1, <3>1, <3>2, SeenByItself, KeptByItself DEF Inv
    <3>3. CASE q # p
      BY <1>2, <2>1, <3>1, <3>3, SeenByOthers, KeptByOthers DEF Inv
    <3> QED
      BY <3>2, <3>3
  <2> QED
    BY <2>2 DEF Seen, Kept, Stored
<1>3. CASE UNCHANGED vars
  <2>1. /\ pc' = pc /\ op' = op /\ ctx' = ctx /\ new' = new /\ cfg' = cfg /\ could' = could
        /\ met' = met /\ managed' = managed /\ config' = config /\ Untouched
        /\ slipped' = slipped /\ loose' = loose
    BY <1>3 DEF vars, files, Untouched
  <2>2. /\ \A path \in ConfigPath : ConfigFields(path)' = ConfigFields(path)
        /\ \A c \in Context : Bare(c)' <=> Bare(c)
        /\ (SiblingDecides' <=> SiblingDecides) /\ DataFields' = DataFields
        /\ Credential' = Credential
    BY <2>1, NoEffect DEF Bare, Credential, AuthHeader, Source, ConfigPath, ConfigFields, Untouched, files
  <2>3. Seen'
    <3>1. ASSUME NEW q \in Process PROVE SeenBy(q)'
      <4>1. SeenBy(q) /\ ctx[q] \in Context
        BY DEF Inv, Seen, TypeOK
      <4>2. ConfigFields("legacy")' = ConfigFields("legacy") /\ ConfigFields("default")' = ConfigFields("default")
        BY <2>2 DEF ConfigPath, Context
      <4>3. \A c \in Context : c = ctx[q] => (Bare(ctx[q])' <=> Bare(c))
        BY <2>1, <2>2 DEF Bare, Source
      <4>4. Bare("default")' <=> Bare("default")
        BY <2>2 DEF Context
      <4> QED
        BY <2>1, <2>2, <4>1, <4>2, <4>3, <4>4 DEF SeenBy, Loading, AuthHeader, Given, ReadFrom, ConfigDecides
    <3> QED
      BY <3>1 DEF Seen
  <2>4. Kept' /\ Stored'
    <3>1. ASSUME NEW q \in Process PROVE KeptFor(q)' /\ StoredFor(q)'
      <4>1. KeptFor(q) /\ StoredFor(q) /\ ctx[q] \in Context
        BY DEF Inv, Kept, Stored, TypeOK
      <4>2. \A c \in Context : c = ctx[q] => ConfigFields(ctx[q])' = ConfigFields(c)
        BY <2>1, <2>2 DEF ConfigFields, ConfigPath
      <4> QED
        BY <2>1, <2>2, <4>1, <4>2 DEF KeptFor, StoredFor, AuthHeader
    <3> QED
      BY <3>1 DEF Kept, Stored
  <2> QED
    BY <1>1, <2>3, <2>4 DEF Inv
<1> QED
  BY <1>1, <1>2, <1>3 DEF Inv, Next

(* The invariant holds in every state.                                     *)
LEMMA AlwaysInv == Spec => []Inv
BY InvInit, InvStep, PTL DEF Spec

(* Every variable keeps its type, whichever commands run.                  *)
THEOREM TypeCorrect == Spec => []TypeOK
BY AlwaysInv, PTL DEF Inv

(* However many commands migrate, store and clear the credential while a   *)
(* Load reads one source after another, it returns one that was there at   *)
(* some moment since it began, unless a config file that was refused when  *)
(* it was read had been replaced before its permissions were looked at.    *)
THEOREM LoadsAreAtomic == Spec => []LoadIsAtomic
<1>1. Inv => LoadIsAtomic
  BY DEF Inv, Seen, SeenBy, LoadIsAtomic
<1> QED
  BY <1>1, AlwaysInv, PTL

(* What a set-token or a logout that met no other has written is what a    *)
(* Load in its context then returns.                                       *)
THEOREM WrittenIsAlwaysLoaded == Spec => []WrittenIsLoaded
<1>1. Inv => WrittenIsLoaded
  <2> SUFFICES ASSUME Inv, NEW p \in Process, Written(p), ~Shadowed(ctx[p])
               PROVE  Credential[ctx[p]] = new[p]
    BY DEF WrittenIsLoaded
  <2>1. StoredFor(p) /\ ctx[p] \in Context
    BY DEF Inv, Stored, TypeOK
  <2>2. Source(ctx[p]) = ctx[p]
    BY <2>1 DEF StoredFor, Written, Source
  <2>3. CASE ctx[p] \in managed
    BY <2>1, <2>2, <2>3 DEF StoredFor, Written, Credential, Loads, ConfigDecides
  <2>4. CASE ctx[p] \notin managed
    BY <2>1, <2>2, <2>4 DEF StoredFor, Written, Credential, Loads, ConfigDecides, Shadowed
  <2> QED
    BY <2>3, <2>4
<1> QED
  BY <1>1, AlwaysInv, PTL

(* A Load whose sources give what they gave finds what it found.           *)
LEMMA LoadsSame ==
  ASSUME NEW c \in Context, managed' = managed, config'[c] = config[c],
         ConfigFields(c)' = ConfigFields(c),
         Source(c) = c \/ ConfigFields("legacy")' = ConfigFields("legacy"),
         DataFields' = DataFields, SiblingDecides' <=> SiblingDecides,
         SiblingFields' = SiblingFields
  PROVE  Loads(c)' = Loads(c)
<1>1. Source(c)' = Source(c) /\ Source(c) \in {c, "legacy"}
  BY DEF Source
<1>3. CASE Source(c) = c
  BY <1>1, <1>3 DEF Loads, ConfigDecides, AuthHeader
<1>4. CASE Source(c) = "legacy" /\ ConfigFields("legacy")' = ConfigFields("legacy")
  BY <1>1, <1>4 DEF Loads, ConfigDecides, AuthHeader
<1> QED
  BY <1>1, <1>3, <1>4

(* Which steps of a set-token move it on, and what they do to what a Load  *)
(* finds that found a token.                                               *)
LEMMA SetStep ==
  ASSUME Inv, NEW p \in Process, Step(p), NEW c \in Context,
         op[p] = "set", "logout" \notin met[p], Loads(c) # NoToken, ~Shadowed(c)
  PROVE  Loads(c)' # NoToken
<1>1. State /\ Kinds /\ KeptFor(p) /\ managed' = managed
  BY FileSteps DEF Inv, Kept, TypeOK, State
<1>2. new[p] \in Token /\ new[p] # NoToken /\ new[p] \in Field /\ ctx[p] \in Context
  BY <1>1, TokensAssumption DEF Kinds, State
<1>3. CASE Untouched
  BY <1>1, <1>3, NoEffect
<1>4. CASE DataWritten(p)
  <2>1. Source(c)' = Source(c) /\ Source(c) \in ConfigPath
    BY <1>1, <1>4, DataEffect DEF Source, ConfigPath
  <2>2. ASSUME NEW s \in ConfigPath, s = Source(c) PROVE Loads(c)' # NoToken
    <3>1. ConfigFields(s)' = ConfigFields(s)
      BY <1>1, <1>4, DataEffect
    <3>2. CASE ConfigDecides(c, ConfigFields(s))
      <4>1. ConfigDecides(c, ConfigFields(s))'
        BY <1>1, <3>1, <3>2 DEF ConfigDecides, AuthHeader
      <4>2. Loads(c)' = AuthHeader(ConfigFields(s)')
        BY <2>1, <2>2, <4>1 DEF Loads, AuthHeader
      <4>3. Loads(c) = AuthHeader(ConfigFields(s))
        BY <2>2, <3>2 DEF Loads
      <4> QED
        BY <3>1, <4>2, <4>3
    <3>3. CASE ~ConfigDecides(c, ConfigFields(s))
      <4>1. ~SiblingDecides \/ c # "explicit"
        BY <3>3 DEF ConfigDecides, AuthHeader, Shadowed
      <4>2. ~ConfigDecides(c, ConfigFields(s))'
        BY <1>1, <3>1, <3>3 DEF ConfigDecides, AuthHeader
      <4>3. ~(c = "explicit" /\ SiblingDecides')
        BY <1>1, <1>4, <4>1, DataEffect
      <4>4. Loads(c)' = AuthHeader(DataFields)'
        BY <2>1, <2>2, <4>2, <4>3 DEF Loads, AuthHeader
      <4> QED
        BY <1>1, <1>2, <1>4, <4>4, DataEffect
    <3> QED
      BY <3>2, <3>3
  <2> QED
    BY <2>1, <2>2
<1>5. CASE ConfigWritten(p)
  <2>1. CASE c = ctx[p]
    <3>1. Source(c)' = c
      BY <1>1, <1>5, <2>1, ConfigEffect DEF Source
    <3>2. CASE c \in managed
      <4>1. ConfigFields(c)' = OnlyToken(new[p])
        BY <1>1, <1>5, <2>1, <3>2, ConfigEffect
      <4>2. Loads(c)' = AuthHeader(ConfigFields(c)')
        BY <1>1, <3>1, <3>2 DEF Loads, ConfigDecides, AuthHeader
      <4> QED
        BY <1>2, <4>1, <4>2, FieldTypes
    <3>3. CASE c \notin managed
      <4>1. ConfigFields(c)' = NoFields /\ DataFields' = DataFields /\ (SiblingDecides' <=> SiblingDecides)
        BY <1>1, <1>5, <2>1, <3>3, ConfigEffect
      <4>2. AuthHeader(DataFields) # NoToken
        BY <1>1, <1>5, <2>1, <3>3 DEF KeptFor, ConfigWritten
      <4>3. ~(c = "explicit" /\ SiblingDecides')
        BY <3>3, <4>1 DEF Shadowed
      <4>4. ~ConfigDecides(c, ConfigFields(c))'
        BY <1>1, <3>3, <4>1 DEF ConfigDecides, AuthHeader, NoFields
      <4>5. Loads(c)' = AuthHeader(DataFields')
        BY <3>1, <4>3, <4>4 DEF Loads, AuthHeader
      <4> QED
        BY <4>1, <4>2, <4>5
    <3> QED
      BY <3>2, <3>3
  <2>2. CASE c # ctx[p]
    <3>1. /\ config'[c] = config[c] /\ ConfigFields(c)' = ConfigFields(c)
          /\ ConfigFields("legacy")' = ConfigFields("legacy")
          /\ DataFields' = DataFields /\ (SiblingDecides' <=> SiblingDecides)
          /\ SiblingFields' = SiblingFields
      BY <1>1, <1>2, <1>5, <2>2, ConfigEffect DEF ConfigPath, Context
    <3> QED
      BY <1>1, <3>1, LoadsSame
  <2> QED
    BY <2>1, <2>2
<1>6. CASE LegacyScrubbed(p)
  <2>1. /\ config'[c] = config[c] /\ ConfigFields(c)' = ConfigFields(c)
        /\ DataFields' = DataFields /\ (SiblingDecides' <=> SiblingDecides)
        /\ SiblingFields' = SiblingFields
    BY <1>1, <1>6, ScrubEffect
  <2>2. Source(c) = c
    BY <1>6, FieldTypes, FilesAssumption DEF LegacyScrubbed, Source
  <2> QED
    BY <1>1, <2>1, <2>2, LoadsSame
<1> QED
  BY <1>1, <1>3, <1>4, <1>5, <1>6, FileSteps

(* Wherever a set-token fails or dies, no context that had a credential is *)
(* without one, unless a logout has cleared it or a file beside the config *)
(* hides the one the command writes.                                       *)
THEOREM SetNeverLeavesLoggedOut == Spec => SetNeverLogsOut
<1>1. Inv /\ Inv' /\ [Next]_vars =>
        [\A p \in Process, c \in Context :
           /\ op[p] = "set" /\ pc'[p] # pc[p] /\ "logout" \notin met[p]
           /\ Credential[c] # NoToken /\ ~Shadowed(c)
           => Credential'[c] # NoToken]_vars
  <2> SUFFICES ASSUME Inv, Next, NEW p \in Process, NEW c \in Context,
                      op[p] = "set", pc'[p] # pc[p], "logout" \notin met[p],
                      Credential[c] # NoToken, ~Shadowed(c)
               PROVE  Credential'[c] # NoToken
    OBVIOUS
  <2>1. PICK r \in Process : Step(r) /\ Watch(r)
    BY DEF Next
  <2>2. r = p
    BY <2>1, OthersStay DEF Inv, TypeOK, State
  <2>3. Loads(c) # NoToken
    BY DEF Credential
  <2>4. Loads(c)' # NoToken
    BY <2>1, <2>2, <2>3, SetStep
  <2> QED
    BY <2>4 DEF Credential
<1> QED
  BY <1>1, AlwaysInv, PTL DEF Spec, SetNeverLogsOut
=============================================================================
