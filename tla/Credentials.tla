----------------------------- MODULE Credentials -----------------------------
(***************************************************************************)
(* The stored credential: what config.Load finds, what auth set-token and  *)
(* auth login write, what auth logout clears (internal/config/config.go,   *)
(* internal/cliutil/credentials.go).                                       *)
(*                                                                         *)
(* A command runs in a context: with the default configuration file, which *)
(* falls back to a legacy one, or with an explicit one (--config or        *)
(* KVMCTL_CONFIG), which may have a credentials file beside it.  Commands  *)
(* write the credentials file of the data directory.  Reading a file,      *)
(* checking its permissions afterwards, or replacing it by rename, is one  *)
(* step; other processes run in between.                                   *)
(* The credential of an environment variable is never stored.              *)
(***************************************************************************)
EXTENDS Naturals, FiniteSets

CONSTANTS
  Process,
  Token,
  Old,            \* the token the files hold at first, if any
  NoToken, NoFile, Malformed,
  MaxLoose,       \* bound: how many files have lost their permissions
  MaxCommands     \* bound: how many commands are run

ASSUME TokensAssumption ==
  /\ Old \in Token /\ NoToken \notin Token
  /\ MaxLoose \in Nat /\ MaxCommands \in Nat

Context == {"default", "explicit"}
ConfigPath == Context \cup {"legacy"}      \* a context names its config file
DataPath == {"data", "sibling"}

VARIABLES
  config,     \* the credential fields in each config file
  creds,      \* the credentials files
  loose,      \* the files others may read: their credentials are refused
  managed,    \* the config files with an agentcookie marker beside them
  pc,
  op,         \* set, logout or use: any other command
  ctx,
  new,        \* the token a set-token stores
  cfg,        \* Config: its credential fields, and whether they are legacy's
  commands,   \* how many commands have begun
  could,      \* history: what a Load that began with this one could return
  slipped,    \* history: others could read the config file when it was read,
              \* and not any more when it was checked
  met         \* history: what others have written for since this one began

files == <<config, creds, loose>>
vars == <<files, managed, pc, op, ctx, new, cfg, commands, could, slipped, met>>

Field == Token \cup {NoToken}
Fields == [auth : Field, token : Field]
ASSUME FilesAssumption == {NoFile, Malformed} \cap Fields = {} /\ NoFile # Malformed

NoFields == [auth |-> NoToken, token |-> NoToken]
OnlyToken(t) == [auth |-> NoToken, token |-> t]
Label == {"idle", "config", "legacy", "check", "sibling", "data", "loaded",
          "credentials", "save", "scrub", "done"}

TypeOK ==
  /\ config \in [ConfigPath -> Fields \cup {NoFile}]
  /\ creds \in [DataPath -> Fields \cup {NoFile, Malformed}]
  /\ loose \subseteq ConfigPath \cup DataPath
  /\ managed \subseteq Context
  /\ pc \in [Process -> Label]
  /\ op \in [Process -> {"set", "logout", "use"}]
  /\ ctx \in [Process -> Context]
  /\ new \in [Process -> Field]
  /\ cfg \in [Process -> [fields : Fields, legacy : BOOLEAN]]
  /\ commands \in Nat
  /\ could \in [Process -> SUBSET Field]
  /\ slipped \in [Process -> BOOLEAN]
  /\ met \in [Process -> SUBSET {"set", "logout"}]
  \* a managed store keeps everything in its config file, also a legacy one
  /\ \A p \in Process : pc[p] \in {"credentials", "scrub"} => ctx[p] \notin managed

Init ==
  /\ config \in [ConfigPath -> {NoFile, OnlyToken(Old), [auth |-> Old, token |-> NoToken]}]
  /\ config["legacy"] # NoFile => config["default"] = NoFile
  /\ creds \in [DataPath -> {NoFile, NoFields, OnlyToken(Old), Malformed}]
  /\ loose \in SUBSET ({c \in ConfigPath : config[c] # NoFile} \cup {d \in DataPath : creds[d] # NoFile})
  /\ Cardinality(loose) <= MaxLoose
  /\ managed \in SUBSET Context
  /\ pc = [p \in Process |-> "idle"]
  /\ op = [p \in Process |-> "use"]
  /\ ctx = [p \in Process |-> "default"]
  /\ new = [p \in Process |-> NoToken]
  /\ cfg = [p \in Process |-> [fields |-> NoFields, legacy |-> FALSE]]
  /\ commands = 0
  /\ could = [p \in Process |-> {}]
  /\ slipped = [p \in Process |-> FALSE]
  /\ met = [p \in Process |-> {}]

-----------------------------------------------------------------------------
(* What each source gives.  AuthHeader prefers auth_header to the token.   *)

AuthHeader(f) == IF f.auth # NoToken THEN f.auth ELSE f.token

ConfigFields(path) ==
  IF config[path] = NoFile \/ path \in loose THEN NoFields ELSE config[path]

(* Complete fields, or a managed store: no credentials file is looked at.  *)
ConfigDecides(c, f) == c \in managed \/ AuthHeader(f) # NoToken

(* The file beside an explicit config is passed over when it is missing or *)
(* empty; one that is refused or does not parse hides the data directory's. *)
SiblingDecides == creds["sibling"] \notin {NoFile, NoFields}
SiblingFields ==
  IF "sibling" \in loose \/ creds["sibling"] = Malformed THEN NoFields ELSE creds["sibling"]

DataFields ==
  IF creds["data"] \in {NoFile, Malformed} \/ "data" \in loose THEN NoFields ELSE creds["data"]

(* What a Load finds that no other process interrupts. *)
Source(c) == IF c = "default" /\ config[c] = NoFile THEN "legacy" ELSE c
Loads(c) ==
  LET f == ConfigFields(Source(c)) IN
  AuthHeader(IF ConfigDecides(c, f) THEN f
             ELSE IF c = "explicit" /\ SiblingDecides THEN SiblingFields
             ELSE DataFields)
Credential == [c \in Context |-> Loads(c)]

-----------------------------------------------------------------------------
(* Load, source by source. *)

To(p, label) == pc' = [pc EXCEPT ![p] = label]
local == <<managed, op, ctx, new, commands>>

Begin(p, o, c, t) ==
  /\ pc[p] \in {"idle", "done"}
  /\ commands < MaxCommands
  /\ commands' = commands + 1
  /\ op' = [op EXCEPT ![p] = o]
  /\ ctx' = [ctx EXCEPT ![p] = c]
  /\ new' = [new EXCEPT ![p] = t]
  /\ cfg' = [cfg EXCEPT ![p] = [fields |-> NoFields, legacy |-> FALSE]]
  /\ To(p, "config")
  /\ UNCHANGED <<files, managed>>

(* The fields f of a config file, or none, are taken over. *)
ParsedWithoutMarker(p, f, fromLegacy) ==
  /\ cfg' = [cfg EXCEPT ![p] = [fields |-> f, legacy |-> fromLegacy]]
  /\ To(p, IF AuthHeader(f) # NoToken THEN "loaded"
           ELSE IF ctx[p] = "explicit" THEN "sibling" ELSE "data")
Parsed(p, f, fromLegacy) ==
  /\ cfg' = [cfg EXCEPT ![p] = [fields |-> f, legacy |-> fromLegacy]]
  /\ To(p, IF ConfigDecides(ctx[p], f) THEN "loaded"
           ELSE IF ctx[p] = "explicit" THEN "sibling" ELSE "data")

(* The default file, or the legacy one, is read first, whatever its        *)
(* permissions, and checked afterwards.                                    *)
Contents(p, path) ==
  /\ cfg' = [cfg EXCEPT ![p] = [fields |-> config[path], legacy |-> path = "legacy"]]
  /\ To(p, "check")

(* An explicit config is checked before it is read, and so are both        *)
(* credentials files.  As a file is never made readable to others here,    *)
(* that is as if both were done at the read, if it passes, or at the       *)
(* check, if it does not: one step.                                        *)
ReadConfig(p) ==
  /\ pc[p] = "config"
  /\ IF ctx[p] = "explicit"
     THEN Parsed(p, ConfigFields("explicit"), FALSE)
     ELSE IF config["default"] = NoFile
          THEN To(p, "legacy") /\ UNCHANGED cfg
          ELSE Contents(p, "default")
  /\ UNCHANGED <<files, local>>

ReadLegacy(p) ==
  /\ pc[p] = "legacy"
  /\ IF config["legacy"] = NoFile
     THEN Parsed(p, NoFields, FALSE)
     ELSE Contents(p, "legacy")
  /\ UNCHANGED <<files, local>>

ReadFrom(p) == IF cfg[p].legacy THEN "legacy" ELSE "default"
CheckConfig(p) ==
  /\ pc[p] = "check"
  /\ Parsed(p, IF ReadFrom(p) \in loose THEN NoFields ELSE cfg[p].fields, cfg[p].legacy)
  /\ UNCHANGED <<files, local>>

(* A file that does not parse is an error, which Fail stands for. *)
ReadSibling(p) ==
  /\ pc[p] = "sibling"
  /\ "sibling" \notin loose => creds["sibling"] # Malformed
  /\ IF SiblingDecides
     THEN cfg' = [cfg EXCEPT ![p].fields = SiblingFields] /\ To(p, "loaded")
     ELSE UNCHANGED cfg /\ To(p, "data")
  /\ UNCHANGED <<files, local>>

ReadData(p) ==
  /\ pc[p] = "data"
  /\ cfg' = [cfg EXCEPT ![p].fields = DataFields]
  /\ To(p, "loaded")
  /\ UNCHANGED <<files, local>>

-----------------------------------------------------------------------------
(* SaveCredential and ClearTokens: the fields in memory, the credentials   *)
(* file, the config file without credentials, the legacy one scrubbed.     *)

ChangeKeepingHeader(p) ==
  /\ pc[p] = "loaded"
  /\ IF op[p] = "use"
     THEN UNCHANGED cfg /\ To(p, "done")
     ELSE /\ cfg' = [cfg EXCEPT ![p].fields.token = new[p]]
          /\ To(p, IF ctx[p] \in managed THEN "save" ELSE "credentials")
  /\ UNCHANGED <<files, local>>
ChangeSavingConfigOnly(p) ==
  /\ pc[p] = "loaded"
  /\ cfg' = [cfg EXCEPT ![p].fields = OnlyToken(new[p])]
  /\ To(p, IF op[p] = "use" THEN "done" ELSE "save")
  /\ UNCHANGED <<files, local>>
Change(p) ==
  /\ pc[p] = "loaded"
  /\ IF op[p] = "use"
     THEN UNCHANGED cfg /\ To(p, "done")
     ELSE /\ cfg' = [cfg EXCEPT ![p].fields = OnlyToken(new[p])]
          /\ To(p, IF ctx[p] \in managed THEN "save" ELSE "credentials")
  /\ UNCHANGED <<files, local>>

(* A rename brings the permissions of a new file. *)
Tight(path) == loose' = loose \ {path}

SaveCredentials(p) ==
  /\ pc[p] = "credentials" /\ op[p] = "set"
  /\ creds' = [creds EXCEPT !["data"] = cfg[p].fields]
  /\ Tight("data")
  /\ To(p, "save")
  /\ UNCHANGED <<config, cfg, local>>

RemoveCredentials(p) ==
  /\ pc[p] = "credentials" /\ op[p] = "logout"
  /\ creds' = [creds EXCEPT !["data"] = NoFile]
  /\ Tight("data")
  /\ To(p, "save")
  /\ UNCHANGED <<config, cfg, local>>

Persisted(p) == IF ctx[p] \in managed THEN cfg[p].fields ELSE NoFields

Save(p) ==
  /\ pc[p] = "save"
  /\ config' = [config EXCEPT ![ctx[p]] = Persisted(p)]
  /\ Tight(ctx[p])
  /\ To(p, IF cfg[p].legacy /\ ctx[p] \notin managed THEN "scrub" ELSE "done")
  /\ UNCHANGED <<creds, cfg, local>>

(* What goes wrong here is a warning. *)
ScrubLegacy(p) ==
  /\ pc[p] = "scrub"
  /\ \/ config' = [config EXCEPT !["legacy"] = NoFields] /\ Tight("legacy")
     \/ UNCHANGED <<config, loose>>
  /\ To(p, "done")
  /\ UNCHANGED <<creds, cfg, local>>

(* An error of any step but the last ends the command, as a death does.    *)
Fail(p) ==
  /\ pc[p] \notin {"idle", "done"}
  /\ To(p, "idle")
  /\ UNCHANGED <<files, cfg, local>>

-----------------------------------------------------------------------------

Step(p) ==
  \/ \E c \in Context :
       \/ \E t \in Token \ {Old} : Begin(p, "set", c, t)
       \/ \E o \in {"logout", "use"} : Begin(p, o, c, NoToken)
  \/ ReadConfig(p) \/ ReadLegacy(p) \/ CheckConfig(p)
  \/ ReadSibling(p) \/ ReadData(p)
  \/ Change(p)
  \/ SaveCredentials(p) \/ RemoveCredentials(p) \/ Save(p) \/ ScrubLegacy(p)
  \/ Fail(p)

Loading(label) == label \in {"config", "legacy", "check", "sibling", "data", "loaded"}
Slips(p) ==
  \/ pc'[p] = "check" /\ ReadFrom(p)' \in loose
  \/ pc[p] = "check" /\ slipped[p] /\ ReadFrom(p) \notin loose
  \/ pc[p] # "check" /\ slipped[p] /\ pc'[p] \notin {"check", "config"}
Watch(p) ==
  /\ could' = [q \in Process |->
       IF Loading(pc'[q]) THEN could[q] \cup {Credential'[ctx'[q]]} ELSE {}]
  /\ slipped' = [slipped EXCEPT ![p] = Slips(p)]
  /\ met' = [q \in Process |->
       IF pc'[q] = "idle" \/ (pc'[q] = "config" /\ pc[q] # "config") THEN {}
       ELSE IF q # p /\ files' # files THEN met[q] \cup {op[p]} ELSE met[q]]

Next == \E p \in Process : Step(p) /\ Watch(p)

Spec == Init /\ [][Next]_vars

-----------------------------------------------------------------------------
(* Properties. *)

(* A Load that reads its sources one after another while other commands    *)
(* migrate, store and clear the credential returns one that a single look  *)
(* at all of them could have returned since it began.  The exception: the  *)
(* default or legacy config file that it read was refused at that moment   *)
(* for its permissions, and another command had replaced it by one that is *)
(* not when the permissions were looked at; what the refused file held is  *)
(* then returned.                                                          *)
LoadIsAtomic ==
  \A p \in Process : pc[p] = "loaded" /\ ~slipped[p] =>
    AuthHeader(cfg[p].fields) \in could[p]

(* A credentials file beside the explicit config that, once the config has *)
(* no credential of its own, comes before the one the commands write.      *)
Shadowed(c) == c = "explicit" /\ c \notin managed /\ SiblingDecides

(* The order of SaveCredential (saveCredentialsFirst): wherever a set-token *)
(* or a login fails or dies, no context that had a credential is without   *)
(* one, unless a logout has meanwhile cleared it.                          *)
SetNeverLogsOut ==
  [][\A p \in Process, c \in Context :
       /\ op[p] = "set" /\ pc'[p] # pc[p] /\ "logout" \notin met[p]
       /\ Credential[c] # NoToken /\ ~Shadowed(c)
       => Credential'[c] # NoToken]_vars

(* "Clear any legacy auth_header so AuthHeader() falls through to the      *)
(* newly-saved credential", and "Logged out. Credentials cleared.": after  *)
(* a set-token or a logout that no other command's writes overlapped, a    *)
(* Load in the same context returns the new token, or none; with a file    *)
(* beside the explicit config (Shadowed) it does not.                      *)
Written(p) == pc[p] = "done" /\ op[p] # "use" /\ met[p] = {}
WrittenIsLoaded ==
  \A p \in Process :
    Written(p) /\ ~Shadowed(ctx[p]) => Credential[ctx[p]] = new[p]
=============================================================================
