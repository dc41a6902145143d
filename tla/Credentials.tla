----------------------------- MODULE Credentials -----------------------------
(***************************************************************************)
(* The Weka credentials in the table of a cluster.  Version v1 of the      *)
(* table held them as they are, v2 holds them in base64; the scale lambda  *)
(* that goes with v2 decodes them, the one before did not.  Import and     *)
(* update, one at a time, migrate a v1 table: first the version tag, then  *)
(* the item, which is read and written back encoded.  change-credentials   *)
(* writes at any time, encoded, whatever the version of the table, and     *)
(* executions of the state machine keep reading.                           *)
(***************************************************************************)
EXTENDS Integers

CONSTANTS
    Secret,         \* the credentials a user may give
    MaxRuns,        \* bound: imports and updates
    MaxCrashes,     \* bound: those that fail or die half way
    MaxChanges      \* bound: change-credentials

ASSUME SecretAssumption == Secret # {}
ASSUME BoundAssumption == {MaxRuns, MaxCrashes, MaxChanges} \subseteq Nat

VARIABLES
    upgrading,  \* there was a cluster at first, with a table of v1
    item,       \* a set of at most one: the credentials, and how often encoded
    tableTag,   \* version of the table; 0 when there is none
    scaleTag,   \* version of the scale lambda; 0 when there is none
    step,       \* where import or update is
    cmd,        \* the command in progress, or the last one
    got,        \* what it read of the table: the version, the item
    outcome,    \* how the last one ended
    info,       \* what an execution fetched
    used,       \* with what it called Weka, the last time
    latest,     \* the credentials saved last
    mishap,     \* history: what happened since they were last saved by import
    runs, crashes, changes

awsVars == <<item, tableTag, scaleTag>>
cmdVars == <<step, cmd, got, outcome>>
execVars == <<info, used>>
bounds == <<runs, crashes, changes>>
vars == <<upgrading, awsVars, cmdVars, execVars, latest, mishap, bounds>>

Item(secret, encoded) == [secret |-> secret, encoded |-> encoded]
Raw == CHOOSE s \in Secret : TRUE

Init ==
    /\ upgrading \in BOOLEAN
    /\ item = IF upgrading THEN {Item(Raw, 0)} ELSE {}
    /\ latest = IF upgrading THEN {Raw} ELSE {}
    /\ tableTag = IF upgrading THEN 1 ELSE 0
    /\ scaleTag = IF upgrading THEN 1 ELSE 0
    /\ step = "idle"
    /\ cmd = "none"
    /\ got = [version |-> 0, item |-> {}]
    /\ outcome = "none"
    /\ info = {}
    /\ used = {}
    /\ mishap = {}
    /\ runs = 0
    /\ crashes = 0
    /\ changes = 0

(* EncodeBase64 and DecodeBase64: of what is not encoded, the latter makes *)
(* an error or something else, never the credentials.                      *)
Encode(i) == [i EXCEPT !.encoded = @ + 1]
Decode(i) == [i EXCEPT !.encoded = @ - 1]

-----------------------------------------------------------------------------
(***************************************************************************)
(* import and update, as far as the credentials go                         *)
(***************************************************************************)

Goes(to) == step' = to

Begin(c) ==
    /\ step = "idle"
    /\ runs < MaxRuns
    /\ c = "update" => tableTag # 0
    /\ cmd' = c
    /\ Goes("fetch")
    /\ outcome' = "none"
    /\ runs' = runs + 1
    /\ UNCHANGED <<upgrading, awsVars, got, execVars, latest, mishap, crashes, changes>>

(* Variant: the table of the earlier release is taken as it is.            *)
FetchAsItIs ==
    /\ step = "fetch"
    /\ got' = [got EXCEPT !.version = tableTag]
    /\ Goes(IF tableTag = 0 THEN "create" ELSE "save")
    /\ UNCHANGED <<upgrading, awsVars, cmd, outcome, execVars, latest, mishap, bounds>>

(* GetDbVersion, and what EnsureResource makes of it. *)
Fetch ==
    /\ step = "fetch"
    /\ got' = [got EXCEPT !.version = tableTag]
    /\ Goes(CASE tableTag = 0 -> "create" [] tableTag = 1 -> "tag" [] OTHER -> "save")
    /\ UNCHANGED <<upgrading, awsVars, cmd, outcome, execVars, latest, mishap, bounds>>

CreateDb ==
    /\ step = "create"
    /\ tableTag' = 2
    /\ Goes("save")
    /\ UNCHANGED <<upgrading, item, scaleTag, cmd, got, outcome, execVars, latest, mishap, bounds>>

UpdateDbVersion ==
    /\ step = "tag"
    /\ tableTag' = 2
    /\ Goes("get")
    /\ UNCHANGED <<upgrading, item, scaleTag, cmd, got, outcome, execVars, latest, mishap, bounds>>

(* The credentials of a v1 table; without any, the command fails. *)
GetUsernameAndPassword ==
    /\ step = "get"
    /\ IF item = {} THEN Goes("idle") /\ outcome' = "failed" /\ UNCHANGED got
       ELSE Goes("put") /\ got' = [got EXCEPT !.item = item] /\ UNCHANGED outcome
    /\ UNCHANGED <<upgrading, awsVars, cmd, execVars, latest, mishap, bounds>>

(* ChangeCredentials encodes what it is given. *)
Migrate ==
    /\ step = "put"
    /\ item' = {Encode(i) : i \in got.item}
    /\ Goes("save")
    /\ UNCHANGED <<upgrading, tableTag, scaleTag, cmd, got, outcome, execVars,
                   latest, mishap, bounds>>

(* Variant: import saves the credentials as they are.                      *)
SaveCredentialsRaw ==
    /\ step = "save"
    /\ IF cmd = "import"
       THEN /\ \E s \in Secret : item' = {Item(s, 0)} /\ latest' = {s}
            /\ mishap' = {}
       ELSE UNCHANGED <<item, latest, mishap>>
    /\ Goes("lambdas")
    /\ UNCHANGED <<upgrading, tableTag, scaleTag, cmd, got, outcome, execVars, bounds>>

(* Import saves the credentials it was given, whatever is there. *)
SaveCredentials ==
    /\ step = "save"
    /\ IF cmd = "import"
       THEN /\ \E s \in Secret : item' = {Item(s, 1)} /\ latest' = {s}
            /\ mishap' = {}
       ELSE UNCHANGED <<item, latest, mishap>>
    /\ Goes("lambdas")
    /\ UNCHANGED <<upgrading, tableTag, scaleTag, cmd, got, outcome, execVars, bounds>>

(* Then the lambdas are created or updated. *)
EnsureLambdas ==
    /\ step = "lambdas"
    /\ scaleTag' = 2
    /\ Goes("idle")
    /\ outcome' = "ok"
    /\ UNCHANGED <<upgrading, item, tableTag, cmd, got, execVars, latest, mishap, bounds>>

Crash ==
    /\ step # "idle"
    /\ crashes < MaxCrashes
    /\ crashes' = crashes + 1
    /\ mishap' = IF step \in {"get", "put"} THEN mishap \union {"torn"} ELSE mishap
    /\ Goes("idle")
    /\ outcome' = "failed"
    /\ UNCHANGED <<upgrading, awsVars, cmd, got, execVars, latest, runs, changes>>

(***************************************************************************)
(* change-credentials: one UpdateItem, which makes the item if need be.    *)
(***************************************************************************)
ChangeCredentials(s) ==
    /\ tableTag # 0
    /\ changes < MaxChanges
    /\ changes' = changes + 1
    /\ item' = {Item(s, 1)}
    /\ latest' = {s}
    /\ mishap' = mishap \union
                 (IF tableTag = 1 \/ step \in {"get", "put"} THEN {"changed"} ELSE {})
    /\ UNCHANGED <<upgrading, tableTag, scaleTag, cmdVars, execVars, runs, crashes>>

-----------------------------------------------------------------------------
(***************************************************************************)
(* An execution: what the fetch lambda reads reaches the scale lambda as   *)
(* it is then.                                                             *)
(***************************************************************************)
HostGroupInfo ==
    /\ scaleTag # 0 /\ item # {}
    /\ info = {}
    /\ info' = item
    /\ UNCHANGED <<upgrading, awsVars, cmdVars, used, latest, mishap, bounds>>

Scale ==
    /\ info # {}
    /\ used' = IF scaleTag = 2 THEN {Decode(i) : i \in info} ELSE info
    /\ info' = {}
    /\ UNCHANGED <<upgrading, awsVars, cmdVars, latest, mishap, bounds>>

Next ==
    \/ \E c \in {"import", "update"} : Begin(c)
    \/ Fetch
    \/ CreateDb
    \/ UpdateDbVersion
    \/ GetUsernameAndPassword
    \/ Migrate
    \/ SaveCredentials
    \/ EnsureLambdas
    \/ Crash
    \/ \E s \in Secret : ChangeCredentials(s)
    \/ HostGroupInfo
    \/ Scale

Spec == Init /\ [][Next]_vars

-----------------------------------------------------------------------------
(***************************************************************************)
(* Properties                                                              *)
(***************************************************************************)

(* Types of the variables. *)
TypeOK ==
    /\ \A i \in item \union info \union got.item : i \in [secret : Secret, encoded : 0 .. 2]
    /\ upgrading \in BOOLEAN
    /\ {tableTag, scaleTag, got.version} \subseteq 0 .. 2
    /\ step \in {"idle", "fetch", "create", "tag", "get", "put", "save", "lambdas"}
    /\ cmd \in {"none", "import", "update"}
    /\ outcome \in {"none", "ok", "failed"}
    /\ \A i \in used : i \in [secret : Secret, encoded : -1 .. 2]
    /\ latest \subseteq Secret
    /\ mishap \subseteq {"torn", "changed"}

Settled == step = "idle" /\ outcome = "ok"

(* What the lambdas find is what was saved last, encoded once. *)
Current == item = {Item(s, 1) : s \in latest}

(***************************************************************************)
(* A cluster imported by this wekactl: whatever is changed in the middle   *)
(* of a command and wherever commands stop, an execution calls Weka with   *)
(* credentials a user gave, and with the last ones when nothing is running.*)
(***************************************************************************)
ScaleUsesSaved ==
    /\ TypeOK
    /\ ~upgrading =>
          /\ \A i \in used : i.encoded = 0
          /\ Settled => Current

(***************************************************************************)
(* A cluster of an earlier release: after an import or an update that      *)
(* succeeded the lambdas find what was saved last, unless a migration was  *)
(* interrupted, or the credentials changed before or during one, and no    *)
(* import has saved them again since.  An import always puts them right.   *)
(***************************************************************************)
MigratedUnlessDisturbed == Settled => Current \/ (mishap # {} /\ cmd = "update")

=============================================================================
