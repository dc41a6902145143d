--------------------------- MODULE CredentialsProofs ---------------------------
(***************************************************************************)
(* What becomes of the credentials for any number of imports, updates,     *)
(* crashes and changes.                                                    *)
(*                                                                         *)
(* The invariant says of every step of the migration how the item and what *)
(* was read of it are encoded, as long as nothing disturbed it.            *)
(***************************************************************************)
EXTENDS Credentials, TLAPS

Stored(n) == {Item(s, n) : s \in latest}

GotType == got \in [version : 0 .. 2, item : SUBSET [secret : Secret, encoded : 0 .. 2]]

Places ==
    /\ step # "idle" => outcome = "none"
    /\ step \in {"get", "put", "save", "lambdas"} => tableTag = 2
    /\ Settled => tableTag = 2
    /\ step = "tag" => tableTag = 1
    /\ step = "create" => tableTag = 0
    /\ cmd = "none" => step = "idle" /\ outcome = "none"

\* Nothing is encoded more than once before the migration.
EncodedOnce ==
    /\ tableTag = 1 \/ step \in {"get", "put"} => \A i \in item : i.encoded \in 0 .. 1
    /\ step = "put" => \A i \in got.item : i.encoded \in 0 .. 1

\* A cluster of this release has nothing to migrate.
Fresh ==
    ~upgrading =>
        /\ tableTag # 1 /\ scaleTag # 1
        /\ step \notin {"tag", "get", "put"}
        /\ Current
        /\ \A i \in info : i.encoded = 1
        /\ info = {} \/ scaleTag = 2
        /\ \A i \in used : i.encoded = 0

\* A migration that nothing disturbs.
Undisturbed ==
    mishap = {} =>
        /\ tableTag = 1 \/ step \in {"get", "put"} => item = Stored(0)
        /\ step = "put" => got.item = Stored(0)
        /\ tableTag # 1 /\ step \notin {"get", "put"} => Current

\* What import saved stays.
Imported == cmd = "import" /\ (step = "lambdas" \/ Settled) => Current

IInv == TypeOK /\ GotType /\ Places /\ EncodedOnce /\ Fresh /\ Undisturbed /\ Imported

-----------------------------------------------------------------------------
LEMMA ItemFacts ==
    \A s, t, n, m : /\ Item(s, n).secret = s /\ Item(s, n).encoded = n
                    /\ Item(s, n) = Item(t, m) <=> s = t /\ n = m
BY DEF Item

LEMMA EncodeStored == {Encode(i) : i \in Stored(0)} = Stored(1)
<1>1. \A s : Encode(Item(s, 0)) = Item(s, 1)
  BY DEF Encode, Item
<1> QED
  BY <1>1 DEF Stored

LEMMA InitIInv == Init => IInv
<1> SUFFICES ASSUME Init PROVE IInv
  OBVIOUS
<1>1. Raw \in Secret
  BY SecretAssumption DEF Raw
<1>2. Item(Raw, 0) \in [secret : Secret, encoded : 0 .. 2]
  BY <1>1 DEF Item
<1>3. TypeOK /\ GotType
  BY <1>1, <1>2 DEF Init, TypeOK, GotType
<1>4. Places /\ Imported
  BY DEF Init, Places, Imported, Settled
<1>5. EncodedOnce
  BY ItemFacts DEF Init, EncodedOnce
<1>6. Fresh /\ Undisturbed
  BY DEF Init, Fresh, Undisturbed, Current, Stored
<1> QED
  BY <1>3, <1>4, <1>5, <1>6 DEF IInv

(* The steps of import and update that do not touch the item. *)
LEMMA CommandStep ==
    ASSUME IInv,
           \/ \E c \in {"import", "update"} : Begin(c)
           \/ Fetch \/ CreateDb \/ UpdateDbVersion \/ GetUsernameAndPassword
           \/ EnsureLambdas \/ Crash
    PROVE  IInv'
<1> USE DEF IInv, Goes
<1>1. UNCHANGED <<upgrading, item, info, used, latest>>
  BY DEF Begin, Fetch, CreateDb, UpdateDbVersion, GetUsernameAndPassword, EnsureLambdas, Crash,
         awsVars, execVars
<1>2. Current' = Current /\ Stored(0)' = Stored(0)
  BY <1>1 DEF Current, Stored
<1>3. ASSUME NEW c \in {"import", "update"}, Begin(c)
      PROVE  IInv'
  BY <1>1, <1>2, <1>3
     DEF Begin, awsVars, execVars, TypeOK, GotType, Places, Settled, EncodedOnce, Fresh, Undisturbed, Imported
<1>4. CASE Fetch
  <2>1. GotType' /\ got'.version \in 0 .. 2 /\ got'.item = got.item
    BY <1>4 DEF Fetch, GotType, TypeOK
  <2>2. step = "fetch" /\ UNCHANGED <<tableTag, scaleTag, cmd, outcome, mishap>>
    BY <1>4 DEF Fetch, awsVars
  <2>3. /\ step' \in {"create", "tag", "save"}
        /\ step' = "tag" => tableTag = 1
        /\ step' = "save" => tableTag = 2
        /\ step' = "create" => tableTag = 0
        /\ tableTag = 1 => step' = "tag"
    BY <1>4 DEF Fetch, TypeOK
  <2> QED
    BY <1>1, <1>2, <2>1, <2>2, <2>3
       DEF TypeOK, Places, Settled, EncodedOnce, Fresh, Undisturbed, Imported
<1>5. CASE CreateDb
  BY <1>1, <1>2, <1>5
     DEF CreateDb, execVars, TypeOK, GotType, Places, Settled, EncodedOnce, Fresh, Undisturbed, Imported
<1>6. CASE UpdateDbVersion
  BY <1>1, <1>2, <1>6
     DEF UpdateDbVersion, TypeOK, GotType, Places, Settled, EncodedOnce, Fresh, Undisturbed, Imported
<1>7. CASE GetUsernameAndPassword
  <2>1. step = "get" /\ UNCHANGED <<tableTag, scaleTag, cmd, mishap>>
    BY <1>7 DEF GetUsernameAndPassword, awsVars
  <2>2. CASE item = {}
    <3>1. step' = "idle" /\ outcome' = "failed" /\ UNCHANGED got
      BY <1>7, <2>2 DEF GetUsernameAndPassword
    <3>2. mishap = {} => Current
      <4>1. mishap = {} => latest = {}
        BY <2>1, <2>2 DEF Undisturbed, Stored
      <4> QED
        BY <2>2, <4>1 DEF Current
    <3> QED
      BY <1>1, <1>2, <2>1, <3>1, <3>2
         DEF TypeOK, GotType, Places, Settled, EncodedOnce, Fresh, Undisturbed, Imported
  <2>3. CASE item # {}
    <3>1. step' = "put" /\ got' = [got EXCEPT !.item = item] /\ UNCHANGED outcome
      BY <1>7, <2>3 DEF GetUsernameAndPassword
    <3>2. GotType' /\ got'.item = item /\ got'.version = got.version
      BY <3>1 DEF GotType, TypeOK
    <3> QED
      BY <1>1, <1>2, <2>1, <3>1, <3>2
         DEF TypeOK, Places, Settled, EncodedOnce, Fresh, Undisturbed, Imported
  <2> QED
    BY <2>2, <2>3
<1>8. CASE EnsureLambdas
  BY <1>1, <1>2, <1>8
     DEF EnsureLambdas, TypeOK, GotType, Places, Settled, EncodedOnce, Fresh, Undisturbed, Imported
<1>9. CASE Crash
  BY <1>1, <1>2, <1>9
     DEF Crash, awsVars, TypeOK, GotType, Places, Settled, EncodedOnce, Fresh, Undisturbed, Imported
<1> QED
  BY <1>3, <1>4, <1>5, <1>6, <1>7, <1>8, <1>9

(* The steps that write the item. *)
LEMMA WriteStep ==
    ASSUME IInv, Migrate \/ SaveCredentials \/ \E s \in Secret : ChangeCredentials(s)
    PROVE  IInv'
<1> USE DEF IInv, Goes
<1>1. CASE Migrate
  <2>1. /\ step = "put" /\ step' = "save"
        /\ item' = {Encode(i) : i \in got.item}
        /\ UNCHANGED <<upgrading, tableTag, scaleTag, cmd, got, outcome, info, used, latest, mishap>>
    BY <1>1 DEF Migrate, execVars
  <2>2. \A i \in item' : i \in [secret : Secret, encoded : 0 .. 2]
    <3> SUFFICES ASSUME NEW i \in got.item
                 PROVE  Encode(i) \in [secret : Secret, encoded : 0 .. 2]
      BY <2>1
    <3>1. i \in [secret : Secret, encoded : 0 .. 2] /\ i.encoded \in 0 .. 1
      BY <2>1 DEF GotType, EncodedOnce
    <3> QED
      BY <3>1 DEF Encode
  <2>3. mishap = {} => Current'
    <3> SUFFICES ASSUME mishap = {} PROVE Current'
      OBVIOUS
    <3>1. got.item = Stored(0)
      BY <2>1 DEF Undisturbed
    <3>2. item' = Stored(1)
      BY <2>1, <3>1, EncodeStored
    <3> QED
      BY <2>1, <3>2 DEF Current, Stored
  <2> QED
    BY <2>1, <2>2, <2>3
       DEF TypeOK, GotType, Places, Settled, EncodedOnce, Fresh, Undisturbed, Imported
<1>2. CASE SaveCredentials /\ cmd = "import"
  <2>1. PICK s \in Secret : item' = {Item(s, 1)} /\ latest' = {s}
    BY <1>2 DEF SaveCredentials
  <2>2. Current'
    BY <2>1 DEF Current
  <2>3. /\ step = "save" /\ step' = "lambdas" /\ mishap' = {}
        /\ UNCHANGED <<upgrading, tableTag, scaleTag, cmd, got, outcome, info, used>>
    BY <1>2 DEF SaveCredentials, execVars
  <2>4. \A i \in item' : i \in [secret : Secret, encoded : 0 .. 2]
    BY <2>1 DEF Item
  <2> QED
    BY <2>1, <2>2, <2>3, <2>4
       DEF TypeOK, GotType, Places, Settled, EncodedOnce, Fresh, Undisturbed, Imported
<1>3. CASE SaveCredentials /\ cmd # "import"
  <2>1. /\ step = "save" /\ step' = "lambdas"
        /\ UNCHANGED <<upgrading, tableTag, scaleTag, cmd, got, outcome, info, used,
                       item, latest, mishap>>
    BY <1>3 DEF SaveCredentials, execVars
  <2>2. Current' = Current /\ Stored(0)' = Stored(0)
    BY <2>1 DEF Current, Stored
  <2> QED
    BY <1>3, <2>1, <2>2
       DEF TypeOK, GotType, Places, Settled, EncodedOnce, Fresh, Undisturbed, Imported
<1>4. ASSUME NEW s \in Secret, ChangeCredentials(s)
      PROVE  IInv'
  <2>1. /\ item' = {Item(s, 1)} /\ latest' = {s} /\ tableTag # 0
        /\ UNCHANGED <<upgrading, tableTag, scaleTag, step, cmd, got, outcome, info, used>>
    BY <1>4 DEF ChangeCredentials, cmdVars, execVars
  <2>2. /\ mishap' \subseteq {"torn", "changed"}
        /\ mishap' = {} => tableTag # 1 /\ step \notin {"get", "put"}
    BY <1>4 DEF ChangeCredentials, TypeOK
  <2>3. Current'
    BY <2>1 DEF Current
  <2>4. \A i \in item' : i \in [secret : Secret, encoded : 0 .. 2] /\ i.encoded = 1
    BY <2>1 DEF Item
  <2> QED
    BY <2>1, <2>2, <2>3, <2>4
       DEF TypeOK, GotType, Places, Settled, EncodedOnce, Fresh, Undisturbed, Imported
<1> QED
  BY <1>1, <1>2, <1>3, <1>4

(* An execution reads the item. *)
LEMMA ExecutionStep ==
    ASSUME IInv, HostGroupInfo \/ Scale \/ UNCHANGED vars
    PROVE  IInv'
<1> USE DEF IInv
<1>1. UNCHANGED <<upgrading, item, tableTag, scaleTag, step, cmd, got, outcome, latest, mishap>>
  BY DEF HostGroupInfo, Scale, vars, awsVars, cmdVars
<1>2. Current' = Current /\ Stored(0)' = Stored(0)
  BY <1>1 DEF Current, Stored
<1>3. Places' /\ EncodedOnce' /\ Undisturbed' /\ Imported' /\ GotType'
  BY <1>1, <1>2 DEF Places, Settled, EncodedOnce, Undisturbed, Imported, GotType
<1>4. CASE HostGroupInfo
  <2>1. info' = item /\ UNCHANGED used /\ scaleTag # 0
    BY <1>4 DEF HostGroupInfo
  <2>2. Current => \A i \in item : i.encoded = 1
    BY ItemFacts DEF Current
  <2> QED
    BY <1>1, <1>2, <1>3, <2>1, <2>2 DEF TypeOK, Fresh
<1>5. CASE Scale
  <2>1. /\ used' = (IF scaleTag = 2 THEN {Decode(i) : i \in info} ELSE info)
        /\ info' = {}
    BY <1>5 DEF Scale
  <2>2. \A i \in info : /\ Decode(i) \in [secret : Secret, encoded : -1 .. 2]
                        /\ i \in [secret : Secret, encoded : -1 .. 2]
                        /\ Decode(i).encoded = i.encoded - 1
    BY DEF TypeOK, Decode
  <2>3. \A i \in used' : i \in [secret : Secret, encoded : -1 .. 2]
    BY <2>1, <2>2
  <2>4. ~upgrading => \A i \in used' : i.encoded = 0
    <3> SUFFICES ASSUME ~upgrading, NEW i \in used' PROVE i.encoded = 0
      OBVIOUS
    <3>1. info # {}
      BY <1>5 DEF Scale
    <3>2. scaleTag = 2 /\ \A j \in info : j.encoded = 1
      BY <3>1 DEF Fresh
    <3>3. PICK j \in info : i = Decode(j)
      BY <2>1, <3>2
    <3> QED
      BY <2>2, <3>2, <3>3
  <2> QED
    BY <1>1, <1>2, <1>3, <2>1, <2>3, <2>4 DEF TypeOK, Fresh
<1>6. CASE UNCHANGED vars
  BY <1>1, <1>2, <1>3, <1>6 DEF vars, execVars, TypeOK, Fresh
<1> QED
  BY <1>4, <1>5, <1>6

LEMMA NextIInv == IInv /\ [Next]_vars => IInv'
BY CommandStep, WriteStep, ExecutionStep DEF Next

(* The invariant holds for any commands, crashes and changes.              *)
THEOREM IInvCorrect == Spec => []IInv
BY InitIInv, NextIInv, PTL DEF Spec

(* ScaleUsesSaved: a cluster imported by this wekactl calls Weka with      *)
(* credentials a user gave, decoded as often as they were encoded.         *)
THEOREM UsesSavedCorrect == Spec => []ScaleUsesSaved
<1>1. IInv => ScaleUsesSaved
  BY DEF IInv, Fresh, ScaleUsesSaved
<1> QED
  BY <1>1, IInvCorrect, PTL

(* MigratedUnlessDisturbed: the migration of an earlier table ends with    *)
(* the credentials saved last, but for what the property names.            *)
THEOREM MigrationCorrect == Spec => []MigratedUnlessDisturbed
<1>1. IInv => MigratedUnlessDisturbed
  <2> SUFFICES ASSUME IInv, Settled, ~Current
               PROVE  mishap # {} /\ cmd = "update"
    BY DEF MigratedUnlessDisturbed
  <2>1. step = "idle" /\ tableTag = 2
    BY DEF IInv, Places, Settled
  <2>2. mishap # {}
    BY <2>1 DEF IInv, Undisturbed
  <2>3. cmd # "import"
    BY DEF IInv, Imported
  <2>4. cmd # "none"
    BY DEF IInv, Places, Settled
  <2> QED
    BY <2>2, <2>3, <2>4 DEF IInv, TypeOK
<1> QED
  BY <1>1, IInvCorrect, PTL

=============================================================================
