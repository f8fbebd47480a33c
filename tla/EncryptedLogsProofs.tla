------------------------ MODULE EncryptedLogsProofs ------------------------
(***************************************************************************)
(* Theorems about EncryptedLogs for any keyring, instructors and turns:    *)
(* no retained log becomes unreadable by a rotation of keys, and nobody    *)
(* gets a log unrecorded, or one that was marked expired before the asking.*)
(***************************************************************************)
EXTENDS EncryptedLogs, TLAPS

(***************************************************************************)
(* The inductive invariant.                                                *)
(***************************************************************************)
Blobs == [turns : 0 .. MaxTurns, key : Keys]
Rows == [present : BOOLEAN, turns : 0 .. MaxTurns, active : BOOLEAN, expired : BOOLEAN]
Keyrings == [active : Keys, keys : SUBSET Keys]

Writers ==
    {Idle} \cup [pc : {"delete"}]
        \cup [pc : {"metadata", "select"}, turns : 0 .. MaxTurns]
        \cup [pc : {"update"}, turns : 0 .. MaxTurns, selected : Records \cup {None}]

Cleaners ==
    {Idle} \cup [pc : {"select"}]
        \cup [pc : {"save"}, listed : Rows]
        \cup [pc : {"update"}, selected : Records]

Rotators ==
    {Idle} \cup [pc : {"end"}, after : BOOLEAN]
        \cup [pc : {"end"}, listed : Records \cup {None}, after : BOOLEAN]
        \cup [pc : {"load", "select"}, listed : Records, after : BOOLEAN]
        \cup [pc : {"update"}, listed : Records, after : BOOLEAN,
              selected : Records \cup {None}]

Accesses ==
    {Idle}
        \cup [pc : {"available", "metadata", "authorize", "blob", "unreadable", "audit", "show"},
              kind : {"payload", "list"}, late : BOOLEAN, audited : BOOLEAN]

Types ==
    /\ row \in Rows /\ deleted \in BOOLEAN
    /\ log \in Records \cup {None}
    /\ writer \in Writers /\ cleaner \in Cleaners /\ rotator \in Rotators
    /\ config \in Keyrings /\ web \in Keyrings
    /\ rotations \in Nat /\ rotated \in BOOLEAN
    /\ access \in [Instructors -> Accesses]
    /\ unaudited \subseteq Instructors

\* A save or a rotation writes only over a record it selected available, so
\* none makes an expired record available again; and it writes what it has
\* loaded.
Selected ==
    /\ writer.pc = "update" => MayWrite(writer.selected)
    /\ rotator.pc = "update" => MayWrite(rotator.selected)
    /\ rotator.pc \in {"select", "update"} => rotator.listed.blob # None

\* Once a run that counts is over every available blob is under the active
\* key, under which the web process saves as well.
Fresh == HasContent /\ log.available => log.blob.key = config.active

Rotation ==
    /\ config.active \in config.keys /\ web.active \in config.keys
    /\ rotated \/ (rotator.pc # "idle" /\ rotator.after) => web.active = config.active
    /\ rotated \/ (rotator.pc = "end" /\ rotator.after) => Fresh

\* A request that came late waits for its 410.
Late(u) == access[u].pc # "idle" /\ access[u].late /\ ~deleted

Disclosure ==
    /\ unaudited = {}
    /\ writer.pc = "delete" => deleted
    /\ \A u \in Instructors :
        /\ access[u].pc = "show" => access[u].audited
        /\ Late(u) => log # None /\ ~log.available
        /\ Late(u) /\ access[u].kind = "payload" => access[u].pc = "available"

IInv == Types /\ Selected /\ StaysReadable /\ Rotation /\ Disclosure

---------------------------------------------------------------------------
(***************************************************************************)
(* Records.                                                                *)
(***************************************************************************)
\* What is saved over an available record has the new content, and leaves
\* the record as available as it is meanwhile.
LEMMA SavedRecord ==
    ASSUME NEW b \in Blobs, NEW t \in 0 .. MaxTurns, NEW k \in Keys,
           NEW selected \in Records \cup {None}, MayWrite(selected),
           log \in Records \cup {None}, CommitSucceeds(selected),
           log' = Saved(selected, Record(b, t, k, TRUE))
    PROVE  /\ log' \in Records /\ log'.blob = b
           /\ log # None => log'.available = log.available
<1>. DEFINE new == Record(b, t, k, TRUE)
<1>1. new \in Records /\ new.blob = b /\ new.available = TRUE
  BY DEF Record, Records, Blobs
<1>2. CASE selected = None
  <2>1. log = None
    BY <1>2 DEF CommitSucceeds
  <2>2. log' = new
    BY <1>2 DEF Saved
  <2>. QED
    BY <1>1, <2>1, <2>2
<1>3. CASE selected # None
  <2>1. /\ log \in Records /\ selected.available
        /\ DOMAIN new = {"blob", "turns", "key", "available"}
    BY <1>3 DEF CommitSucceeds, MayWrite, Record
  <2>2. log' = [c \in {"blob", "turns", "key", "available"} |->
               IF c # "blob" /\ new[c] = selected[c] THEN log[c] ELSE new[c]]
    BY <1>3, <2>1 DEF Saved, Updated
  <2>3. /\ log'.blob = new.blob /\ log'.turns \in {log.turns, new.turns}
        /\ log'.key \in {log.key, new.key}
    BY <2>2
  <2>4. selected.available = new.available
    BY <1>1, <1>3, <2>1 DEF Records
  <2>5. log'.available = log.available
    BY <2>2, <2>4
  <2>6. log' = [blob |-> log'.blob, turns |-> log'.turns, key |-> log'.key,
                available |-> log'.available]
    BY <2>2
  <2>7. log' \in Records
    BY <1>1, <2>1, <2>3, <2>5, <2>6 DEF Records
  <2>. QED
    BY <1>1, <2>3, <2>5, <2>7
<1>. QED
  BY <1>2, <1>3

\* A record that expires is a record without content.
LEMMA ExpiredRecord ==
    ASSUME log \in Records, NEW selected \in Records
    PROVE  LET e == [log EXCEPT !.blob = IF selected.blob = None THEN log.blob ELSE None,
                                !.available = log.available /\ ~selected.available] IN
           /\ e \in Records
           /\ e.blob \in {log.blob, None} /\ (e.available => log.available)
BY DEF Records

LEMMA RecordIsSome == \A r \in Records : r # None
BY NoneAssumption

LEMMA BlobIsSome == \A b \in Blobs : b # None
BY NoneAssumption DEF Blobs

LEMMA WriterKinds ==
    ASSUME NEW w \in Writers
    PROVE  /\ w.pc \in {"idle", "delete", "metadata", "select", "update"}
           /\ w.pc \in {"metadata", "select", "update"} => w.turns \in 0 .. MaxTurns
           /\ w.pc \in {"metadata", "select"} =>
                w \in [pc : {"metadata", "select"}, turns : 0 .. MaxTurns]
           /\ w.pc = "update" => w.selected \in Records \cup {None}
BY DEF Writers, Idle

LEMMA CleanerKinds ==
    ASSUME NEW c \in Cleaners
    PROVE  /\ c.pc = "save" => c.listed \in Rows
           /\ c.pc = "update" => c.selected \in Records
BY DEF Cleaners, Idle

LEMMA RotatorKinds ==
    ASSUME NEW r \in Rotators
    PROVE  /\ r.pc \in {"idle", "load", "select", "update", "end"}
           /\ r.pc # "idle" => r.after \in BOOLEAN
           /\ r.pc \in {"load", "select"} =>
                r \in [pc : {"load", "select"}, listed : Records, after : BOOLEAN]
           /\ r.pc = "update" => r.listed \in Records /\ r.selected \in Records \cup {None}
BY DEF Rotators, Idle

LEMMA AccessKinds ==
    ASSUME NEW a \in Accesses
    PROVE  a.pc # "idle" =>
             a \in [pc : {"available", "metadata", "authorize", "blob", "unreadable",
                          "audit", "show"},
                    kind : {"payload", "list"}, late : BOOLEAN, audited : BOOLEAN]
BY DEF Accesses, Idle

---------------------------------------------------------------------------
(***************************************************************************)
(* Types.                                                                  *)
(***************************************************************************)
LEMMA InitTypes == Init => Types
<1>. SUFFICES ASSUME Init PROVE Types
  OBVIOUS
<1>1. FirstKey \in Keys /\ 0 \in 0 .. MaxTurns
  BY LogAssumption
<1>2. log \in Records
  BY <1>1 DEF Init, Record, Blob, Records
<1>3. row \in Rows /\ config \in Keyrings /\ web \in Keyrings
  BY <1>1 DEF Init, Rows, Keyrings
<1>4. access \in [Instructors -> Accesses]
  BY DEF Init, Accesses
<1>. QED
  BY <1>2, <1>3, <1>4 DEF Init, Types, Writers, Cleaners, Rotators

Writing ==
    CommitTurn \/ Close \/ Repair \/ DeleteSession \/ Persist \/ WriterFails

Cleaning ==
    ListExpired \/ SaveExpired \/ SelectForExpiry \/ UpdateExpired \/ CleanerCrash

Configuring ==
    (\E k \in Keys : IntroduceKey(k)) \/ DropOldKeys \/ RestartWeb

Rotating == ListLogs \/ Rotate \/ RotatorCrash

Reading(u) == Read(u) \/ \E kind \in {"payload", "list"} : Request(u, kind)

LEMMA Steps ==
    Next <=> Writing \/ Cleaning \/ Configuring \/ Rotating \/ \E u \in Instructors : Reading(u)
BY DEF Next, Writing, Cleaning, Configuring, Rotating, Reading

LEMMA WritingTypes ==
    ASSUME Types, Selected, Writing
    PROVE  Types'
<1>1. /\ UNCHANGED <<cleaner, rotator, keyVars, readVars>>
  BY DEF Writing, CommitTurn, Close, Repair, DeleteSession, Persist, LoadMetadata,
         SelectForSave, UpdateLog, DeleteLog, WriterFails
<1>2. /\ row.turns \in 0 .. MaxTurns /\ row \in Rows
  BY DEF Types, Rows
<1>3. row' \in Rows /\ deleted' \in BOOLEAN
  <2>1. CASE CommitTurn
    <3>1. row.turns + 1 \in 0 .. MaxTurns
      BY <1>2, <2>1, LogAssumption DEF CommitTurn
    <3>. QED
      BY <1>2, <2>1, <3>1 DEF CommitTurn, Rows, Types
  <2>2. CASE ~CommitTurn
    BY <1>2, <2>2
       DEF Types, Rows, Writing, Close, Repair, DeleteSession, Persist, LoadMetadata,
           SelectForSave, UpdateLog, DeleteLog, WriterFails
  <2>. QED
    BY <2>1, <2>2
<1>4. writer' \in Writers
  <2>1. CASE CommitTurn
    <3>1. row.turns + 1 \in 0 .. MaxTurns
      BY <1>2, <2>1, LogAssumption DEF CommitTurn
    <3>. QED
      BY <2>1, <3>1 DEF CommitTurn, Writers
  <2>2. CASE Close \/ Repair
    BY <1>2, <2>2 DEF Close, Repair, Writers
  <2>3. CASE DeleteSession
    BY <2>3 DEF DeleteSession, Writers
  <2>4. CASE UpdateLog \/ DeleteLog \/ WriterFails
    BY <2>4 DEF UpdateLog, DeleteLog, WriterFails, Writers
  <2>5. CASE LoadMetadata
    <3>1. writer \in [pc : {"metadata", "select"}, turns : 0 .. MaxTurns]
      BY <2>5, WriterKinds DEF Types, LoadMetadata, WriterIs
    <3>2. [writer EXCEPT !.pc = "select"] \in [pc : {"metadata", "select"}, turns : 0 .. MaxTurns]
      BY <3>1
    <3>. QED
      BY <2>5, <3>2 DEF LoadMetadata, Writers
  <2>6. CASE SelectForSave
    <3>1. writer.turns \in 0 .. MaxTurns
      BY <2>6, WriterKinds DEF Types, SelectForSave, WriterIs
    <3>. QED
      BY <2>6, <3>1 DEF SelectForSave, Writers, Types
  <2>. QED
    BY <2>1, <2>2, <2>3, <2>4, <2>5, <2>6 DEF Writing, Persist
<1>5. log' \in Records \cup {None}
  <2>1. CASE UpdateLog
    <3>1. /\ writer.selected \in Records \cup {None} /\ writer.turns \in 0 .. MaxTurns
          /\ MayWrite(writer.selected) /\ web.active \in Keys
      BY <2>1, WriterKinds DEF Types, Selected, UpdateLog, WriterIs, Keyrings
    <3>2. Blob(writer.turns, web.active) \in Blobs
      BY <3>1 DEF Blob, Blobs
    <3>. QED
      BY <2>1, <3>1, <3>2, SavedRecord DEF UpdateLog, Types
  <2>2. CASE ~UpdateLog
    BY <2>2
       DEF Types, Writing, CommitTurn, Close, Repair, DeleteSession, Persist, LoadMetadata,
           SelectForSave, DeleteLog, WriterFails
  <2>. QED
    BY <2>1, <2>2
<1>. QED
  BY <1>1, <1>3, <1>4, <1>5 DEF Types, keyVars, readVars

LEMMA CleaningTypes ==
    ASSUME Types, Cleaning
    PROVE  Types'
<1>1. /\ UNCHANGED <<deleted, writer, rotator, keyVars, readVars>>
  BY DEF Cleaning, ListExpired, SaveExpired, SelectForExpiry, UpdateExpired, CleanerCrash
<1>2. row' \in Rows
  <2>1. CASE SaveExpired
    <3>1. cleaner.listed \in Rows
      BY <2>1, CleanerKinds DEF Types, SaveExpired, CleanerIs
    <3>. QED
      BY <2>1, <3>1 DEF SaveExpired, Rows
  <2>2. CASE ~SaveExpired
    BY <2>2 DEF Types, Cleaning, ListExpired, SelectForExpiry, UpdateExpired, CleanerCrash
  <2>. QED
    BY <2>1, <2>2
<1>3. cleaner' \in Cleaners
  BY DEF Types, Cleaning, ListExpired, SaveExpired, SelectForExpiry, UpdateExpired,
         CleanerCrash, Cleaners
<1>4. log' \in Records \cup {None}
  <2>1. CASE UpdateExpired /\ log # None
    <3>1. cleaner.selected \in Records /\ log \in Records
      BY <2>1, CleanerKinds DEF Types, UpdateExpired, CleanerIs
    <3>. QED
      BY <2>1, <3>1, ExpiredRecord DEF UpdateExpired
  <2>2. CASE ~UpdateExpired \/ log = None
    BY <2>2 DEF Types, Cleaning, ListExpired, SaveExpired, SelectForExpiry, UpdateExpired,
                CleanerCrash
  <2>. QED
    BY <2>1, <2>2
<1>. QED
  BY <1>1, <1>2, <1>3, <1>4 DEF Types, keyVars, readVars

LEMMA ConfiguringTypes ==
    ASSUME Types, Configuring
    PROVE  Types'
<1>1. UNCHANGED <<row, deleted, log, cleaner, rotator, rotations, unaudited>>
  BY DEF Configuring, IntroduceKey, DropOldKeys, RestartWeb, readVars
<1>2. config' \in Keyrings /\ rotated' \in BOOLEAN
  <2>1. CASE \E k \in Keys : IntroduceKey(k)
    <3>1. PICK k \in Keys : IntroduceKey(k)
      BY <2>1
    <3>2. config.keys \cup {k} \in SUBSET Keys
      BY DEF Types, Keyrings
    <3>. QED
      BY <3>1, <3>2 DEF IntroduceKey, Keyrings
  <2>2. CASE DropOldKeys
    <3>1. config.active \in Keys
      BY DEF Types, Keyrings
    <3>2. [config EXCEPT !.keys = {config.active}] \in Keyrings
      BY <3>1 DEF Types, Keyrings
    <3>. QED
      BY <2>2, <3>2 DEF Types, DropOldKeys
  <2>3. CASE RestartWeb
    BY <2>3 DEF Types, RestartWeb
  <2>. QED
    BY <2>1, <2>2, <2>3 DEF Configuring
<1>3. web' \in Keyrings /\ writer' \in Writers
  BY DEF Types, Configuring, IntroduceKey, DropOldKeys, RestartWeb, Writers
<1>4. access' \in [Instructors -> Accesses]
  BY DEF Types, Configuring, IntroduceKey, DropOldKeys, RestartWeb, Accesses, readVars
<1>. QED
  BY <1>1, <1>2, <1>3, <1>4 DEF Types

LEMMA RotatingTypes ==
    ASSUME Types, Selected, Rotating
    PROVE  Types'
<1>1. UNCHANGED <<row, deleted, writer, cleaner, config, web, readVars>>
  BY DEF Rotating, ListLogs, Rotate, LoadBlob, SelectForRotation, UpdateRotated, EndRotation,
         RotatorCrash, keyVars
<1>2. rotations' \in Nat
  BY DEF Types, Rotating, ListLogs, Rotate, LoadBlob, SelectForRotation, UpdateRotated,
         EndRotation, RotatorCrash, keyVars
<1>3. rotator.pc # "idle" => rotator.after \in BOOLEAN
  BY RotatorKinds DEF Types
<1>4. rotated' \in BOOLEAN
  BY <1>3 DEF Types, Rotating, ListLogs, Rotate, LoadBlob, SelectForRotation, UpdateRotated,
         EndRotation, RotatorCrash, RotatorIs, keyVars
<1>5. CASE ListLogs
  <2>1. (web.active = config.active) \in BOOLEAN
    OBVIOUS
  <2>2. rotator' \in Rotators /\ log' = log
    BY <1>5, <2>1 DEF ListLogs, Types, Rotators
  <2>. QED
    BY <1>1, <1>2, <1>4, <2>2 DEF Types, readVars
<1>6. CASE LoadBlob
  <2>1. rotator \in [pc : {"load", "select"}, listed : Records, after : BOOLEAN] /\ log' = log
    BY <1>6, RotatorKinds DEF LoadBlob, RotatorIs, Types
  <2>2. [rotator EXCEPT !.pc = "end"]
          \in [pc : {"end"}, listed : Records \cup {None}, after : BOOLEAN]
    BY <2>1
  <2>3. CASE log = None \/ log.blob = None
    <3>1. rotator' \in Rotators
      BY <1>6, <2>2, <2>3 DEF LoadBlob, Rotators
    <3>. QED
      BY <1>1, <1>2, <1>4, <2>1, <3>1 DEF Types, readVars
  <2>4. CASE ~(log = None \/ log.blob = None)
    <3>. DEFINE listed == [rotator.listed EXCEPT !.blob = log.blob]
    <3>1. listed \in Records
      BY <2>1, <2>4 DEF Types, Records
    <3>2. rotator' = [rotator EXCEPT !.pc = "select", !.listed = listed]
      BY <1>6, <2>1, <2>4 DEF LoadBlob
    <3>. HIDE DEF listed
    <3>3. rotator' \in [pc : {"load", "select"}, listed : Records, after : BOOLEAN]
      BY <2>1, <3>1, <3>2
    <3>4. rotator' \in Rotators
      BY <3>3 DEF Rotators
    <3>. QED
      BY <1>1, <1>2, <1>4, <2>1, <3>4 DEF Types, readVars
  <2>. QED
    BY <2>3, <2>4
<1>7. CASE SelectForRotation
  <2>1. rotator \in [pc : {"load", "select"}, listed : Records, after : BOOLEAN] /\ log' = log
    BY <1>7, RotatorKinds DEF SelectForRotation, RotatorIs, Types
  <2>2. [rotator EXCEPT !.pc = "end"]
          \in [pc : {"end"}, listed : Records \cup {None}, after : BOOLEAN]
    BY <2>1
  <2>3. rotator' \in Rotators
    BY <1>7, <2>1, <2>2 DEF SelectForRotation, Types, Rotators
  <2>. QED
    BY <1>1, <1>2, <1>4, <2>1, <2>3 DEF Types, readVars
<1>8. CASE UpdateRotated
  <2>1. /\ rotator.listed \in Records /\ rotator.selected \in Records \cup {None}
        /\ rotator.after \in BOOLEAN /\ rotator.listed.blob # None
        /\ MayWrite(rotator.selected)
    BY <1>8, RotatorKinds DEF UpdateRotated, RotatorIs, Types, Selected
  <2>2. rotator' \in Rotators
    BY <1>8, <2>1 DEF UpdateRotated, Rotators
  <2>3. /\ rotator.listed.turns \in 0 .. MaxTurns /\ config.active \in Keys
        /\ Blob(rotator.listed.blob.turns, config.active) \in Blobs
    BY <2>1 DEF Types, Keyrings, Records, Blob, Blobs
  <2>4. log' \in Records \cup {None}
    <3>1. CASE CommitSucceeds(rotator.selected)
      <4>1. log' = Saved(rotator.selected,
                         Record(Blob(rotator.listed.blob.turns, config.active),
                                rotator.listed.turns, config.active, TRUE))
        BY <1>8, <3>1 DEF UpdateRotated, Reencrypted
      <4>. QED
        BY <2>1, <2>3, <3>1, <4>1, SavedRecord DEF Types
    <3>2. CASE ~CommitSucceeds(rotator.selected)
      BY <1>8, <3>2 DEF UpdateRotated, Types
    <3>. QED
      BY <3>1, <3>2
  <2>. QED
    BY <1>1, <1>2, <1>4, <2>2, <2>4 DEF Types, readVars
<1>9. CASE EndRotation \/ RotatorCrash
  <2>1. rotator' \in Rotators /\ log' = log
    BY <1>9 DEF EndRotation, RotatorCrash, Rotators
  <2>. QED
    BY <1>1, <1>2, <1>4, <2>1 DEF Types, readVars
<1>. QED
  BY <1>5, <1>6, <1>7, <1>8, <1>9 DEF Rotating, Rotate

\* A reader moves its own request only.
LEMMA ReadingMoves ==
    ASSUME Types, NEW u \in Instructors, Reading(u)
    PROVE  /\ UNCHANGED <<row, deleted, log, writer, cleaner, rotator, keyVars>>
           /\ access' \in [Instructors -> Accesses]
           /\ \A v \in Instructors \ {u} : access'[v] = access[v]
<1>1. UNCHANGED <<row, deleted, log, writer, cleaner, rotator, keyVars>>
  BY DEF Reading, Request, Read, CheckAvailable, ReadMetadata, Authorize, ReadBlob, Audit,
         AuditFails, Show, Unreadable
<1>2. PICK a \in Accesses : access' = [access EXCEPT ![u] = a]
  <2>1. CASE \E kind \in {"payload", "list"} : Request(u, kind)
    <3>1. (log # None /\ ~log.available) \in BOOLEAN
      OBVIOUS
    <3>2. PICK kind \in {"payload", "list"} : Request(u, kind)
      BY <2>1
    <3>3. [pc |-> IF kind = "payload" THEN "available" ELSE "metadata", kind |-> kind,
           late |-> log # None /\ ~log.available, audited |-> FALSE] \in Accesses
      BY <3>1, <3>2 DEF Accesses
    <3>. QED
      BY <3>2, <3>3 DEF Request
  <2>2. CASE Read(u)
    <3>1. access[u].pc # "idle"
      BY <2>2 DEF Read, CheckAvailable, ReadMetadata, Authorize, ReadBlob, Audit, AuditFails,
                  Show, Unreadable, AccessIs
    <3>2. access[u] \in [pc : {"available", "metadata", "authorize", "blob", "unreadable",
                               "audit", "show"},
                         kind : {"payload", "list"}, late : BOOLEAN, audited : BOOLEAN]
      BY <3>1, AccessKinds DEF Types
    <3>3. CASE Answer(u)
      BY <3>3 DEF Answer, Accesses
    <3>4. ASSUME NEW pc \in {"metadata", "authorize", "blob", "unreadable", "audit"},
                 Proceed(u, pc)
          PROVE  \E a \in Accesses : access' = [access EXCEPT ![u] = a]
      <4>1. [access[u] EXCEPT !.pc = pc] \in Accesses
        BY <3>2 DEF Accesses
      <4>. QED
        BY <3>4, <4>1 DEF Proceed
    <3>5. CASE Audit(u)
      <4>1. [access[u] EXCEPT !.audited = TRUE, !.pc = "show"] \in Accesses
        BY <3>2 DEF Accesses
      <4>2. access' = [access EXCEPT ![u] = [access[u] EXCEPT !.audited = TRUE, !.pc = "show"]]
        BY <3>5 DEF Audit, Types
      <4>. QED
        BY <4>1, <4>2
    <3>. QED
      BY <2>2, <3>3, <3>4, <3>5 DEF Read, CheckAvailable, ReadMetadata, Authorize, ReadBlob,
                                    AuditFails, Show, Unreadable
  <2>. QED
    BY <2>1, <2>2 DEF Reading
<1>. QED
  BY <1>1, <1>2 DEF Types

LEMMA NextTypes ==
    ASSUME Types, Selected, [Next]_vars
    PROVE  Types'
<1>1. CASE \E u \in Instructors : Reading(u)
  <2>1. PICK u \in Instructors : Reading(u)
    BY <1>1
  <2>2. unaudited' \subseteq Instructors
    BY <2>1 DEF Types, Reading, Request, Read, CheckAvailable, ReadMetadata, Authorize, ReadBlob,
                Audit, AuditFails, Show, Unreadable
  <2>. QED
    BY <2>1, <2>2, ReadingMoves DEF Types, keyVars
<1>2. CASE UNCHANGED vars
  BY <1>2 DEF vars, Types, keyVars, readVars
<1>. QED
  BY <1>1, <1>2, Steps, WritingTypes, CleaningTypes, ConfiguringTypes, RotatingTypes

---------------------------------------------------------------------------
(***************************************************************************)
(* Content and keys.                                                       *)
(***************************************************************************)
\* What a step may do to the record: nothing, delete it, take its content,
\* or save content under a key in use without making it available again.
LEMMA LogMoves ==
    ASSUME Types, Selected, [Next]_vars
    PROVE  \/ log' = log
           \/ log' = None /\ writer.pc = "delete"
           \/ /\ log # None /\ log' \in Records /\ log'.blob \in {log.blob, None}
              /\ log'.available => log.available
           \/ /\ log' \in Records /\ log'.blob # None
              /\ log'.blob.key \in {web.active, config.active}
              /\ log # None => log'.available = log.available
              /\ config' = config /\ web' = web
<1>1. CASE UpdateLog /\ CommitSucceeds(writer.selected)
  <2>1. /\ writer.selected \in Records \cup {None} /\ writer.turns \in 0 .. MaxTurns
        /\ MayWrite(writer.selected) /\ web.active \in Keys
    BY <1>1, WriterKinds DEF Types, Selected, UpdateLog, WriterIs, Keyrings
  <2>. DEFINE b == Blob(writer.turns, web.active)
  <2>2. b \in Blobs /\ b.key = web.active
    BY <2>1 DEF Blob, Blobs
  <2>3. log' = Saved(writer.selected, Record(b, writer.turns, web.active, TRUE))
    BY <1>1 DEF UpdateLog
  <2>4. /\ log' \in Records /\ log'.blob = b
        /\ log # None => log'.available = log.available
    <3>1. log \in Records \cup {None} /\ CommitSucceeds(writer.selected)
      BY <1>1 DEF Types
    <3>. QED
      BY <2>1, <2>2, <2>3, <3>1, SavedRecord
  <2>. QED
    BY <1>1, <2>2, <2>4, BlobIsSome DEF UpdateLog, keyVars
<1>2. CASE UpdateRotated /\ CommitSucceeds(rotator.selected)
  <2>1. /\ rotator.listed \in Records /\ rotator.selected \in Records \cup {None}
        /\ rotator.listed.blob # None /\ MayWrite(rotator.selected)
    BY <1>2, RotatorKinds DEF UpdateRotated, RotatorIs, Types, Selected
  <2>. DEFINE b == Blob(rotator.listed.blob.turns, config.active)
  <2>2. /\ rotator.listed.turns \in 0 .. MaxTurns /\ config.active \in Keys
        /\ b \in Blobs /\ b.key = config.active
    BY <2>1 DEF Types, Keyrings, Records, Blob, Blobs
  <2>3. log' = Saved(rotator.selected,
                     Record(b, rotator.listed.turns, config.active, TRUE))
    BY <1>2 DEF UpdateRotated, Reencrypted
  <2>4. /\ log' \in Records /\ log'.blob = b
        /\ log # None => log'.available = log.available
    <3>1. log \in Records \cup {None} /\ CommitSucceeds(rotator.selected)
      BY <1>2 DEF Types
    <3>. QED
      BY <2>1, <2>2, <2>3, <3>1, SavedRecord
  <2>. QED
    BY <1>2, <2>2, <2>4, BlobIsSome DEF UpdateRotated, keyVars
<1>3. CASE UpdateExpired /\ log # None
  <2>1. cleaner.selected \in Records /\ log \in Records
    BY <1>3, CleanerKinds DEF Types, UpdateExpired, CleanerIs
  <2>. QED
    BY <1>3, <2>1, ExpiredRecord DEF UpdateExpired
<1>4. CASE DeleteLog
  BY <1>4 DEF DeleteLog, WriterIs
<1>5. CASE \/ UpdateLog /\ ~CommitSucceeds(writer.selected)
           \/ UpdateRotated /\ ~CommitSucceeds(rotator.selected)
           \/ UpdateExpired /\ log = None
  BY <1>5 DEF UpdateLog, UpdateRotated, UpdateExpired
<1>6. CASE ~UpdateLog /\ ~UpdateRotated /\ ~UpdateExpired /\ ~DeleteLog
  BY <1>6
     DEF Next, CommitTurn, Close, Repair, DeleteSession, Persist, LoadMetadata, SelectForSave,
         WriterFails, ListExpired, SaveExpired, SelectForExpiry, CleanerCrash, IntroduceKey,
         DropOldKeys, RestartWeb, ListLogs, Rotate, LoadBlob, SelectForRotation, EndRotation,
         RotatorCrash, Read, Request, CheckAvailable, ReadMetadata, Authorize, ReadBlob, Audit,
         AuditFails, Show, Unreadable, vars
<1>. QED
  BY <1>1, <1>2, <1>3, <1>4, <1>5, <1>6

\* An expired record stays expired until the session is deleted.
LEMMA StaysExpired ==
    ASSUME Types, Selected, Disclosure, [Next]_vars, log # None, ~log.available, ~deleted
    PROVE  log' # None /\ ~log'.available
<1>1. writer.pc # "delete"
  BY DEF Disclosure
<1>. QED
  BY <1>1, LogMoves, RecordIsSome

LEMMA StaysFresh ==
    ASSUME Types, Selected, [Next]_vars, Fresh, web.active = config.active, config' = config
    PROVE  Fresh'
BY LogMoves DEF Fresh, HasContent

LEMMA WriterEnds ==
    ASSUME UpdateLog \/ DeleteLog \/ WriterFails \/ RestartWeb
    PROVE  writer'.pc = "idle"
<1>1. writer' = Idle
  BY Zenon DEF UpdateLog, DeleteLog, WriterFails, RestartWeb
<1>. QED
  BY <1>1 DEF Idle

LEMMA NextSelected ==
    ASSUME Types, Selected, [Next]_vars
    PROVE  Selected'
<1>1. writer'.pc = "update" => MayWrite(writer'.selected)
  <2>1. CASE SelectForSave
    BY <2>1 DEF SelectForSave, Idle
  <2>2. CASE Writing /\ ~SelectForSave
    <3>1. CASE LoadMetadata
      <4>1. writer \in [pc : {"metadata", "select"}, turns : 0 .. MaxTurns]
        BY <3>1, WriterKinds DEF Types, LoadMetadata, WriterIs
      <4>2. writer'.pc # "update"
        BY <3>1, <4>1 DEF LoadMetadata, Idle
      <4>. QED
        BY <4>2
    <3>2. CASE CommitTurn \/ Close \/ Repair \/ DeleteSession
      <4>1. writer'.pc = "metadata" \/ writer'.pc = "delete"
        BY <3>2 DEF CommitTurn, Close, Repair, DeleteSession
      <4>. QED
        BY <4>1
    <3>3. CASE UpdateLog \/ DeleteLog \/ WriterFails
      BY <3>3, WriterEnds
    <3>. QED
      BY <2>2, <3>1, <3>2, <3>3 DEF Writing, Persist
  <2>3. CASE RestartWeb
    BY <2>3 DEF RestartWeb, Idle
  <2>4. CASE ~Writing /\ ~RestartWeb
    <3>1. writer' = writer
      BY <2>4, Steps
         DEF Cleaning, ListExpired, SaveExpired, SelectForExpiry, UpdateExpired, CleanerCrash,
             Configuring, IntroduceKey, DropOldKeys, Rotating, ListLogs, Rotate, LoadBlob,
             SelectForRotation, UpdateRotated, EndRotation, RotatorCrash, Reading, Request, Read,
             CheckAvailable, ReadMetadata, Authorize, ReadBlob, Audit, AuditFails, Show,
             Unreadable, vars
    <3>. QED
      BY <3>1 DEF Selected, MayWrite
  <2>. QED
    BY <2>1, <2>2, <2>3, <2>4
<1>2. /\ rotator'.pc = "update" => MayWrite(rotator'.selected)
      /\ rotator'.pc \in {"select", "update"} => rotator'.listed.blob # None
  <2>1. CASE LoadBlob \/ SelectForRotation
    <3>1. rotator \in [pc : {"load", "select"}, listed : Records, after : BOOLEAN]
      BY <2>1, RotatorKinds DEF LoadBlob, SelectForRotation, RotatorIs, Types
    <3>2. CASE LoadBlob
      <4>1. CASE log = None \/ log.blob = None
        BY <3>1, <3>2, <4>1 DEF LoadBlob
      <4>2. CASE ~(log = None \/ log.blob = None)
        <5>. DEFINE listed == [rotator.listed EXCEPT !.blob = log.blob]
        <5>1. rotator' = [rotator EXCEPT !.pc = "select", !.listed = listed]
          BY <3>1, <3>2, <4>2 DEF LoadBlob
        <5>2. listed.blob # None
          BY <3>1, <4>2 DEF Records
        <5>. HIDE DEF listed
        <5>3. rotator'.pc = "select" /\ rotator'.listed = listed
          BY <3>1, <5>1
        <5>. QED
          BY <5>2, <5>3
      <4>. QED
        BY <4>1, <4>2
    <3>3. CASE SelectForRotation
      BY <3>1, <3>3 DEF SelectForRotation, RotatorIs, Selected
    <3>. QED
      BY <2>1, <3>2, <3>3
  <2>2. CASE Rotating /\ ~LoadBlob /\ ~SelectForRotation
    BY <2>2 DEF Rotating, ListLogs, Rotate, UpdateRotated, EndRotation, RotatorCrash, Idle
  <2>3. CASE ~Rotating
    <3>1. rotator' = rotator
      BY <2>3, Steps, ReadingMoves
         DEF Writing, CommitTurn, Close, Repair, DeleteSession, Persist, LoadMetadata,
             SelectForSave, UpdateLog, DeleteLog, WriterFails,
             Cleaning, ListExpired, SaveExpired, SelectForExpiry, UpdateExpired, CleanerCrash,
             Configuring, IntroduceKey, DropOldKeys, RestartWeb, vars
    <3>. QED
      BY <3>1 DEF Selected, MayWrite
  <2>. QED
    BY <2>1, <2>2, <2>3
<1>. QED
  BY <1>1, <1>2 DEF Selected, MayWrite

\* The keys: an old one goes only when no available blob needs it and none
\* will be saved under it.
LEMMA NextKeys ==
    ASSUME Types, Selected, StaysReadable, Rotation, [Next]_vars
    PROVE  StaysReadable' /\ Rotation'
<1>1. CASE Configuring
  <2>1. log' = log /\ rotator' = rotator
    BY <1>1 DEF Configuring, IntroduceKey, DropOldKeys, RestartWeb
  <2>2. CASE \E k \in Keys : IntroduceKey(k)
    <3>1. PICK k \in Keys : IntroduceKey(k)
      BY <2>2
    <3>2. /\ config'.active = k /\ config'.keys = config.keys \cup {k}
          /\ rotated' = FALSE /\ web' = web /\ rotator.pc = "idle"
      BY <3>1 DEF IntroduceKey, RotatorIs
    <3>. QED
      BY <2>1, <3>2 DEF StaysReadable, HasContent, Rotation
  <2>3. CASE DropOldKeys
    <3>1. /\ config'.active = config.active /\ config'.keys = {config.active}
          /\ rotated /\ rotated' = rotated /\ web' = web
      BY <2>3 DEF DropOldKeys, Types, Keyrings
    <3>2. web.active = config.active /\ Fresh
      BY <3>1 DEF Rotation
    <3>3. Fresh'
      BY <2>1, <3>1, <3>2 DEF Fresh, HasContent
    <3>4. StaysReadable'
      BY <3>1, <3>3 DEF Fresh, StaysReadable
    <3>. QED
      BY <3>1, <3>2, <3>3, <3>4 DEF Rotation
  <2>4. CASE RestartWeb
    <3>1. web' = config /\ config' = config /\ rotated' = rotated
      BY <2>4 DEF RestartWeb
    <3>2. Fresh' <=> Fresh
      BY <2>1, <3>1 DEF Fresh, HasContent
    <3>. QED
      BY <2>1, <3>1, <3>2 DEF StaysReadable, HasContent, Rotation
  <2>. QED
    BY <1>1, <2>2, <2>3, <2>4 DEF Configuring
<1>2. CASE ~Configuring
  <2>1. config' = config /\ web' = web
    BY <1>2, Steps, ReadingMoves
       DEF Writing, CommitTurn, Close, Repair, DeleteSession, Persist, LoadMetadata,
           SelectForSave, UpdateLog, DeleteLog, WriterFails, Cleaning, ListExpired, SaveExpired,
           SelectForExpiry, UpdateExpired, CleanerCrash, Rotating, ListLogs, Rotate, LoadBlob,
           SelectForRotation, UpdateRotated, EndRotation, RotatorCrash, vars, keyVars
  <2>2. StaysReadable'
    BY <2>1, LogMoves DEF StaysReadable, HasContent, Rotation
  <2>3. CASE ~Rotating
    <3>1. rotated' = rotated /\ rotator' = rotator
      BY <1>2, <2>3, Steps, ReadingMoves
         DEF Writing, CommitTurn, Close, Repair, DeleteSession, Persist, LoadMetadata,
             SelectForSave, UpdateLog, DeleteLog, WriterFails, Cleaning, ListExpired,
             SaveExpired, SelectForExpiry, UpdateExpired, CleanerCrash, vars, keyVars
    <3>2. rotated \/ (rotator.pc = "end" /\ rotator.after) => web.active = config.active /\ Fresh
      BY DEF Rotation
    <3>3. rotated' \/ (rotator'.pc = "end" /\ rotator'.after) => Fresh'
      BY <2>1, <3>1, <3>2, StaysFresh
    <3>. QED
      BY <2>1, <2>2, <3>1, <3>3 DEF Rotation
  <2>4. CASE Rotating
    <3>1. rotated => web.active = config.active /\ Fresh
      BY DEF Rotation
    <3>2. rotated => Fresh'
      BY <2>1, <3>1, StaysFresh
    <3>3. CASE ListLogs
      <4>1. /\ rotated' = rotated /\ log' = log
            /\ rotator'.after = (web.active = config.active)
            /\ rotator'.pc = "end" => log = None
        BY <3>3 DEF ListLogs
      <4>2. rotator'.pc = "end" => Fresh'
        BY <4>1 DEF Fresh, HasContent
      <4>. QED
        BY <2>1, <2>2, <3>1, <3>2, <4>1, <4>2 DEF Rotation
    <3>4. CASE LoadBlob \/ SelectForRotation
      <4>1. rotator \in [pc : {"load", "select"}, listed : Records, after : BOOLEAN]
        BY <3>4, RotatorKinds DEF LoadBlob, SelectForRotation, RotatorIs, Types
      <4>2. rotated' = rotated /\ log' = log
        BY <3>4 DEF LoadBlob, SelectForRotation, keyVars
      <4>3. rotator'.after = rotator.after /\ (rotator'.pc = "end" => Fresh)
        <5>1. CASE LoadBlob
          BY <4>1, <5>1 DEF LoadBlob, Fresh, HasContent
        <5>2. CASE SelectForRotation
          BY <4>1, <5>2 DEF SelectForRotation, MayWrite, Fresh
        <5>. QED
          BY <3>4, <5>1, <5>2
      <4>4. Fresh' <=> Fresh
        BY <2>1, <4>2 DEF Fresh, HasContent
      <4>5. rotator.after => web.active = config.active
        BY <4>1 DEF Rotation
      <4>. QED
        BY <2>1, <2>2, <3>1, <4>2, <4>3, <4>4, <4>5 DEF Rotation
    <3>5. CASE UpdateRotated
      <4>1. rotated' = rotated /\ rotator.pc = "update"
        BY <3>5 DEF UpdateRotated, RotatorIs, keyVars
      <4>2. CASE CommitSucceeds(rotator.selected)
        <5>1. /\ rotator.listed \in Records /\ rotator.selected \in Records \cup {None}
              /\ rotator.listed.blob # None /\ MayWrite(rotator.selected)
          BY <3>5, RotatorKinds DEF UpdateRotated, RotatorIs, Types, Selected
        <5>. DEFINE b == Blob(rotator.listed.blob.turns, config.active)
        <5>2. /\ rotator.listed.turns \in 0 .. MaxTurns /\ config.active \in Keys
              /\ b \in Blobs /\ b.key = config.active
          BY <5>1 DEF Types, Keyrings, Records, Blob, Blobs
        <5>3. log' = Saved(rotator.selected,
                           Record(b, rotator.listed.turns, config.active, TRUE))
          BY <3>5, <4>2 DEF UpdateRotated, Reencrypted
        <5>4. log \in Records \cup {None}
          BY DEF Types
        <5>5. log'.blob = b
          BY <4>2, <5>1, <5>2, <5>3, <5>4, SavedRecord
        <5>6. Fresh'
          BY <2>1, <5>2, <5>5 DEF Fresh
        <5>7. rotator' = [pc |-> "end", after |-> rotator.after]
          BY <3>5, <4>2 DEF UpdateRotated
        <5>8. rotator.after => web.active = config.active
          BY <4>1 DEF Rotation
        <5>. QED
          BY <2>1, <2>2, <3>1, <4>1, <5>6, <5>7, <5>8 DEF Rotation
      <4>3. CASE ~CommitSucceeds(rotator.selected)
        <5>1. rotator'.pc = "idle"
          BY <3>5, <4>3 DEF UpdateRotated, Idle
        <5>. QED
          BY <2>1, <2>2, <3>1, <3>2, <4>1, <5>1 DEF Rotation
      <4>. QED
        BY <4>2, <4>3
    <3>6. CASE EndRotation
      <4>1. /\ rotator.pc = "end" /\ rotated' = (rotated \/ rotator.after)
            /\ log' = log /\ rotator'.pc = "idle"
        BY <3>6 DEF EndRotation, RotatorIs, Idle
      <4>2. rotator.after \in BOOLEAN
        BY <4>1, RotatorKinds DEF Types
      <4>3. rotated' => web.active = config.active /\ Fresh
        BY <4>1, <4>2 DEF Rotation
      <4>4. Fresh' <=> Fresh
        BY <2>1, <4>1 DEF Fresh, HasContent
      <4>. QED
        BY <2>1, <2>2, <4>1, <4>3, <4>4 DEF Rotation
    <3>7. CASE RotatorCrash
      <4>1. rotated' = rotated /\ rotator'.pc = "idle"
        BY <3>7 DEF RotatorCrash, Idle, keyVars
      <4>. QED
        BY <2>1, <2>2, <3>1, <3>2, <4>1 DEF Rotation
    <3>. QED
      BY <2>4, <3>3, <3>4, <3>5, <3>6, <3>7 DEF Rotating, Rotate
  <2>. QED
    BY <2>3, <2>4
<1>. QED
  BY <1>1, <1>2

---------------------------------------------------------------------------
(***************************************************************************)
(* Disclosure.                                                             *)
(***************************************************************************)
LEMMA NextDisclosure ==
    ASSUME Types, Selected, Disclosure, [Next]_vars
    PROVE  Disclosure'
<1>1. deleted => deleted'
  BY Steps, ReadingMoves
     DEF Writing, CommitTurn, Close, Repair, DeleteSession, Persist, LoadMetadata, SelectForSave,
         UpdateLog, DeleteLog, WriterFails, Cleaning, ListExpired, SaveExpired, SelectForExpiry,
         UpdateExpired, CleanerCrash, Configuring, IntroduceKey, DropOldKeys, RestartWeb,
         Rotating, ListLogs, Rotate, LoadBlob, SelectForRotation, UpdateRotated, EndRotation,
         RotatorCrash, vars
<1>2. writer'.pc = "delete" => deleted'
  <2>1. CASE LoadMetadata \/ SelectForSave
    <3>1. writer \in [pc : {"metadata", "select"}, turns : 0 .. MaxTurns]
      BY <2>1, WriterKinds DEF Types, LoadMetadata, SelectForSave, WriterIs
    <3>2. writer'.pc # "delete"
      BY <2>1, <3>1 DEF LoadMetadata, SelectForSave, Idle
    <3>. QED
      BY <3>2
  <2>2. CASE CommitTurn \/ Close \/ Repair \/ DeleteSession
    <3>1. writer'.pc = "metadata" \/ deleted'
      BY <2>2 DEF CommitTurn, Close, Repair, DeleteSession
    <3>. QED
      BY <3>1
  <2>3. CASE UpdateLog \/ DeleteLog \/ WriterFails \/ RestartWeb
    BY <2>3, WriterEnds
  <2>4. CASE ~Writing /\ ~RestartWeb
    <3>1. writer' = writer
      BY <2>4, Steps, ReadingMoves
         DEF Cleaning, ListExpired, SaveExpired, SelectForExpiry, UpdateExpired, CleanerCrash,
             Configuring, IntroduceKey, DropOldKeys, Rotating, ListLogs, Rotate, LoadBlob,
             SelectForRotation, UpdateRotated, EndRotation, RotatorCrash, vars
    <3>. QED
      BY <1>1, <3>1 DEF Disclosure
  <2>. QED
    BY <2>1, <2>2, <2>3, <2>4 DEF Writing, Persist
<1>3. ASSUME NEW v \in Instructors, access'[v] = access[v]
      PROVE  /\ access'[v].pc = "show" => access'[v].audited
             /\ Late(v)' => log' # None /\ ~log'.available
             /\ Late(v)' /\ access'[v].kind = "payload" => access'[v].pc = "available"
  <2>1. Late(v)' => Late(v)
    BY <1>1, <1>3 DEF Late
  <2>2. Late(v) => log' # None /\ ~log'.available
    BY StaysExpired DEF Disclosure, Late
  <2>. QED
    BY <1>3, <2>1, <2>2 DEF Disclosure
<1>4. CASE \E u \in Instructors : Reading(u)
  <2>1. PICK u \in Instructors : Reading(u)
    BY <1>4
  <2>2. /\ log' = log /\ deleted' = deleted
        /\ \A v \in Instructors \ {u} : access'[v] = access[v]
        /\ access' \in [Instructors -> Accesses]
    BY <2>1, ReadingMoves
  <2>3. unaudited' = {}
    <3>1. CASE Show(u)
      BY <3>1 DEF Show, AccessIs, Disclosure
    <3>2. CASE ~Show(u)
      BY <2>1, <3>2 DEF Disclosure, Reading, Request, Read, CheckAvailable, ReadMetadata,
                        Authorize, ReadBlob, Audit, AuditFails, Unreadable
    <3>. QED
      BY <3>1, <3>2
  <2>4. /\ access'[u].pc = "show" => access'[u].audited
        /\ Late(u)' => log' # None /\ ~log'.available
        /\ Late(u)' /\ access'[u].kind = "payload" => access'[u].pc = "available"
    <3>1. CASE \E kind \in {"payload", "list"} : Request(u, kind)
      <4>1. PICK kind \in {"payload", "list"} : Request(u, kind)
        BY <3>1
      <4>. DEFINE late == log # None /\ ~log.available
                  request == [pc |-> IF kind = "payload" THEN "available" ELSE "metadata",
                              kind |-> kind, late |-> late, audited |-> FALSE]
      <4>2. access'[u] = request
        BY <4>1 DEF Request, Types
      <4>3. request.late = late
        <5>. HIDE DEF late
        <5>. QED
          OBVIOUS
      <4>4. request.pc # "show" /\ (request.kind = "payload" => request.pc = "available")
        BY <4>1
      <4>. HIDE DEF request
      <4>5. access'[u].late <=> late
        BY <4>2, <4>3
      <4>. QED
        BY <2>2, <4>2, <4>4, <4>5 DEF Late
    <3>2. CASE Answer(u)
      <4>1. access'[u].pc = "idle"
        BY <3>2 DEF Answer, Types, Idle
      <4>. QED
        BY <4>1 DEF Late
    <3>3. CASE Read(u) /\ ~Answer(u)
      <4>1. access[u].pc # "idle"
        BY <3>3 DEF Read, CheckAvailable, ReadMetadata, Authorize, ReadBlob, Audit, AuditFails,
                    Show, Unreadable, AccessIs
      <4>2. access[u] \in [pc : {"available", "metadata", "authorize", "blob", "unreadable",
                                 "audit", "show"},
                           kind : {"payload", "list"}, late : BOOLEAN, audited : BOOLEAN]
        BY <4>1, AccessKinds DEF Types
      <4>3. CASE Audit(u)
        <5>1. /\ access'[u].kind = access[u].kind /\ access'[u].late = access[u].late
              /\ access'[u].audited /\ access'[u].pc = "show" /\ access[u].pc = "audit"
          BY <4>2, <4>3 DEF Audit, AccessIs, Types
        <5>. QED
          BY <2>2, <5>1 DEF Disclosure, Late
      <4>4. ASSUME NEW pc \in {"metadata", "authorize", "blob", "unreadable", "audit"},
                   Proceed(u, pc), access[u].pc = "available" => log # None /\ log.available
            PROVE  /\ access'[u].pc # "show"
                   /\ Late(u)' => log' # None /\ ~log'.available
                   /\ Late(u)' /\ access'[u].kind = "payload" => access'[u].pc = "available"
        <5>1. /\ access'[u].kind = access[u].kind /\ access'[u].late = access[u].late
              /\ access'[u].pc = pc
          BY <4>2, <4>4 DEF Proceed, Types
        <5>2. Late(u)' => Late(u)
          BY <2>2, <4>1, <5>1 DEF Late
        <5>. QED
          BY <2>2, <4>1, <4>4, <5>1, <5>2 DEF Disclosure
      <4>. QED
        BY <3>3, <4>3, <4>4 DEF Read, CheckAvailable, ReadMetadata, Authorize, ReadBlob,
                                AuditFails, Show, Unreadable, AccessIs
    <3>. QED
      BY <2>1, <3>1, <3>2, <3>3 DEF Reading
  <2>. QED
    BY <1>2, <1>3, <2>2, <2>3, <2>4 DEF Disclosure
<1>5. CASE RestartWeb
  <2>1. \A u \in Instructors : access'[u].pc = "idle"
    BY <1>5 DEF RestartWeb, Idle
  <2>2. unaudited' = unaudited
    BY <1>5 DEF RestartWeb
  <2>. QED
    BY <1>2, <2>1, <2>2 DEF Disclosure, Late
<1>6. CASE ~RestartWeb /\ ~\E u \in Instructors : Reading(u)
  <2>1. access' = access /\ unaudited' = unaudited
    BY <1>6, Steps
       DEF Writing, CommitTurn, Close, Repair, DeleteSession, Persist, LoadMetadata,
           SelectForSave, UpdateLog, DeleteLog, WriterFails, Cleaning, ListExpired, SaveExpired,
           SelectForExpiry, UpdateExpired, CleanerCrash, Configuring, IntroduceKey, DropOldKeys,
           Rotating, ListLogs, Rotate, LoadBlob, SelectForRotation, UpdateRotated, EndRotation,
           RotatorCrash, vars, readVars
  <2>. QED
    BY <1>2, <1>3, <2>1 DEF Disclosure
<1>. QED
  BY <1>4, <1>5, <1>6

LEMMA InitConsistent == Init => IInv
<1>1. Init => Types
  BY InitTypes
<1>2. ASSUME Init
      PROVE  Selected /\ StaysReadable /\ Rotation /\ Disclosure
  <2>1. /\ writer.pc = "idle" /\ rotator.pc = "idle"
        /\ \A u \in Instructors : access[u].pc = "idle"
    BY <1>2 DEF Init, Idle
  <2>2. config.active = FirstKey /\ config.keys = {FirstKey} /\ web = config /\ ~rotated
    BY <1>2 DEF Init
  <2>3. log.blob.key = FirstKey
    BY <1>2 DEF Init, Record, Blob
  <2>4. unaudited = {}
    BY <1>2 DEF Init
  <2>. QED
    BY <2>1, <2>2, <2>3, <2>4 DEF Selected, StaysReadable, Rotation, Disclosure, Late
<1>. QED
  BY <1>1, <1>2 DEF IInv

\* The inductive invariant of the log, its keys and its readers.
THEOREM LogInvariance == Spec => []IInv
<1>1. IInv /\ [Next]_vars => IInv'
  BY NextTypes, NextSelected, NextKeys, NextDisclosure DEF IInv
<1>. QED
  BY <1>1, InitConsistent, PTL DEF Spec

\* The documented steps of a key rotation (restart the web process, let the
\* rotation end, drop the old keys) never make a retained log unreadable,
\* whatever is saved, expired or deleted meanwhile.
THEOREM StaysReadableHolds == Spec => []StaysReadable
<1>1. IInv => StaysReadable
  BY DEF IInv
<1>. QED
  BY <1>1, LogInvariance, PTL

\* Nothing is returned without an audit, and no request that came after the
\* expiry reaches the content.
THEOREM DisclosureSoundHolds == Spec => []DisclosureSound
<1>1. IInv => DisclosureSound
  <2>. SUFFICES ASSUME IInv, NEW u \in Instructors, access[u].pc \in {"audit", "show"},
                       access[u].kind = "payload", ~deleted
                PROVE  ~access[u].late
    BY DEF IInv, Disclosure, DisclosureSound
  <2>. QED
    BY DEF IInv, Disclosure, Late
<1>. QED
  BY <1>1, LogInvariance, PTL

=============================================================================
