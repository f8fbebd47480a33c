--------------------------- MODULE EncryptedLogs ---------------------------
(***************************************************************************)
(* The encrypted log of one session at the grain of SQL statements: the    *)
(* web process that writes it (core/encrypted_logs.py,                     *)
(* storage/postgres.py), the retention job that blanks it                  *)
(* (utils/cleanup_retention.py), the job that encrypts it under a new key  *)
(* (utils/rotate_log_keys.py), instructors who read it                     *)
(* (api/routes/courses.py) and the operator who replaces keys.             *)
(*                                                                         *)
(* No statement here locks the record before it is written: a save or an   *)
(* expiry selects it and, at its commit, updates the columns that differ   *)
(* from what it selected.  A log is of a session that keeps one.           *)
(***************************************************************************)
EXTENDS Naturals, FiniteSets

CONSTANTS
    Keys,           \* key ids of the keyring, in the order they are introduced
    FirstKey,
    Instructors,    \* users who may be instructors of the course
    MaxTurns,       \* bound: turns of the session
    MaxRotations,   \* bound: runs of rotate_log_keys
    None

ASSUME LogAssumption ==
    /\ FirstKey \in Keys /\ None \notin Keys
    /\ MaxTurns \in Nat /\ MaxRotations \in Nat

VARIABLES
    row,        \* the session: present, turns, active, expired
    deleted,    \* history: delete_session removed it
    log,        \* its encrypted_logs record, or None
    writer,     \* the coroutine that holds the session's lock
    cleaner,    \* the retention job
    rotator,    \* rotate_log_keys
    config,     \* the keyring files: active, keys
    web,        \* the keyring the web process has loaded
    rotations,  \* runs started
    rotated,    \* history: a run under this configuration ended that began
                \* after the web process had loaded it
    access,     \* user -> the request that reads the log
    unaudited   \* history: users who got a log or a list that no audit records

keyVars == <<config, web, rotations, rotated>>
readVars == <<access, unaudited>>
vars == <<row, deleted, log, writer, cleaner, rotator, keyVars, readVars>>

Idle == [pc |-> "idle"]

\* A record of the log table.  The blob is None or the turns it holds and the
\* key of its envelope; turns and key repeat them in plain columns.
Record(blob, turns, key, available) ==
    [blob |-> blob, turns |-> turns, key |-> key, available |-> available]

Blob(turns, key) == [turns |-> turns, key |-> key]

Records ==
    [blob : [turns : 0 .. MaxTurns, key : Keys] \cup {None}, turns : 0 .. MaxTurns, key : Keys,
     available : BOOLEAN]

ASSUME NoneAssumption ==
    None \notin Records \cup [turns : 0 .. MaxTurns, key : Keys]

Init ==
    /\ row = [present |-> TRUE, turns |-> 0, active |-> TRUE, expired |-> FALSE]
    /\ deleted = FALSE
    /\ log = Record(Blob(0, FirstKey), 0, FirstKey, TRUE)
    /\ writer = Idle /\ cleaner = Idle /\ rotator = Idle
    /\ config = [active |-> FirstKey, keys |-> {FirstKey}]
    /\ web = config
    /\ rotations = 0 /\ rotated = FALSE
    /\ access = [u \in Instructors |-> Idle]
    /\ unaudited = {}

---------------------------------------------------------------------------
(***************************************************************************)
(* Saving a record.                                                        *)
(***************************************************************************)
\* The UPDATE names only the columns that the save has changed.
Updated(selected, new) ==
    [c \in DOMAIN new |-> IF c # "blob" /\ new[c] = selected[c] THEN log[c] ELSE new[c]]

\* save_encrypted_log at its commit: what it selected decides between INSERT
\* and UPDATE; a record that appeared or went meanwhile makes it raise.
CommitSucceeds(selected) == (selected = None) = (log = None)

Saved(selected, new) == IF selected = None THEN new ELSE Updated(selected, new)

\* After the SELECT: an expired record is left alone.
MayWrite(selected) == selected = None \/ selected.available

---------------------------------------------------------------------------
(***************************************************************************)
(* The web process: SessionManager under the session's lock.               *)
(***************************************************************************)
WriterIs(pc) == writer.pc = pc

\* A mutation of the session is stored; closing it ends its turns, a retry
\* only repairs the log.
CommitTurn ==
    /\ WriterIs("idle") /\ row.present /\ row.active /\ row.turns < MaxTurns
    /\ row' = [row EXCEPT !.turns = @ + 1]
    /\ writer' = [pc |-> "metadata", turns |-> row.turns + 1]
    /\ UNCHANGED <<deleted, log, cleaner, rotator, keyVars, readVars>>

Close ==
    /\ WriterIs("idle") /\ row.present /\ row.active
    /\ row' = [row EXCEPT !.active = FALSE]
    /\ writer' = [pc |-> "metadata", turns |-> row.turns]
    /\ UNCHANGED <<deleted, log, cleaner, rotator, keyVars, readVars>>

Repair ==
    /\ WriterIs("idle") /\ row.present /\ ~row.active
    /\ writer' = [pc |-> "metadata", turns |-> row.turns]
    /\ UNCHANGED <<row, deleted, log, cleaner, rotator, keyVars, readVars>>

\* persist_session_log reads the metadata; expired content stays expired.
LoadMetadata ==
    /\ WriterIs("metadata")
    /\ writer' = IF log # None /\ ~log.available THEN Idle ELSE [writer EXCEPT !.pc = "select"]
    /\ UNCHANGED <<row, deleted, log, cleaner, rotator, keyVars, readVars>>

SelectForSave ==
    /\ WriterIs("select")
    /\ writer' = IF MayWrite(log)
                 THEN [pc |-> "update", turns |-> writer.turns, selected |-> log] ELSE Idle
    /\ UNCHANGED <<row, deleted, log, cleaner, rotator, keyVars, readVars>>

UpdateLog ==
    /\ WriterIs("update")
    /\ log' = IF CommitSucceeds(writer.selected)
              THEN Saved(writer.selected,
                         Record(Blob(writer.turns, web.active), writer.turns, web.active, TRUE))
              ELSE log
    /\ writer' = Idle
    /\ UNCHANGED <<row, deleted, cleaner, rotator, keyVars, readVars>>

\* delete_session: first the row, then the log.
DeleteSession ==
    /\ WriterIs("idle") /\ row.present
    /\ row' = [row EXCEPT !.present = FALSE]
    /\ deleted' = TRUE
    /\ writer' = [pc |-> "delete"]
    /\ UNCHANGED <<log, cleaner, rotator, keyVars, readVars>>

DeleteLog ==
    /\ WriterIs("delete")
    /\ log' = None
    /\ writer' = Idle
    /\ UNCHANGED <<row, deleted, cleaner, rotator, keyVars, readVars>>

\* The coroutine is cancelled, or storage raises.
WriterFails ==
    /\ ~WriterIs("idle")
    /\ writer' = Idle
    /\ UNCHANGED <<row, deleted, log, cleaner, rotator, keyVars, readVars>>

---------------------------------------------------------------------------
(***************************************************************************)
(* The retention job: cleanup_once, started every day.                     *)
(***************************************************************************)
CleanerIs(pc) == cleaner.pc = pc

\* Mutant: a session whose content is already expired is skipped.
MutantListExpired ==
    /\ CleanerIs("idle") /\ row.present /\ ~row.active /\ ~row.expired
    /\ cleaner' = [pc |-> "save", listed |-> row]
    /\ UNCHANGED <<row, deleted, log, writer, rotator, keyVars, readVars>>

ListExpired ==
    /\ CleanerIs("idle") /\ row.present /\ ~row.active
    /\ cleaner' = IF row.expired THEN [pc |-> "select"] ELSE [pc |-> "save", listed |-> row]
    /\ UNCHANGED <<row, deleted, log, writer, rotator, keyVars, readVars>>

\* The row may be gone: save_session then inserts what was listed.
SaveExpired ==
    /\ CleanerIs("save")
    /\ row' = [cleaner.listed EXCEPT !.expired = TRUE]
    /\ cleaner' = [pc |-> "select"]
    /\ UNCHANGED <<deleted, log, writer, rotator, keyVars, readVars>>

SelectForExpiry ==
    /\ CleanerIs("select")
    /\ cleaner' = IF log = None THEN Idle ELSE [pc |-> "update", selected |-> log]
    /\ UNCHANGED <<row, deleted, log, writer, rotator, keyVars, readVars>>

\* Only what differs from the selected record is written.
UpdateExpired ==
    /\ CleanerIs("update")
    /\ log' = IF log = None THEN None
              ELSE [log EXCEPT !.blob = IF cleaner.selected.blob = None THEN @ ELSE None,
                               !.available = @ /\ ~cleaner.selected.available]
    /\ cleaner' = Idle
    /\ UNCHANGED <<row, deleted, writer, rotator, keyVars, readVars>>

CleanerCrash ==
    /\ ~CleanerIs("idle")
    /\ cleaner' = Idle
    /\ UNCHANGED <<row, deleted, log, writer, rotator, keyVars, readVars>>

---------------------------------------------------------------------------
(***************************************************************************)
(* Key rotation.                                                           *)
(***************************************************************************)
RotatorIs(pc) == rotator.pc = pc

\* The operator adds a key and makes it the active one.
IntroduceKey(k) ==
    /\ k \notin config.keys
    /\ RotatorIs("idle")
    /\ config' = [active |-> k, keys |-> config.keys \cup {k}]
    /\ rotated' = FALSE
    /\ UNCHANGED <<row, deleted, log, writer, cleaner, rotator, web, rotations, readVars>>

\* "Keep old log-encryption keys until dependent records ... are
\* re-encrypted": only then the other keys are dropped.
DropOldKeys ==
    /\ rotated /\ config.keys # {config.active}
    /\ RotatorIs("idle")
    /\ config' = [config EXCEPT !.keys = {config.active}]
    /\ UNCHANGED <<row, deleted, log, writer, cleaner, rotator, web, rotations, rotated, readVars>>

\* The web process starts again with the keyring of the files.
RestartWeb ==
    /\ web # config
    /\ web' = config
    /\ writer' = Idle
    /\ access' = [u \in Instructors |-> Idle]
    /\ UNCHANGED <<row, deleted, log, cleaner, rotator, config, rotations, rotated, unaudited>>

\* reencrypt_all_with_active_key lists the metadata of every log.
ListLogs ==
    /\ RotatorIs("idle") /\ rotations < MaxRotations
    /\ rotations' = rotations + 1
    /\ rotator' = [pc |-> IF log = None THEN "end" ELSE "load", listed |-> log,
                   after |-> web.active = config.active]
    /\ UNCHANGED <<row, deleted, log, writer, cleaner, config, web, rotated, readVars>>

LoadBlob ==
    /\ RotatorIs("load")
    /\ IF log = None \/ log.blob = None
       THEN rotator' = [rotator EXCEPT !.pc = "end"]
       ELSE /\ log.blob.key \in config.keys     \* otherwise decrypt_json raises
            /\ rotator' = [rotator EXCEPT !.pc = "select", !.listed.blob = log.blob]
    /\ UNCHANGED <<row, deleted, log, writer, cleaner, keyVars, readVars>>

SelectForRotation ==
    /\ RotatorIs("select")
    /\ rotator' = IF MayWrite(log)
                  THEN [pc |-> "update", listed |-> rotator.listed, after |-> rotator.after,
                        selected |-> log]
                  ELSE [rotator EXCEPT !.pc = "end"]
    /\ UNCHANGED <<row, deleted, log, writer, cleaner, keyVars, readVars>>

\* Mutant: the envelope keeps the key it was decrypted with.
MutantReencrypted(listed) ==
    Record(listed.blob, listed.turns, config.active, TRUE)

\* The payload loaded, under the active key, with the metadata listed.
Reencrypted(listed) ==
    Record(Blob(listed.blob.turns, config.active), listed.turns, config.active, TRUE)

UpdateRotated ==
    /\ RotatorIs("update")
    /\ IF CommitSucceeds(rotator.selected)
       THEN /\ log' = Saved(rotator.selected, Reencrypted(rotator.listed))
            /\ rotator' = [pc |-> "end", after |-> rotator.after]
       ELSE rotator' = Idle /\ UNCHANGED log
    /\ UNCHANGED <<row, deleted, writer, cleaner, keyVars, readVars>>

EndRotation ==
    /\ RotatorIs("end")
    /\ rotated' = (rotated \/ rotator.after)
    /\ rotator' = Idle
    /\ UNCHANGED <<row, deleted, log, writer, cleaner, config, web, rotations, readVars>>

RotatorCrash ==
    /\ ~RotatorIs("idle")
    /\ rotator' = Idle
    /\ UNCHANGED <<row, deleted, log, writer, cleaner, keyVars, readVars>>

---------------------------------------------------------------------------
(***************************************************************************)
(* Reading a log: get_encrypted_log and list_encrypted_logs.               *)
(***************************************************************************)
AccessIs(u, pc) == access[u].pc = pc
Answer(u) == access' = [access EXCEPT ![u] = Idle]
Proceed(u, pc) == access' = [access EXCEPT ![u].pc = pc]

\* A caller passes the check of the route: CourseStore has the roster.
Request(u, kind) ==
    /\ AccessIs(u, "idle")
    /\ access' = [access EXCEPT ![u] =
            [pc |-> IF kind = "payload" THEN "available" ELSE "metadata", kind |-> kind,
             late |-> log # None /\ ~log.available, audited |-> FALSE]]
    /\ UNCHANGED <<row, deleted, log, writer, cleaner, rotator, keyVars, unaudited>>

\* Mutant: the availability of the content is not checked.
MutantCheckAvailable(u) ==
    /\ AccessIs(u, "available")
    /\ IF log = None THEN Answer(u) ELSE Proceed(u, "metadata")
    /\ UNCHANGED <<row, deleted, log, writer, cleaner, rotator, keyVars, unaudited>>

\* 404 without a log, 410 when its content has expired.
CheckAvailable(u) ==
    /\ AccessIs(u, "available")
    /\ IF log = None \/ ~log.available THEN Answer(u) ELSE Proceed(u, "metadata")
    /\ UNCHANGED <<row, deleted, log, writer, cleaner, rotator, keyVars, unaudited>>

\* The service reads the metadata again, of one log or of all.
ReadMetadata(u) ==
    /\ AccessIs(u, "metadata")
    /\ IF access[u].kind = "payload" /\ log = None THEN Answer(u) ELSE Proceed(u, "authorize")
    /\ UNCHANGED <<row, deleted, log, writer, cleaner, rotator, keyVars, unaudited>>

\* The course is read again: who is no instructor any more gets no payload,
\* or an empty list.
Authorize(u) ==
    /\ AccessIs(u, "authorize")
    /\ \/ access[u].kind = "list" /\ Proceed(u, "audit")
       \/ access[u].kind = "payload" /\ (Proceed(u, "blob") \/ Answer(u))
    /\ UNCHANGED <<row, deleted, log, writer, cleaner, rotator, keyVars, unaudited>>

\* The blob is loaded and decrypted with a key of the process' keyring.
ReadBlob(u) ==
    /\ AccessIs(u, "blob")
    /\ IF log = None \/ log.blob = None THEN Answer(u)
       ELSE IF log.blob.key \in web.keys THEN Proceed(u, "audit") ELSE Proceed(u, "unreadable")
    /\ UNCHANGED <<row, deleted, log, writer, cleaner, rotator, keyVars, unaudited>>

Audit(u) ==
    /\ AccessIs(u, "audit")
    /\ access' = [access EXCEPT ![u].audited = TRUE, ![u].pc = "show"]
    /\ UNCHANGED <<row, deleted, log, writer, cleaner, rotator, keyVars, unaudited>>

\* save_encrypted_log_access_audit raises, and nothing is returned.
AuditFails(u) ==
    /\ AccessIs(u, "audit")
    /\ Answer(u)
    /\ UNCHANGED <<row, deleted, log, writer, cleaner, rotator, keyVars, unaudited>>

Show(u) ==
    /\ AccessIs(u, "show")
    /\ unaudited' = IF access[u].audited THEN unaudited ELSE unaudited \cup {u}
    /\ Answer(u)
    /\ UNCHANGED <<row, deleted, log, writer, cleaner, rotator, keyVars>>

\* ValueError of _resolve_key: the response is an internal error.
Unreadable(u) ==
    /\ AccessIs(u, "unreadable")
    /\ Answer(u)
    /\ UNCHANGED <<row, deleted, log, writer, cleaner, rotator, keyVars, unaudited>>

---------------------------------------------------------------------------
Persist == LoadMetadata \/ SelectForSave \/ UpdateLog \/ DeleteLog

Rotate == LoadBlob \/ SelectForRotation \/ UpdateRotated \/ EndRotation

Read(u) ==
    \/ CheckAvailable(u) \/ ReadMetadata(u) \/ Authorize(u) \/ ReadBlob(u) \/ Audit(u)
    \/ AuditFails(u) \/ Show(u) \/ Unreadable(u)

Next ==
    \/ CommitTurn \/ Close \/ Repair \/ DeleteSession \/ Persist \/ WriterFails
    \/ ListExpired \/ SaveExpired \/ SelectForExpiry \/ UpdateExpired \/ CleanerCrash
    \/ (\E k \in Keys : IntroduceKey(k)) \/ DropOldKeys \/ RestartWeb
    \/ ListLogs \/ Rotate \/ RotatorCrash
    \/ \E u \in Instructors : Read(u) \/ \E kind \in {"payload", "list"} : Request(u, kind)

\* The retention job is started every day and does not die at the same
\* statement for ever.
Fairness ==
    /\ SF_vars(ListExpired) /\ SF_vars(SaveExpired)
    /\ SF_vars(SelectForExpiry) /\ SF_vars(UpdateExpired)

Spec == Init /\ [][Next]_vars /\ Fairness

---------------------------------------------------------------------------
(***************************************************************************)
(* Properties.                                                             *)
(***************************************************************************)
TypeOK ==
    /\ row \in [present : BOOLEAN, turns : 0 .. MaxTurns, active : BOOLEAN, expired : BOOLEAN]
    /\ log \in Records \cup {None}
    /\ config \in [active : Keys, keys : SUBSET Keys] /\ web \in [active : Keys, keys : SUBSET Keys]
    /\ unaudited \subseteq Instructors

HasContent == log # None /\ log.blob # None

\* The log of an expired session loses its content in the end and for good,
\* though a writer or the key rotation that selected the record before may
\* put the content back, and the job may die between its statements.
ExpiryReachesLog == <>[](row.present /\ row.expired => ~HasContent)

\* An operator who restarts the web process with the new key, lets the
\* rotation end and only then drops the old keys never makes a retained log
\* unreadable, whatever is saved meanwhile.
StaysReadable == HasContent /\ log.available => log.blob.key \in config.keys

\* Nobody gets a log or a list without a record of the access; and a
\* request that began after the log was marked expired never reaches the
\* content, also when a late save has put the blob back, unless the session
\* was deleted and the rotation has inserted its log again.
DisclosureSound ==
    /\ unaudited = {}
    /\ \A u \in Instructors :
            access[u].pc \in {"audit", "show"} /\ access[u].kind = "payload" =>
                ~access[u].late \/ deleted

=============================================================================
