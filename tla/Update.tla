------------------------------- MODULE Update -------------------------------
(* services/system/ota.c, framework/capabilities/ota_device.cpp and        *)
(* persistence_device.cpp across resets. One thread starts persistence,    *)
(* runs the schema migration, starts the OTA capability, polls it and,     *)
(* inside request_update, downloads and stages an image. The device may    *)
(* reset between any two steps. Flash survives: two slots, what otadata    *)
(* says of each, the recorded schema version and the stored data.          *)
EXTENDS Naturals

CONSTANTS Slots,        \* ota_0 and ota_1
          FirstSlot,    \* the slot that is flashed at the factory
          Versions,     \* schema_version of the images
          FirstVersion, \* that of the first image
          Nothing,      \* an empty slot, a missing record, no data yet
          Broken,       \* data migrated from a format it has not, or mixed
          MaxRequests,  \* bound: request_update calls
          MaxResets     \* bound: resets

\* An image was asked for with a digest and has it, or not, or without one.
Images == [schema : Versions, digest : {"match", "mismatch", "unasked"}]

ASSUME UpdateBoundsOK ==
  /\ \E s \in Slots \ {FirstSlot} : Slots = {FirstSlot, s}
  /\ FirstSlot \in Slots
  /\ Versions \subseteq Nat /\ FirstVersion \in Versions
  /\ Nothing \notin Versions \cup Images
  /\ Broken \notin Versions \cup {Nothing}
  /\ MaxRequests \in Nat /\ MaxResets \in Nat

Marks == {"none", "new", "pending", "valid", "aborted"}

VARIABLES rollback,   \* CONFIG_BOOTLOADER_APP_ROLLBACK_ENABLE
          autoMark,   \* cfg_.auto_mark_valid
          image,      \* what is in each slot
          mark,       \* the otadata state of each slot
          boot,       \* the slot otadata names
          version,    \* the schema version recorded in blusys.meta
          data,       \* the format of what the capability has stored
          pc,         \* where the thread is
          running,    \* the slot that runs
          request,    \* the image being downloaded
          status,     \* status_, the fields that are set
          flags,      \* the pending_flags_ that are set
          unfit,      \* why the data of this boot was not migrated
          lapses,     \* what happened that the code does not make up for
          requests, resets

flashVars == <<image, mark, boot>>
dataVars == <<version, data>>
capVars == <<status, flags>>
envVars == <<rollback, autoMark, requests>>
vars == <<flashVars, dataVars, capVars, envVars, pc, running, request, unfit,
          lapses, resets>>

Other(s) == CHOOSE t \in Slots : t # s
Current == image[running].schema

\* What can part the data from the record of their version: the first is noted.
Strays == {"unrecorded", "misread", "downgraded", "overwritten"}
Strayed(how) == IF lapses \cap Strays = {} THEN lapses \cup {how} ELSE lapses
Staged == IF rollback THEN "new" ELSE "none"

UpdateInit ==
  /\ rollback \in BOOLEAN /\ autoMark \in BOOLEAN
  /\ boot = FirstSlot /\ running = FirstSlot
  /\ image = [s \in Slots |-> IF s = FirstSlot
               THEN [schema |-> FirstVersion, digest |-> "unasked"]
               ELSE Nothing]
  /\ mark = [s \in Slots |-> IF s = FirstSlot THEN "valid" ELSE "none"]
  /\ version \in {FirstVersion, Nothing} /\ data \in {FirstVersion, Nothing}
  /\ pc = "off" /\ request = Nothing /\ status = {} /\ flags = {}
  /\ unfit = "no" /\ lapses = {} /\ requests = 0 /\ resets = 0

-----------------------------------------------------------------------------
(* The bootloader. With rollback a pending image that starts again is      *)
(* aborted and its predecessor chosen; a slot without a complete image is  *)
(* passed over.                                                            *)
Chosen(m) == IF m[boot] = "aborted" /\ m[Other(boot)] # "aborted"
             THEN Other(boot) ELSE boot

Boot ==
  /\ pc = "off"
  /\ LET m == IF rollback /\ mark[boot] = "pending"
              THEN [mark EXCEPT ![boot] = "aborted"] ELSE mark
         s == Chosen(m)
     IN /\ boot' = s
        /\ mark' = IF rollback /\ m[s] = "new"
                   THEN [m EXCEPT ![s] = "pending"] ELSE m
        /\ running' = IF image[s] = Nothing THEN Other(s) ELSE s
        /\ lapses' = IF s # boot /\ image[s] # Nothing
                        /\ image[s].digest = "mismatch"
                     THEN lapses \cup {"relapsed"} ELSE lapses
  /\ pc' = "persistence"
  /\ UNCHANGED <<image, dataVars, capVars, envVars, request, unfit, resets>>

\* esp_restart, a panic, a watchdog or a loss of power, between two steps.
Reset ==
  /\ pc # "off" /\ resets < MaxResets
  /\ resets' = resets + 1
  /\ pc' = "off" /\ request' = Nothing /\ status' = {} /\ flags' = {}
  /\ unfit' = "no"
  /\ lapses' = CASE pc = "record" /\ version < Current -> Strayed("unrecorded")
                 [] pc \in {"verify", "revert"} -> lapses \cup {"torn"}
                 [] OTHER -> lapses
  /\ UNCHANGED <<flashVars, dataVars, envVars, running>>

-----------------------------------------------------------------------------
(* start_capabilities: persistence and the migration of the one schema.    *)
Go(p) == pc' = p

PersistenceStarts ==
  /\ pc = "persistence"
  /\ Go("version")
  /\ UNCHANGED <<flashVars, dataVars, capVars, envVars, running, request,
                 unfit, lapses, resets>>

\* blusys_nvs_ensure_init erases a partition that is full or too new.
PersistenceErases ==
  /\ pc = "persistence"
  /\ Go("version")
  /\ version' = Nothing /\ data' = Nothing
  /\ UNCHANGED <<flashVars, capVars, envVars, running, request, unfit,
                 lapses, resets>>

Unfit == data \notin {Nothing, Current}
Goes(why) == Go("start") /\ unfit' = IF Unfit THEN why ELSE "no"

\* NVS cannot be opened: no migration in this boot, and the start goes on.
MigrationSkipped ==
  /\ pc \in {"persistence", "version", "migrate"}
  /\ Goes("failed")
  /\ UNCHANGED <<flashVars, dataVars, capVars, envVars, running, request,
                 lapses, resets>>

\* What blusys_translate_esp_err makes of the errors of nvs_get_u32.
Translate(e) == CASE e = "ESP_FAIL" -> "io"
                  [] e = "ESP_ERR_NVS_NOT_FOUND" -> "internal"
                  [] OTHER -> "ok"

ReadErrors == {"ESP_FAIL"} \cup (IF version = Nothing
                THEN {"ESP_ERR_NVS_NOT_FOUND"} ELSE {"ESP_OK"})

ReadVersion(e) ==
  /\ pc = "version" /\ e \in ReadErrors
  /\ \/ /\ Translate(e) = "io"          \* taken for a first boot
        /\ version' = Current
        /\ lapses' = IF Unfit THEN Strayed("misread") ELSE lapses
        /\ Go("start") /\ UNCHANGED unfit
     \/ /\ Translate(e) = "internal"
        /\ Goes("missing") /\ UNCHANGED <<version, lapses>>
     \/ /\ Translate(e) = "ok"
        /\ Go(IF version = Current THEN "start" ELSE "migrate")
        /\ UNCHANGED <<version, unfit, lapses>>
  /\ UNCHANGED <<flashVars, data, capVars, envVars, running, request, resets>>

\* migrate_from takes data of an older version to this one. It knows no
\* newer versions: by default it changes nothing and succeeds.
Migrate ==
  /\ pc = "migrate"
  /\ Go("record")
  /\ IF version < Current
     THEN /\ data' = IF data = Nothing THEN Nothing
                     ELSE IF data = version THEN Current ELSE Broken
          /\ UNCHANGED lapses
     ELSE /\ lapses' = IF Unfit THEN Strayed("downgraded") ELSE lapses
          /\ UNCHANGED data
  /\ UNCHANGED <<flashVars, version, capVars, envVars, running, request,
                 unfit, resets>>

\* Fault: a migration that failed is recorded as done.
MigrateFailsRecorded ==
  /\ pc = "migrate"
  /\ Go("record") /\ unfit' = "failed"
  /\ UNCHANGED <<flashVars, dataVars, capVars, envVars, running, request,
                 lapses, resets>>

MigrateFails ==
  /\ pc = "migrate"
  /\ Goes("failed")
  /\ UNCHANGED <<flashVars, dataVars, capVars, envVars, running, request,
                 lapses, resets>>

\* The answers of set_u32 and commit are not looked at.
RecordVersion ==
  /\ pc = "record"
  /\ Go("start")
  /\ \/ version' = Current /\ UNCHANGED lapses
     \/ lapses' = Strayed("unrecorded") /\ UNCHANGED version
  /\ UNCHANGED <<flashVars, data, capVars, envVars, running, request, unfit,
                 resets>>

-----------------------------------------------------------------------------
(* ota_capability.                                                         *)
Pend(f) == flags' = flags \cup f

\* Fault: an image is shown as confirmed whatever mark_valid has answered.
OtaStartTrusts ==
  /\ pc = "start"
  /\ Go("run")
  /\ IF mark[running] # "pending"
     THEN Pend({"ready"}) /\ UNCHANGED <<status, mark>>
     ELSE \/ /\ autoMark
             /\ \/ mark' = [mark EXCEPT ![running] = "valid"]
                \/ UNCHANGED mark
             /\ status' = status \cup {"marked_valid"}
             /\ Pend({"marked_valid", "ready"})
          \/ /\ status' = status \cup {"rollback_pending"}
             /\ Pend({"rollback", "ready"})
             /\ UNCHANGED mark
  /\ UNCHANGED <<image, boot, dataVars, envVars, running, request, unfit,
                 lapses, resets>>

\* A pending image is confirmed at once with auto_mark_valid, if otadata can
\* be written, and otherwise left to the product.
OtaStart ==
  /\ pc = "start"
  /\ Go("run")
  /\ IF mark[running] # "pending"
     THEN Pend({"ready"}) /\ UNCHANGED <<status, mark>>
     ELSE \/ /\ autoMark /\ mark' = [mark EXCEPT ![running] = "valid"]
             /\ status' = status \cup {"marked_valid"}
             /\ Pend({"marked_valid", "ready"})
          \/ /\ status' = status \cup {"rollback_pending"}
             /\ Pend({"rollback", "ready"})
             /\ UNCHANGED mark
  /\ UNCHANGED <<image, boot, dataVars, envVars, running, request, unfit,
                 lapses, resets>>

\* blusys_ota_mark_valid, called by the product.
MarkValid ==
  /\ pc = "run" /\ mark[running] = "pending"
  /\ mark' = [mark EXCEPT ![running] = "valid"]
  /\ UNCHANGED <<image, boot, dataVars, capVars, envVars, pc, running,
                 request, unfit, lapses, resets>>

Poll ==
  /\ pc = "run" /\ flags # {}
  /\ flags' = {}
  /\ status' =
       (IF flags \cap {"complete", "failed"} = {} THEN status
        ELSE status \ {"downloading"})
         \cup (IF "complete" \in flags THEN {"apply_complete"} ELSE {})
         \cup (IF "ready" \in flags THEN {"ready"} ELSE {})
  /\ UNCHANGED <<flashVars, dataVars, envVars, pc, running, request, unfit,
                 lapses, resets>>

\* The application is shut down and started again without a reset.
Stop ==
  /\ pc = "run" /\ resets < MaxResets
  /\ resets' = resets + 1
  /\ Go("persistence")
  /\ status' = {} /\ unfit' = "no"
  /\ UNCHANGED <<flashVars, dataVars, envVars, running, request, flags,
                 lapses>>

\* The product stores something in its own format, whatever is there: all of
\* it, or some keys among those of another format. While another version is
\* recorded the next start migrates what was stored, or takes it for its own.
Save ==
  /\ pc = "run"
  /\ data' \in {Current} \cup (IF Unfit THEN {Broken} ELSE {})
  /\ lapses' = IF version \in Versions \ {Current}
               THEN Strayed("overwritten") ELSE lapses
  /\ UNCHANGED <<flashVars, version, capVars, envVars, pc, running, request,
                 unfit, resets>>

-----------------------------------------------------------------------------
(* request_update with blusys_ota_perform, in the thread of the product.   *)
Request(i) ==
  /\ pc = "run" /\ requests < MaxRequests
  /\ requests' = requests + 1
  /\ Go("begin") /\ request' = i
  /\ status' = status \cup {"downloading"}
  /\ Pend({"started"})
  /\ lapses' = IF boot # running THEN lapses \cup {"restaged"} ELSE lapses
  /\ UNCHANGED <<flashVars, dataVars, rollback, autoMark, running, unfit,
                 resets>>

Ends(f) == Go("run") /\ request' = Nothing /\ Pend({f}) /\ UNCHANGED status

\* Fault: the product is not told that begin has failed.
PerformFailsUnsaid ==
  /\ pc \in {"begin", "download", "check", "finish"}
  /\ Go("run") /\ request' = Nothing
  /\ UNCHANGED <<flashVars, dataVars, capVars, envVars, running, unfit,
                 lapses, resets>>

\* open, begin, the transfer, the digest's format, the end of the image or
\* the switch fails: nothing is taken back, and the old target stays.
PerformFails ==
  /\ pc \in {"begin", "download", "check", "finish"}
  /\ Ends("failed")
  /\ UNCHANGED <<flashVars, dataVars, envVars, running, unfit, lapses, resets>>

\* esp_ota_begin, which an image that is not confirmed may not call, erases
\* the slot that does not run.
Begin ==
  /\ pc = "begin" /\ ~(rollback /\ mark[running] = "pending")
  /\ Go("download")
  /\ image' = [image EXCEPT ![Other(running)] = Nothing]
  /\ UNCHANGED <<mark, boot, dataVars, capVars, envVars, running, request,
                 unfit, lapses, resets>>

Download ==
  /\ pc = "download"
  /\ Go("check")
  /\ image' = [image EXCEPT ![Other(running)] = request]
  /\ UNCHANGED <<mark, boot, dataVars, capVars, envVars, running, request,
                 unfit, lapses, resets>>

\* The digest is decoded and the staged partition noted, before finish.
CheckDigest ==
  /\ pc = "check"
  /\ Go("finish")
  /\ UNCHANGED <<flashVars, dataVars, capVars, envVars, running, request,
                 unfit, lapses, resets>>

SetBoot(s) == boot' = s /\ mark' = [mark EXCEPT ![s] = Staged]

\* esp_https_ota_finish names the new slot for the next boot.
Finish ==
  /\ pc = "finish"
  /\ SetBoot(Other(running))
  /\ IF request.digest = "unasked"
     THEN Ends("complete")
     ELSE Go("verify") /\ UNCHANGED <<capVars, request>>
  /\ UNCHANGED <<image, dataVars, envVars, running, unfit, lapses, resets>>

Verified ==
  /\ pc = "verify" /\ request.digest = "match"
  /\ Ends("complete")
  /\ UNCHANGED <<flashVars, dataVars, envVars, running, unfit, lapses, resets>>

\* The digest differs, or the slot cannot be read.
NotVerified ==
  /\ pc = "verify"
  /\ Go("revert")
  /\ UNCHANGED <<flashVars, dataVars, capVars, envVars, running, request,
                 unfit, lapses, resets>>

\* Fault: the new image stays the next one to boot.
RevertNot ==
  /\ pc = "revert"
  /\ Ends("failed")
  /\ UNCHANGED <<flashVars, dataVars, envVars, running, unfit, lapses, resets>>

\* An error of set_boot_partition is only logged.
Revert ==
  /\ pc = "revert"
  /\ Ends("failed")
  /\ \/ SetBoot(running) /\ UNCHANGED lapses
     \/ lapses' = lapses \cup {"unreverted"} /\ UNCHANGED <<mark, boot>>
  /\ UNCHANGED <<image, dataVars, envVars, running, unfit, resets>>

-----------------------------------------------------------------------------
PerformStep == \/ Begin \/ Download \/ CheckDigest \/ Finish
               \/ Verified \/ NotVerified \/ Revert \/ PerformFails
StartStep == \/ PersistenceStarts \/ PersistenceErases \/ MigrationSkipped
             \/ \E e \in {"ESP_OK", "ESP_FAIL", "ESP_ERR_NVS_NOT_FOUND"} :
                  ReadVersion(e)
             \/ Migrate \/ MigrateFails \/ RecordVersion \/ OtaStart
Product == MarkValid \/ Save \/ \E i \in Images : Request(i)

UpdateNext == Boot \/ StartStep \/ Poll \/ PerformStep \/ Product \/ Stop
              \/ Reset

UpdateSpec == UpdateInit /\ [][UpdateNext]_vars
\* The bootloader and the thread go on; resets and the product need not.
FairUpdateSpec ==
  UpdateSpec /\ WF_vars(Boot \/ StartStep \/ PerformStep) /\ WF_vars(Poll)

-----------------------------------------------------------------------------
\* Type invariant.
UpdateTypeOK ==
  /\ image \in [Slots -> Images \cup {Nothing}] /\ mark \in [Slots -> Marks]
  /\ {boot, running} \subseteq Slots
  /\ version \in Versions \cup {Nothing}
  /\ data \in Versions \cup {Nothing, Broken}
  /\ request \in Images \cup {Nothing}
  /\ (request # Nothing <=> pc \in {"begin", "download", "check", "finish",
                                    "verify", "revert"})
  /\ unfit \in {"no", "failed", "missing"}
  /\ image[running] # Nothing

(* "revert to the currently-running partition so the device does not boot  *)
(* a tampered or corrupt image" (ota.c:218): an image without the digest   *)
(* that was asked for never runs, but for a reset before the revert, a     *)
(* revert that fails, one that rollback takes back, because it makes the   *)
(* running image unconfirmed, and a second request before the restart.     *)
TamperedNeverRuns ==
  pc # "off" /\ image[running].digest = "mismatch"
    => lapses \cap {"torn", "unreverted", "relapsed", "restaged"} # {}

(* Persistence "runs schema migrations for all other capabilities before   *)
(* they read their persisted state" (app_runtime.hpp:273): once started,   *)
(* firmware finds its data in its own format, or is in a boot whose        *)
(* migration has failed or could not be known to be needed. Not so after a *)
(* reset or a failed write between a migration and its record              *)
(* (unrecorded), after an unreadable record (misread), after older         *)
(* firmware has recorded its version for newer data (downgraded), and      *)
(* after firmware whose migration failed or was skipped has stored data    *)
(* under the record of the other version (overwritten).                    *)
Started == pc \notin {"off", "persistence", "version", "migrate", "record"}
DataFits == data \in {Nothing, Current} \/ lapses \cap Strays # {}

DataFitsFirmware == Started /\ unfit = "no" => DataFits

(* What the capability shows is so: an update said to be applied is the    *)
(* next to boot, and an image that may still be rolled back is shown so,   *)
(* until it is confirmed.                                                  *)
StatusAgrees ==
  pc = "run" =>
    /\ "apply_complete" \in status \/ "complete" \in flags =>
         \/ boot # running /\ image[boot] # Nothing
         \/ "restaged" \in lapses
    /\ mark[running] = "pending" => "rollback_pending" \in status
    /\ "marked_valid" \in status => mark[running] # "pending"

\* The variables hold what they are described as, and the status what is so.
UpdateConsistent == UpdateTypeOK /\ StatusAgrees

\* Every update that was requested is reported, one way or the other,
\* unless the device resets or the application is stopped.
UpdatesAreReported ==
  "downloading" \in status ~> "downloading" \notin status

\* "The framework persists this in a dedicated meta namespace and detects
\* upgrades automatically" (persistence.hpp:40): firmware that starts on data
\* of another format is in a boot whose migration has failed.
UpgradesAreDetected == Started /\ unfit # "failed" => DataFits
=============================================================================
