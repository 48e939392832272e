--------------------------- MODULE UpdateProofs -----------------------------
(* Proofs about Update, for any schema versions and any number of requests *)
(* and resets: what may run, and what data it finds.                       *)
EXTENDS Update, TLAPS

LEMMA OtherSlot ==
  \A s \in Slots : /\ Other(s) \in Slots /\ Other(s) # s
                   /\ \A t \in Slots : t = s \/ t = Other(s)
  BY UpdateBoundsOK DEF Other

Performing == {"begin", "download", "check", "finish", "verify", "revert"}

(* The slot that runs holds an image, and the one being downloaded is      *)
(* known, through every step and reset.                                    *)
LEMMA TypeNext == UpdateTypeOK /\ [UpdateNext]_vars => UpdateTypeOK'
<1> SUFFICES ASSUME UpdateTypeOK, [UpdateNext]_vars PROVE UpdateTypeOK'
  OBVIOUS
<1> USE DEF UpdateTypeOK, Marks, flashVars, dataVars, capVars, envVars
<1>0. /\ Nothing \notin Images
      /\ \A s \in Slots : Other(s) \in Slots /\ Other(s) # s
      /\ \A s, t \in Slots : t = s \/ t = Other(s)
  BY UpdateBoundsOK, OtherSlot
<1>current. Current \in Versions
  BY DEF Current, Images
<1>1. CASE Boot
  <2> DEFINE m == IF rollback /\ mark[boot] = "pending"
                  THEN [mark EXCEPT ![boot] = "aborted"] ELSE mark
             s == Chosen(m)
  <2>1. m \in [Slots -> Marks]
    OBVIOUS
  <2>2. s \in Slots
    BY <1>0 DEF Chosen
  <2>3. boot' = s /\ mark' \in [Slots -> Marks]
    BY <1>1, <2>1, <2>2 DEF Boot
  <2>4. running' \in Slots /\ image[running'] # Nothing
    BY <1>0, <1>1, <2>2 DEF Boot
  <2> QED BY <1>1, <2>2, <2>3, <2>4 DEF Boot
<1>2. CASE Reset
  BY <1>2 DEF Reset
<1>3. CASE PersistenceStarts \/ PersistenceErases
  BY <1>3 DEF PersistenceStarts, PersistenceErases, Go
<1>4. CASE MigrationSkipped \/ MigrateFails
  BY <1>4 DEF MigrationSkipped, MigrateFails, Goes, Go
<1>5. ASSUME NEW e, ReadVersion(e) PROVE UpdateTypeOK'
  BY <1>5, <1>current DEF ReadVersion, Goes, Go
<1>6. CASE Migrate
  BY <1>6, <1>current DEF Migrate, Go
<1>7. CASE RecordVersion
  BY <1>7, <1>current DEF RecordVersion, Go
<1>8. CASE OtaStart
  BY <1>8 DEF OtaStart, Go, Pend
<1>9. CASE MarkValid \/ Poll \/ Stop
  BY <1>9 DEF MarkValid, Poll, Stop, Go
<1>10. CASE Save
  BY <1>10, <1>current DEF Save
<1>11. ASSUME NEW i \in Images, Request(i) PROVE UpdateTypeOK'
  BY <1>0, <1>11 DEF Request, Go, Pend
<1>12. CASE PerformFails
  BY <1>12 DEF PerformFails, Ends, Go, Pend
<1>13. CASE Begin
  BY <1>0, <1>13 DEF Begin, Go
<1>14. CASE Download
  BY <1>0, <1>14 DEF Download, Go
<1>15. CASE CheckDigest \/ NotVerified
  BY <1>15 DEF CheckDigest, NotVerified, Go
<1>16. CASE Finish
  BY <1>0, <1>16 DEF Finish, SetBoot, Staged, Ends, Go, Pend
<1>17. CASE Verified
  BY <1>17 DEF Verified, Ends, Go, Pend
<1>18. CASE Revert
  BY <1>18 DEF Revert, SetBoot, Staged, Ends, Go, Pend
<1>19. CASE UNCHANGED vars
  BY <1>19 DEF vars
<1> QED
  BY <1>1, <1>2, <1>3, <1>4, <1>5, <1>6, <1>7, <1>8, <1>9, <1>10, <1>11,
     <1>12, <1>13, <1>14, <1>15, <1>16, <1>17, <1>18, <1>19
  DEF UpdateNext, StartStep, PerformStep, Product

LEMMA TypeInit == UpdateInit => UpdateTypeOK
  BY UpdateBoundsOK DEF UpdateInit, UpdateTypeOK, Images, Marks

THEOREM UpdateTypeCorrect == UpdateSpec => []UpdateTypeOK
  BY TypeInit, TypeNext, PTL DEF UpdateSpec

-----------------------------------------------------------------------------
(* What runs. While nothing has gone wrong that the code does not make up  *)
(* for, a download is into the slot that is neither running nor next to    *)
(* boot, and a slot that failed its digest is next to boot only until the  *)
(* revert that follows in the same call.                                   *)
Sound == lapses \cap {"torn", "unreverted", "relapsed", "restaged"} = {}
Tampered(s) == image[s] # Nothing /\ image[s].digest = "mismatch"

IntegrityInv ==
  Sound =>
    /\ ~Tampered(running)
    /\ Tampered(boot) => pc \in {"verify", "revert"}
    /\ pc \in {"begin", "download", "check", "finish"} => boot = running
    /\ pc \in {"check", "finish", "verify", "revert"}
         => image[Other(running)] = request

LEMMA IntegrityInit == UpdateInit => IntegrityInv
  BY UpdateBoundsOK DEF UpdateInit, IntegrityInv, Tampered

LEMMA IntegrityNext ==
  UpdateTypeOK /\ IntegrityInv /\ [UpdateNext]_vars => IntegrityInv'
<1> SUFFICES ASSUME UpdateTypeOK, IntegrityInv, [UpdateNext]_vars, Sound'
             PROVE  IntegrityInv'
  BY DEF IntegrityInv
<1> USE DEF IntegrityInv, Sound, Tampered, Strays, Strayed,
            flashVars, dataVars, capVars, envVars
<1>0. /\ {boot, running} \subseteq Slots
      /\ image \in [Slots -> Images \cup {Nothing}]
      /\ image[running] # Nothing
      /\ \A s \in Slots : Other(s) \in Slots /\ Other(s) # s
      /\ \A s, t \in Slots : t = s \/ t = Other(s)
  BY OtherSlot DEF UpdateTypeOK
<1>1. CASE Boot
  <2> DEFINE m == IF rollback /\ mark[boot] = "pending"
                  THEN [mark EXCEPT ![boot] = "aborted"] ELSE mark
             s == Chosen(m)
  <2>1. boot' = s /\ s \in {boot, Other(boot)}
    BY <1>1 DEF Boot, Chosen
  <2>2. running' = IF image[s] = Nothing THEN Other(s) ELSE s
    BY <1>1 DEF Boot
  <2>3. Sound /\ UNCHANGED image /\ pc = "off" /\ pc' = "persistence"
    BY <1>1 DEF Boot
  <2>4. ~Tampered(boot) /\ ~Tampered(running)
    BY <2>3
  <2>5. ~Tampered(s)
    <3>1. CASE s = boot
      BY <2>4, <3>1
    <3>2. CASE s # boot
      BY <1>1, <3>2 DEF Boot
    <3> QED BY <3>1, <3>2
  <2>6. CASE image[s] = Nothing
    BY <1>0, <2>1, <2>2, <2>3, <2>4, <2>5, <2>6
  <2>7. CASE image[s] # Nothing
    BY <2>1, <2>2, <2>3, <2>5, <2>7
  <2> QED BY <2>6, <2>7
<1>2. CASE Reset
  BY <1>2 DEF Reset
<1>3. CASE PersistenceStarts \/ PersistenceErases
  BY <1>3 DEF PersistenceStarts, PersistenceErases, Go
<1>4. CASE MigrationSkipped \/ MigrateFails
  BY <1>4 DEF MigrationSkipped, MigrateFails, Goes, Go
<1>5. ASSUME NEW e, ReadVersion(e) PROVE IntegrityInv'
  BY <1>5 DEF ReadVersion, Goes, Go
<1>6. CASE Migrate \/ RecordVersion \/ OtaStart
  BY <1>6 DEF Migrate, RecordVersion, OtaStart, Go
<1>7. CASE MarkValid \/ Poll \/ Stop \/ Save
  BY <1>7 DEF MarkValid, Poll, Stop, Save, Go
<1>8. ASSUME NEW i \in Images, Request(i) PROVE IntegrityInv'
  BY <1>8 DEF Request, Go
<1>9. CASE PerformFails \/ CheckDigest \/ NotVerified
  BY <1>9 DEF PerformFails, CheckDigest, NotVerified, Ends, Go
<1>10. CASE Begin
  BY <1>0, <1>10 DEF Begin, Go
<1>11. CASE Download
  BY <1>0, <1>11 DEF Download, Go
<1>12. CASE Finish
  BY <1>0, <1>12 DEF Finish, SetBoot, Ends, Go
<1>13. CASE Verified
  <2>1. image[Other(running)].digest = "match" /\ Sound
    BY <1>13 DEF Verified
  <2>2. ~Tampered(boot)
    BY <1>0, <2>1
  <2> QED BY <1>13, <2>2 DEF Verified, Ends, Go
<1>14. CASE Revert
  BY <1>0, <1>14 DEF Revert, SetBoot, Ends, Go
<1>15. CASE UNCHANGED vars
  BY <1>15 DEF vars
<1> QED
  BY <1>1, <1>2, <1>3, <1>4, <1>5, <1>6, <1>7, <1>8, <1>9, <1>10, <1>11,
     <1>12, <1>13, <1>14, <1>15
  DEF UpdateNext, StartStep, PerformStep, Product

(* An image without the digest that was asked for never runs, but for the  *)
(* four ways in which the code lets it.                                    *)
THEOREM UpdateTamperedNeverRuns == UpdateSpec => []TamperedNeverRuns
<1>1. UpdateTypeOK /\ IntegrityInv => TamperedNeverRuns
  BY DEF UpdateTypeOK, IntegrityInv, Tampered, Sound, TamperedNeverRuns
<1> QED
  BY TypeInit, TypeNext, IntegrityInit, IntegrityNext, <1>1, PTL DEF UpdateSpec

-----------------------------------------------------------------------------
(* What data it finds. While every migration is recorded and every record  *)
(* is read, and nothing is stored under the record of another version, the *)
(* recorded version is that of the data.                                   *)
Kept == lapses \cap Strays = {}

DataInv ==
  /\ pc \in {"migrate", "record"} => version \in Versions \ {Current}
  /\ Kept /\ pc = "record" =>
       data = Nothing \/ (data = Current /\ version < Current)
  /\ Kept /\ pc # "record" => Nothing \in {version, data} \/ data = version
  /\ DataFitsFirmware

LEMMA DataInit == UpdateInit => DataInv
  BY UpdateBoundsOK DEF UpdateInit, DataInv, DataFitsFirmware, Started

LEMMA DataNext == UpdateTypeOK /\ DataInv /\ [UpdateNext]_vars => DataInv'
<1> SUFFICES ASSUME UpdateTypeOK, DataInv, [UpdateNext]_vars PROVE DataInv'
  OBVIOUS
<1> USE DEF DataInv, Kept, DataFitsFirmware, DataFits, Strays, Strayed,
            Started, Unfit, flashVars, dataVars, capVars, envVars
<1>0. /\ Current \in Versions /\ Versions \subseteq Nat
      /\ Nothing \notin Versions
      /\ \A s \in Slots : Other(s) \in Slots /\ Other(s) # s
      /\ running \in Slots /\ version \in Versions \cup {Nothing}
  BY UpdateBoundsOK, OtherSlot DEF UpdateTypeOK, Current, Images
<1>current. Current' = Current \/ pc' = "persistence"
  <2>1. CASE UNCHANGED <<image, running>>
    BY <2>1 DEF Current
  <2>2. CASE Boot
    BY <2>2 DEF Boot
  <2>3. CASE Begin \/ Download
    BY <1>0, <2>3 DEF Begin, Download, Current, UpdateTypeOK
  <2> QED
    BY <2>1, <2>2, <2>3
    DEF UpdateNext, StartStep, PerformStep, Product, Reset, PersistenceStarts,
      PersistenceErases, MigrationSkipped, ReadVersion, Migrate, MigrateFails,
      RecordVersion, OtaStart, MarkValid, Poll, Stop, Save, Request,
      PerformFails, CheckDigest, Finish, Verified, NotVerified, Revert, vars
<1>1. CASE Boot \/ Stop
  BY <1>1 DEF Boot, Stop, Go
<1>2. CASE Reset
  BY <1>0, <1>2 DEF Reset
<1>3. CASE PersistenceStarts \/ PersistenceErases
  BY <1>3 DEF PersistenceStarts, PersistenceErases, Go
<1>4. CASE MigrationSkipped \/ MigrateFails
  BY <1>4, <1>current DEF MigrationSkipped, MigrateFails, Goes, Go
<1>5. ASSUME NEW e, ReadVersion(e) PROVE DataInv'
  BY <1>0, <1>5, <1>current DEF ReadVersion, ReadErrors, Translate, Goes, Go
<1>6. CASE Migrate
  BY <1>0, <1>6, <1>current DEF Migrate, Go
<1>7. CASE RecordVersion
  BY <1>0, <1>7, <1>current DEF RecordVersion, Go
<1>8. CASE OtaStart
  BY <1>8, <1>current DEF OtaStart, Go
<1>9. CASE MarkValid \/ Poll
  BY <1>9, <1>current DEF MarkValid, Poll
<1>10. CASE Save
  BY <1>0, <1>10, <1>current DEF Save
<1>11. ASSUME NEW i \in Images, Request(i) PROVE DataInv'
  BY <1>11, <1>current DEF Request, Go
<1>12. CASE PerformStep
  BY <1>12, <1>current
  DEF PerformStep, Begin, Download, CheckDigest, Finish, Verified, NotVerified,
    Revert, PerformFails, Ends, Go
<1>13. CASE UNCHANGED vars
  BY <1>13, <1>current DEF vars
<1> QED
  BY <1>1, <1>2, <1>3, <1>4, <1>5, <1>6, <1>7, <1>8, <1>9, <1>10, <1>11,
     <1>12, <1>13
  DEF UpdateNext, StartStep, Product

(* Firmware that has started finds its data in its own format, unless the  *)
(* migration of this boot failed or nothing was known of its need, or the  *)
(* data had strayed from their record.                                     *)
THEOREM UpdateDataFitsFirmware == UpdateSpec => []DataFitsFirmware
<1>1. DataInv => DataFitsFirmware
  BY DEF DataInv
<1> QED BY TypeInit, TypeNext, DataInit, DataNext, <1>1, PTL DEF UpdateSpec

-----------------------------------------------------------------------------
(* What is shown. From its start on the capability shows a pending image,  *)
(* before it nothing; an update shown as applied is the next to boot until *)
(* another request.                                                        *)
Applied == "apply_complete" \in status \/ "complete" \in flags

StatusInv ==
  /\ pc = "off" => status = {} /\ flags = {}
  /\ ~Started \/ pc = "start" => status = {}
  /\ Started /\ pc # "start" =>
       /\ mark[running] = "pending" => "rollback_pending" \in status
       /\ "marked_valid" \in status => mark[running] # "pending"
  /\ pc # "off" /\ Applied =>
       (boot # running /\ image[boot] # Nothing) \/ "restaged" \in lapses
  /\ pc \in {"check", "finish", "verify", "revert"}
       => image[Other(running)] # Nothing
  /\ pc \in {"verify", "revert"} => boot # running
  /\ pc \in Performing /\ Applied => "restaged" \in lapses

LEMMA StatusInit == UpdateInit => StatusInv
  BY DEF UpdateInit, StatusInv, Started, Applied, Performing

LEMMA StatusNext == UpdateTypeOK /\ StatusInv /\ [UpdateNext]_vars => StatusInv'
<1> SUFFICES ASSUME UpdateTypeOK, StatusInv, [UpdateNext]_vars PROVE StatusInv'
  OBVIOUS
<1> USE DEF StatusInv, Started, Applied, Performing, Strays, Strayed,
            flashVars, dataVars, capVars, envVars
<1>0. /\ {boot, running} \subseteq Slots
      /\ image \in [Slots -> Images \cup {Nothing}]
      /\ mark \in [Slots -> Marks]
      /\ request # Nothing <=> pc \in Performing
      /\ \A s \in Slots : Other(s) \in Slots /\ Other(s) # s
      /\ \A s, t \in Slots : t = s \/ t = Other(s)
  BY OtherSlot DEF UpdateTypeOK
<1>1. CASE Boot \/ Stop
  BY <1>1 DEF Boot, Stop, Go
<1>2. CASE Reset
  BY <1>2 DEF Reset
<1>3. CASE PersistenceStarts \/ PersistenceErases
  BY <1>3 DEF PersistenceStarts, PersistenceErases, Go
<1>4. CASE MigrationSkipped \/ MigrateFails
  BY <1>4 DEF MigrationSkipped, MigrateFails, Goes, Go
<1>5. ASSUME NEW e, ReadVersion(e) PROVE StatusInv'
  BY <1>5 DEF ReadVersion, Goes, Go
<1>6. CASE Migrate \/ RecordVersion
  BY <1>6 DEF Migrate, RecordVersion, Go
<1>7. CASE OtaStart
  BY <1>0, <1>7 DEF OtaStart, Go, Pend
<1>8. CASE MarkValid
  BY <1>0, <1>8 DEF MarkValid
<1>9. CASE Poll
  BY <1>9 DEF Poll
<1>10. CASE Save
  BY <1>10 DEF Save
<1>11. ASSUME NEW i \in Images, Request(i) PROVE StatusInv'
  BY <1>11 DEF Request, Go, Pend
<1>12. CASE PerformFails \/ CheckDigest \/ NotVerified
  BY <1>12 DEF PerformFails, CheckDigest, NotVerified, Ends, Go, Pend
<1>13. CASE Begin
  BY <1>0, <1>13 DEF Begin, Go
<1>14. CASE Download
  BY <1>0, <1>14 DEF Download, Go
<1>15. CASE Finish
  BY <1>0, <1>15 DEF Finish, SetBoot, Ends, Go, Pend
<1>16. CASE Verified
  BY <1>0, <1>16 DEF Verified, Ends, Go, Pend
<1>17. CASE Revert
  BY <1>0, <1>17 DEF Revert, SetBoot, Staged, Ends, Go, Pend
<1>18. CASE UNCHANGED vars
  BY <1>18 DEF vars
<1> QED
  BY <1>1, <1>2, <1>3, <1>4, <1>5, <1>6, <1>7, <1>8, <1>9, <1>10, <1>11,
     <1>12, <1>13, <1>14, <1>15, <1>16, <1>17, <1>18
  DEF UpdateNext, StartStep, PerformStep, Product

(* What the capability shows is so, and the state is well typed.           *)
THEOREM UpdateStatusConsistent == UpdateSpec => []UpdateConsistent
<1>1. UpdateTypeOK /\ StatusInv => UpdateConsistent
  BY DEF StatusInv, Started, Applied, StatusAgrees, UpdateConsistent
<1> QED
  BY TypeInit, TypeNext, StatusInit, StatusNext, <1>1, PTL DEF UpdateSpec
=============================================================================
