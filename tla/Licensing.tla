------------------------------- MODULE Licensing -------------------------------
(***************************************************************************)
(* The license of an installation: the record of its key on the license    *)
(* server, the row in the installation's own database and the signed file  *)
(* beside it.                                                              *)
(*                                                                         *)
(* An installation asks the server only to activate, and only when it has  *)
(* the server's address; by default it has none, and signs a license for   *)
(* whatever key it is given by itself, which no record keeps and no device *)
(* is checked for.  The answer is written to the file first and to the row *)
(* when the request commits, which it may never do.  From then on the      *)
(* installation judges by itself, by the dates it was given: the server    *)
(* may revoke or renew the record, and the installation does not hear of   *)
(* it.                                                                     *)
(*                                                                         *)
(* Of two installations that activate a key at the same time, neither      *)
(* finds a record; both insert one, and the unique key decides.            *)
(***************************************************************************)
EXTENDS Integers

CONSTANTS Installs,         \* installations, each with a device id of its own
          LicenseKeys,      \* license keys
          NoKey,            \* the key of a row that does not exist
          Term,             \* how long a license lasts
          Grace,            \* how long it is tolerated after that
          LastDay,          \* bound: of the calendar
          MaxLicenseCalls   \* bound: activations that begin, revocations and renewals

ASSUME LicenseAssumption == /\ Term \in Nat \ {0} /\ Grace \in Nat /\ LastDay \in Nat
                            /\ MaxLicenseCalls \in Nat /\ NoKey \notin LicenseKeys

VARIABLES today,
          records,      \* the server's records
          row,          \* licenses: the row of every installation
          file,         \* the offline file of every installation
          activation,   \* the activation an installation is making
          grantedTill,  \* history: the last day an installation was granted, by the server
                        \*   or, where none is set, by itself
          licenseCalls

licenseVars == <<today, records, row, file, activation, grantedTill, licenseCalls>>

-----------------------------------------------------------------------------
Days == 0..(LastDay + Term + Grace)
LicenseStatuses == {"active", "revoked"}
NoRecord == [status |-> "absent"]
LicenseRecord == [status: LicenseStatuses, device: Installs, expires: Days]
\* activation_mode: who signed, the server or the installation.
Signers == {"online_server", "local_server"}
NoFile == [key |-> NoKey, status |-> "inactive", expires |-> 0]
NoRow == [key |-> NoKey, status |-> "inactive", expires |-> 0, signer |-> "none"]
NoActivation == [phase |-> "idle"]

\* status_from_dates: what a status is worth today.
FromDates(status, expires) == CASE status = "revoked" -> "revoked"
                                [] status # "revoked" /\ today > expires + Grace -> "expired"
                                [] status # "revoked" /\ today > expires /\ today <= expires + Grace
                                   -> "grace"
                                [] OTHER -> status

\* license_state: the row, and the file where the row has run out.
LicenseState(i) ==
  LET byRow == FromDates(row[i].status, row[i].expires)
      byFile == FromDates(file[i].status, file[i].expires)
  IN CASE row[i].key = NoKey -> "inactive"
       [] row[i].key # NoKey /\ byRow = "expired" /\ file[i].key # NoKey /\ byFile = "grace" -> "grace"
       [] OTHER -> byRow

-----------------------------------------------------------------------------
LicenseInit ==
  /\ today = 0 /\ records = [k \in LicenseKeys |-> NoRecord]
  /\ row = [i \in Installs |-> NoRow] /\ file = [i \in Installs |-> NoFile]
  /\ activation = [i \in Installs |-> NoActivation]
  /\ grantedTill = [i \in Installs |-> -1] /\ licenseCalls = 0

NextDay == /\ today < LastDay /\ today' = today + 1
           /\ UNCHANGED <<records, row, file, activation, grantedTill, licenseCalls>>

\* The answer: the record as it stands, and who signed it.
Answered(i, k, record, signer) ==
  /\ activation' = [activation EXCEPT ![i] =
       IF record.status = "revoked" THEN NoActivation
       ELSE [phase |-> "answered", key |-> k, expires |-> record.expires, signer |-> signer,
             before |-> "inactive"]]
  /\ grantedTill' = [grantedTill EXCEPT ![i] =
       IF record.status # "revoked" /\ record.expires + Grace > @ THEN record.expires + Grace ELSE @]

\* Faulty: a record that is there is taken for that of the device.
BoundHereAlways(i, record) == TRUE

\* The license is bound to this device, or revoked for all.
BoundHere(i, record) == record.device = i \/ record.status = "revoked"

\* A new record of a key, for a device.
FirstRecord(i) == [status |-> "active", device |-> i, expires |-> today + Term]

\* local_license_server_result: without the address of a server.  The setting is read at
\* every activation.
SignHere(i) == \E k \in LicenseKeys :
  /\ activation[i] = NoActivation /\ licenseCalls < MaxLicenseCalls
  /\ licenseCalls' = licenseCalls + 1
  /\ Answered(i, k, FirstRecord(i), "local_server")
  /\ UNCHANGED <<today, records, row, file>>

\* An installation asks for an activation, and the server looks for the key.
AskServer(i) == \E k \in LicenseKeys :
  /\ activation[i] = NoActivation /\ licenseCalls < MaxLicenseCalls
  /\ licenseCalls' = licenseCalls + 1
  /\ IF records[k] = NoRecord
     THEN /\ activation' = [activation EXCEPT ![i] = [phase |-> "inserting", key |-> k]]
          /\ UNCHANGED grantedTill
     ELSE BoundHere(i, records[k]) /\ Answered(i, k, records[k], "online_server")
  /\ UNCHANGED <<today, records, row, file>>

\* The server inserts the record it did not find; when another request has, meanwhile,
\* that record is the answer, or a conflict.
InsertRecord(i) ==
  LET k == activation[i].key
  IN /\ activation[i].phase = "inserting"
     /\ CASE records[k] = NoRecord ->
               /\ records' = [records EXCEPT ![k] = FirstRecord(i)]
               /\ Answered(i, k, FirstRecord(i), "online_server")
          [] records[k] # NoRecord /\ BoundHere(i, records[k]) ->
               Answered(i, k, records[k], "online_server") /\ UNCHANGED records
          [] OTHER -> /\ activation' = [activation EXCEPT ![i] = NoActivation]
                      /\ UNCHANGED <<records, grantedTill>>
     /\ UNCHANGED <<today, row, file, licenseCalls>>

\* The installation loads its row and writes the file.
WriteOfflineFile(i) ==
  /\ activation[i].phase = "answered"
  /\ file' = [file EXCEPT ![i] = [key |-> activation[i].key, status |-> "active",
                                  expires |-> activation[i].expires]]
  /\ activation' = [activation EXCEPT ![i].phase = "filed", ![i].before = row[i].status]
  /\ UNCHANGED <<today, records, row, grantedTill, licenseCalls>>

\* Faulty: the row keeps the status it had.
StatusKept(i) == row[i].status

\* Faulty: every column of the row is written.
StatusWrittenAlways(i) == "active"

\* A column is written when it differs from what the request had loaded.
StatusWritten(i) == IF activation[i].before = "active" THEN row[i].status ELSE "active"

CommitLicense(i) ==
  /\ activation[i].phase = "filed"
  /\ row' = [row EXCEPT ![i] = [key |-> activation[i].key, status |-> StatusWritten(i),
                                expires |-> activation[i].expires,
                                signer |-> activation[i].signer]]
  /\ activation' = [activation EXCEPT ![i] = NoActivation]
  /\ UNCHANGED <<today, records, file, grantedTill, licenseCalls>>

\* The request times out, or the installation goes down.
LoseActivation(i) ==
  /\ activation[i] # NoActivation
  /\ activation' = [activation EXCEPT ![i] = NoActivation]
  /\ UNCHANGED <<today, records, row, file, grantedTill, licenseCalls>>

\* The installation revokes its own row; the server and the file do not change.
RevokeHere(i) == /\ row[i].key # NoKey /\ licenseCalls < MaxLicenseCalls
                 /\ row' = [row EXCEPT ![i].status = "revoked"]
                 /\ licenseCalls' = licenseCalls + 1
                 /\ UNCHANGED <<today, records, file, activation, grantedTill>>

\* The operator of the server revokes or renews a record, a revoked one, too.
ChangeRecord == \E k \in LicenseKeys, status \in LicenseStatuses :
  /\ records[k] # NoRecord /\ licenseCalls < MaxLicenseCalls
  /\ records' = [records EXCEPT ![k].status = status,
                                ![k].expires = IF status = "active" THEN today + Term ELSE @]
  /\ licenseCalls' = licenseCalls + 1
  /\ UNCHANGED <<today, row, file, activation, grantedTill>>

LicenseNext == \/ NextDay \/ ChangeRecord
               \/ \E i \in Installs : \/ SignHere(i) \/ AskServer(i) \/ InsertRecord(i) 
                                      \/ WriteOfflineFile(i) \/ CommitLicense(i)
                                      \/ LoseActivation(i) \/ RevokeHere(i)
LicenseSpec == LicenseInit /\ [][LicenseNext]_licenseVars

-----------------------------------------------------------------------------
(* The state is what the server and the installations can hold. *)
LicenseTypeOK ==
  /\ today \in 0..LastDay /\ records \in [LicenseKeys -> LicenseRecord \cup {NoRecord}]
  /\ row \in [Installs -> [key: LicenseKeys, status: LicenseStatuses, expires: Days,
                           signer: Signers] \cup {NoRow}]
  /\ file \in [Installs -> [key: LicenseKeys, status: {"active"}, expires: Days] \cup {NoFile}]
  /\ grantedTill \in [Installs -> Int] /\ licenseCalls \in 0..MaxLicenseCalls

(* However activations break off between the server, the file and the row: an installation *)
(* takes its license for valid no longer than it was granted, the grace included; what it *)
(* signed itself, it granted itself.  A revocation it never hears of ends with that at the *)
(* latest (license_state, activate_license). *)
ValidAsGranted == \A i \in Installs :
  LicenseState(i) \in {"active", "grace"} => today <= grantedTill[i]

(* Two installations never hold a key the server gave them, also when both activated it *)
(* first; of keys an installation signed itself, the code says nothing *)
(* (request_license_activation). *)
OneDevicePerKey == \A i, j \in Installs :
  /\ row[i].key = row[j].key /\ row[i].key # NoKey
  /\ row[i].signer = "online_server" /\ row[j].signer = "online_server"
  => i = j

(* A license revoked in the installation comes back only by an activation that found it *)
(* revoked: one that overlapped the revocation does not undo it. *)
LocalRevocationHolds == [][\A i \in Installs :
  row[i].status = "revoked" /\ row'[i].status = "active"
  => activation[i].before = "revoked"]_licenseVars

(* An installation never works longer than it was licensed, nor another one with the key *)
(* the server gave it. *)
LicenseSound == ValidAsGranted /\ OneDevicePerKey
=============================================================================
