----------------------------- MODULE AccessProofs -----------------------------
(***************************************************************************)
(* Proofs about who may work with the system and about the desktop client  *)
(* they work with, for any number of installations, keys, sessions,        *)
(* attempts, users, vendors, requests, pages and windows.                  *)
(***************************************************************************)
EXTENDS Licensing, AuthSessions, Throttle, Accounts, VendorAccess, DesktopShell,
        DesktopProducts, DesktopAdmin, DesktopVendors, DesktopSync, Functions,
        SequenceTheorems, FiniteSetTheorems, TLAPS

--------------------
\* Licensing: nobody works with another's key or for longer than was granted, and a
\* revocation is not undone by an activation it overlapped.
LicenseAnswers == [phase: {"answered", "filed"}, key: LicenseKeys, expires: Days,
            signer: Signers, before: LicenseStatuses \cup {"inactive"}]
Activations == {NoActivation} \cup [phase: {"inserting"}, key: LicenseKeys] \cup LicenseAnswers

\* Installation i was granted the days; what the server signed is in its record of the key.
Backed(i, k, expires, signer) ==
  /\ k \in LicenseKeys /\ expires \in Days /\ expires + Grace <= grantedTill[i]
  /\ signer = "online_server" => records[k] # NoRecord /\ records[k].device = i

(* Whatever an installation holds of a license, it was granted, and what it says the server *)
(* signed, the server has answered; and an installation whose row did not exist when it *)
(* wrote the file has none until the commit. *)
HoldingsBacked == \A i \in Installs :
  /\ row[i].key # NoKey => Backed(i, row[i].key, row[i].expires, row[i].signer)
  /\ file[i].key # NoKey => Backed(i, file[i].key, file[i].expires, "local_server")
  /\ activation[i].phase \in {"answered", "filed"}
       => Backed(i, activation[i].key, activation[i].expires, activation[i].signer)
  /\ activation[i].phase = "filed" => (activation[i].before = "inactive" <=> row[i] = NoRow)

LicenseInv == /\ LicenseTypeOK /\ activation \in [Installs -> Activations]
              /\ HoldingsBacked

--------------------
LEMMA PhaseTells ==
  ASSUME NEW a \in Activations
  PROVE  /\ a.phase = "inserting" => a.key \in LicenseKeys
         /\ a.phase \in {"answered", "filed"} => a \in LicenseAnswers
         /\ a.phase \in {"inserting", "answered", "filed"} <=> a # NoActivation
BY DEF Activations, LicenseAnswers, NoActivation

LEMMA DaysAreNat == Days \subseteq Nat /\ Grace \in Nat /\ Term \in Nat
                    /\ \A d \in 0..LastDay : d + Term \in Days
BY LicenseAssumption DEF Days

LEMMA RowsTyped ==
  ASSUME LicenseTypeOK, NEW i \in Installs
  PROVE  /\ row[i].key \in LicenseKeys \cup {NoKey} /\ file[i].key \in LicenseKeys \cup {NoKey}
         /\ row[i].key # NoKey => /\ row[i].status \in LicenseStatuses /\ row[i].expires \in Days
                                  /\ row[i] \in [key: LicenseKeys, status: LicenseStatuses,
                                                 expires: Days, signer: Signers]
         /\ file[i].key # NoKey => file[i].status = "active" /\ file[i].expires \in Days
         /\ row[i].key = NoKey <=> row[i] = NoRow
         /\ row[i].status \in LicenseStatuses \cup {"inactive"}
         /\ row[i].status = "inactive" <=> row[i] = NoRow
BY LicenseAssumption DEF LicenseTypeOK, NoRow, NoFile, LicenseStatuses

LEMMA LicenseStart == LicenseInit => LicenseInv
<1> SUFFICES ASSUME LicenseInit PROVE LicenseInv OBVIOUS
<1>1. LicenseTypeOK BY LicenseAssumption DEF LicenseInit, LicenseTypeOK
<1>2. activation \in [Installs -> Activations] BY DEF LicenseInit, Activations
<1>3. HoldingsBacked BY DEF LicenseInit, HoldingsBacked, NoRow, NoFile, NoActivation
<1> QED BY <1>1, <1>2, <1>3 DEF LicenseInv

(* What is backed stays so while records keep their devices and grants only grow. *)
LEMMA BackedStays ==
  ASSUME NEW i \in Installs, NEW k, NEW e, NEW m, Backed(i, k, e, m),
         records[k] # NoRecord => records'[k] # NoRecord /\ records'[k].device = records[k].device,
         grantedTill[i] \in Int, grantedTill'[i] \in Int, grantedTill'[i] >= grantedTill[i]
  PROVE  Backed(i, k, e, m)'
BY DaysAreNat DEF Backed

--------------------
LEMMA FreshIsRecord ==
  ASSUME LicenseInv, NEW i \in Installs
  PROVE  FirstRecord(i) \in LicenseRecord /\ FirstRecord(i).device = i
BY DaysAreNat DEF FirstRecord, LicenseRecord, LicenseStatuses, LicenseInv, LicenseTypeOK

(* An answer: it backs what it grants, and takes no grant back. *)
LEMMA AnswerBacks ==
  ASSUME LicenseInv, NEW i \in Installs, NEW k \in LicenseKeys, NEW record \in LicenseRecord,
         NEW signer \in Signers, record.device = i \/ record.status = "revoked",
         Answered(i, k, record, signer),
         records' \in [LicenseKeys -> LicenseRecord \cup {NoRecord}],
         signer = "online_server" => records'[k] = record, \A q \in LicenseKeys : q # k => records'[q] = records[q],
         records[k] = NoRecord \/ records'[k] = records[k],
         UNCHANGED <<row, file>>
  PROVE  /\ activation' \in [Installs -> Activations] /\ HoldingsBacked'
         /\ grantedTill' \in [Installs -> Int]
<1> USE DEF LicenseInv
<1>1. NoRecord \notin LicenseRecord /\ record.status \in LicenseStatuses /\ record.expires \in Days
  BY DEF LicenseRecord, NoRecord
<1>2. grantedTill \in [Installs -> Int] BY DEF LicenseTypeOK
<1> DEFINE answer == IF record.status = "revoked" THEN NoActivation
                     ELSE [phase |-> "answered", key |-> k, expires |-> record.expires,
                           signer |-> signer, before |-> "inactive"]
<1>3. answer \in Activations BY <1>1 DEF Activations, LicenseAnswers
<1>4. activation' = [activation EXCEPT ![i] = answer] BY DEF Answered
<1>5. activation' \in [Installs -> Activations] BY <1>3, <1>4
<1>6. /\ grantedTill' \in [Installs -> Int]
      /\ \A j \in Installs : grantedTill'[j] >= grantedTill[j]
      /\ record.status # "revoked" => record.expires + Grace <= grantedTill'[i]
  <2> DEFINE till == IF record.status # "revoked" /\ record.expires + Grace > grantedTill[i]
                     THEN record.expires + Grace ELSE grantedTill[i]
  <2>1. grantedTill' = [grantedTill EXCEPT ![i] = till] BY DEF Answered
  <2>2. record.expires + Grace \in Int /\ grantedTill[i] \in Int
    <3>1. record.expires \in Nat /\ Grace \in Nat BY <1>1, DaysAreNat
    <3>2. grantedTill[i] \in Int BY <1>2
    <3> QED BY <3>1, <3>2
  <2>3. /\ till \in Int /\ till >= grantedTill[i]
        /\ record.status # "revoked" => record.expires + Grace <= till
    BY <2>2
  <2> HIDE DEF till
  <2> QED BY <1>2, <2>1, <2>3
<1>7. \A q \in LicenseKeys : records[q] # NoRecord => records'[q] = records[q] OBVIOUS
<1>8. ASSUME NEW j \in Installs, NEW q, NEW e, NEW m, Backed(j, q, e, m)
      PROVE  Backed(j, q, e, m)'
  <2>1. q \in LicenseKeys BY <1>8 DEF Backed
  <2>2. records[q] # NoRecord => records'[q] = records[q] BY <1>7, <2>1
  <2>3. grantedTill[j] \in Int /\ grantedTill'[j] \in Int /\ grantedTill'[j] >= grantedTill[j]
    BY <1>2, <1>6
  <2> QED BY <1>8, <2>2, <2>3, BackedStays
<1>9. answer.phase \in {"answered", "filed"} => Backed(i, answer.key, answer.expires, answer.signer)'
  BY <1>1, <1>6 DEF Backed, NoActivation, LicenseStatuses
<1>10. answer.phase # "filed" BY DEF NoActivation
<1> HIDE DEF answer
<1>11. ASSUME NEW j \in Installs PROVE activation'[j] = IF j = i THEN answer ELSE activation[j]
  BY <1>4
<1> QED BY <1>5, <1>6, <1>8, <1>9, <1>10, <1>11 DEF HoldingsBacked

(* What an installation signs itself is granted by itself, whatever the server has. *)
LEMMA SignHereStep ==
  ASSUME LicenseInv, NEW i \in Installs, SignHere(i)
  PROVE  LicenseInv'
<1>1. PICK k \in LicenseKeys :
        /\ licenseCalls < MaxLicenseCalls /\ licenseCalls' = licenseCalls + 1
        /\ Answered(i, k, FirstRecord(i), "local_server") /\ UNCHANGED <<today, records, row, file>>
  BY DEF SignHere
<1>2. licenseCalls' \in 0..MaxLicenseCalls BY <1>1, LicenseAssumption DEF LicenseInv, LicenseTypeOK
<1>3. FirstRecord(i) \in LicenseRecord /\ FirstRecord(i).device = i BY FreshIsRecord
<1>4. records' \in [LicenseKeys -> LicenseRecord \cup {NoRecord}]
  BY <1>1 DEF LicenseInv, LicenseTypeOK
<1>5. /\ activation' \in [Installs -> Activations] /\ HoldingsBacked'
      /\ grantedTill' \in [Installs -> Int]
  BY <1>1, <1>3, <1>4, AnswerBacks DEF Signers
<1> QED BY <1>1, <1>2, <1>5 DEF LicenseInv, LicenseTypeOK

LEMMA AskServerStep ==
  ASSUME LicenseInv, NEW i \in Installs, AskServer(i)
  PROVE  LicenseInv'
<1>1. PICK k \in LicenseKeys :
        /\ licenseCalls < MaxLicenseCalls /\ licenseCalls' = licenseCalls + 1
        /\ IF records[k] = NoRecord
           THEN /\ activation' = [activation EXCEPT ![i] = [phase |-> "inserting", key |-> k]]
                /\ UNCHANGED grantedTill
           ELSE BoundHere(i, records[k]) /\ Answered(i, k, records[k], "online_server")
        /\ UNCHANGED <<today, records, row, file>>
  BY DEF AskServer
<1>2. licenseCalls' \in 0..MaxLicenseCalls BY <1>1, LicenseAssumption DEF LicenseInv, LicenseTypeOK
<1>3. CASE records[k] = NoRecord
  <2>1. [phase |-> "inserting", key |-> k] \in Activations BY DEF Activations
  <2>2. activation' \in [Installs -> Activations] BY <1>1, <1>3, <2>1 DEF LicenseInv
  <2>3. ASSUME NEW j \in Installs
        PROVE  activation'[j] = activation[j] \/ activation'[j].phase = "inserting"
    BY <1>1, <1>3 DEF LicenseInv
  <2>4. UNCHANGED <<records, row, file, grantedTill>> BY <1>1, <1>3
  <2>5. ASSUME NEW j \in Installs, NEW q, NEW e, NEW m
      PROVE  Backed(j, q, e, m)' <=> Backed(j, q, e, m)
    BY <2>4 DEF Backed
  <2>6. HoldingsBacked' BY <2>3, <2>4, <2>5 DEF LicenseInv, HoldingsBacked
  <2> QED BY <1>1, <1>2, <2>2, <2>4, <2>6 DEF LicenseInv, LicenseTypeOK
<1>4. CASE records[k] # NoRecord
  <2>1. records[k] \in LicenseRecord /\ (records[k].device = i \/ records[k].status = "revoked")
    BY <1>1, <1>4 DEF LicenseInv, LicenseTypeOK, BoundHere
  <2>2. records' \in [LicenseKeys -> LicenseRecord \cup {NoRecord}]
    BY <1>1 DEF LicenseInv, LicenseTypeOK
  <2>3. /\ activation' \in [Installs -> Activations] /\ HoldingsBacked'
        /\ grantedTill' \in [Installs -> Int]
    BY <1>1, <1>4, <2>1, <2>2, AnswerBacks DEF Signers
  <2> QED BY <1>1, <1>2, <2>3 DEF LicenseInv, LicenseTypeOK
<1> QED BY <1>3, <1>4

LEMMA InsertRecordStep ==
  ASSUME LicenseInv, NEW i \in Installs, InsertRecord(i)
  PROVE  LicenseInv'
<1> DEFINE k == activation[i].key
           fresh == FirstRecord(i)
<1>1. activation[i].phase = "inserting" /\ k \in LicenseKeys /\ today \in 0..LastDay
  BY PhaseTells DEF InsertRecord, LicenseInv, LicenseTypeOK
<1>2. fresh \in LicenseRecord /\ fresh.device = i BY FreshIsRecord
<1>3. UNCHANGED <<today, row, file, licenseCalls>> BY DEF InsertRecord
<1>4. CASE records[k] = NoRecord
  <2>1. records' = [records EXCEPT ![k] = fresh] /\ Answered(i, k, fresh, "online_server")
    BY <1>4 DEF InsertRecord
  <2>2. /\ records' \in [LicenseKeys -> LicenseRecord \cup {NoRecord}] /\ records'[k] = fresh
        /\ \A q \in LicenseKeys : q # k => records'[q] = records[q]
    BY <1>1, <1>2, <2>1 DEF LicenseInv, LicenseTypeOK
  <2> HIDE DEF k, fresh
  <2>4. /\ activation' \in [Installs -> Activations] /\ HoldingsBacked'
        /\ grantedTill' \in [Installs -> Int]
    BY <1>1, <1>2, <1>3, <1>4, <2>1, <2>2, AnswerBacks DEF Signers
  <2> QED BY <1>3, <2>2, <2>4 DEF LicenseInv, LicenseTypeOK
<1>5. CASE records[k] # NoRecord /\ BoundHere(i, records[k])
  <2>1. Answered(i, k, records[k], "online_server") /\ records' = records BY <1>5 DEF InsertRecord
  <2>2. records[k] \in LicenseRecord /\ (records[k].device = i \/ records[k].status = "revoked")
    BY <1>1, <1>5 DEF LicenseInv, LicenseTypeOK, BoundHere
  <2>3. records' \in [LicenseKeys -> LicenseRecord \cup {NoRecord}]
    BY <2>1 DEF LicenseInv, LicenseTypeOK
  <2> HIDE DEF k
  <2>4. /\ activation' \in [Installs -> Activations] /\ HoldingsBacked'
        /\ grantedTill' \in [Installs -> Int]
    BY <1>1, <1>3, <1>5, <2>1, <2>2, <2>3, AnswerBacks DEF Signers
  <2> QED BY <1>3, <2>3, <2>4 DEF LicenseInv, LicenseTypeOK
<1>6. CASE records[k] # NoRecord /\ ~BoundHere(i, records[k])
  <2>1. activation' = [activation EXCEPT ![i] = NoActivation] /\ UNCHANGED <<records, grantedTill>>
    BY <1>6 DEF InsertRecord
  <2>2. activation' \in [Installs -> Activations] BY <2>1 DEF LicenseInv, Activations
  <2>3. ASSUME NEW j \in Installs PROVE activation'[j] \in {activation[j], NoActivation}
    BY <2>1 DEF LicenseInv
  <2>4. ASSUME NEW j \in Installs, NEW q, NEW e, NEW m
      PROVE  Backed(j, q, e, m)' <=> Backed(j, q, e, m)
    BY <2>1 DEF Backed
  <2>5. HoldingsBacked' BY <1>3, <2>3, <2>4 DEF LicenseInv, HoldingsBacked, NoActivation
  <2> QED BY <1>3, <2>1, <2>2, <2>5 DEF LicenseInv, LicenseTypeOK
<1> QED BY <1>4, <1>5, <1>6

--------------------
(* The file takes what the answer says; the request has loaded its row. *)
LEMMA WriteOfflineFileStep ==
  ASSUME LicenseInv, NEW i \in Installs, WriteOfflineFile(i)
  PROVE  LicenseInv'
<1> DEFINE a == activation[i]
           written == [key |-> a.key, status |-> "active", expires |-> a.expires]
           filed == [a EXCEPT !.phase = "filed", !.before = row[i].status]
<1>1. a.phase = "answered" /\ a \in LicenseAnswers /\ Backed(i, a.key, a.expires, a.signer)
  BY PhaseTells DEF WriteOfflineFile, LicenseInv, HoldingsBacked
<1>2. /\ filed \in LicenseAnswers /\ filed.phase = "filed" /\ filed.before = row[i].status
      /\ filed.key = a.key /\ filed.expires = a.expires /\ filed.signer = a.signer
  BY <1>1, RowsTyped DEF LicenseAnswers, LicenseInv
<1>3. UNCHANGED <<today, records, row, grantedTill, licenseCalls>> BY DEF WriteOfflineFile
<1>4. file' = [file EXCEPT ![i] = written] /\ activation' = [activation EXCEPT ![i] = filed]
  BY DEF WriteOfflineFile
<1>5. written \in [key: LicenseKeys, status: {"active"}, expires: Days] BY <1>1 DEF Backed
<1>6. written.key = a.key /\ written.expires = a.expires OBVIOUS
<1> HIDE DEF written, filed
<1>7. LicenseTypeOK' /\ activation' \in [Installs -> Activations]
  BY <1>2, <1>3, <1>4, <1>5 DEF LicenseInv, LicenseTypeOK, Activations
<1>8. ASSUME NEW j \in Installs
      PROVE  /\ file'[j] = IF j = i THEN written ELSE file[j]
             /\ activation'[j] = IF j = i THEN filed ELSE activation[j]
  BY <1>4 DEF LicenseInv, LicenseTypeOK
<1>9. ASSUME NEW j \in Installs, NEW q, NEW e, NEW m
      PROVE  Backed(j, q, e, m)' <=> Backed(j, q, e, m)
  BY <1>3 DEF Backed
<1>10. filed.before = "inactive" <=> row[i] = NoRow BY <1>2, RowsTyped DEF LicenseInv
<1>11. Backed(i, a.key, a.expires, "local_server") BY <1>1 DEF Backed
<1>12. HoldingsBacked'
  BY <1>1, <1>2, <1>3, <1>6, <1>8, <1>9, <1>10, <1>11 DEF LicenseInv, HoldingsBacked
<1> QED BY <1>7, <1>12 DEF LicenseInv

LEMMA CommitLicenseStep ==
  ASSUME LicenseInv, NEW i \in Installs, CommitLicense(i)
  PROVE  LicenseInv'
<1> DEFINE a == activation[i]
           written == [key |-> a.key, status |-> StatusWritten(i), expires |-> a.expires,
                      signer |-> a.signer]
<1>1. a.phase = "filed" /\ a \in LicenseAnswers /\ Backed(i, a.key, a.expires, a.signer)
  BY PhaseTells DEF CommitLicense, LicenseInv, HoldingsBacked
<1>2. StatusWritten(i) \in LicenseStatuses
  BY <1>1, RowsTyped DEF StatusWritten, LicenseStatuses, LicenseInv, HoldingsBacked, LicenseAnswers
<1>3. UNCHANGED <<today, records, file, grantedTill, licenseCalls>> BY DEF CommitLicense
<1>4. row' = [row EXCEPT ![i] = written] /\ activation' = [activation EXCEPT ![i] = NoActivation]
  BY DEF CommitLicense
<1>5. written \in [key: LicenseKeys, status: LicenseStatuses, expires: Days, signer: Signers]
  BY <1>1, <1>2 DEF Backed, LicenseAnswers
<1>6. written.key = a.key /\ written.expires = a.expires /\ written.signer = a.signer OBVIOUS
<1> HIDE DEF written
<1>7. LicenseTypeOK' /\ activation' \in [Installs -> Activations]
  BY <1>3, <1>4, <1>5 DEF LicenseInv, LicenseTypeOK, Activations
<1>8. ASSUME NEW j \in Installs
      PROVE  /\ row'[j] = IF j = i THEN written ELSE row[j]
             /\ activation'[j] = IF j = i THEN NoActivation ELSE activation[j]
  BY <1>4 DEF LicenseInv, LicenseTypeOK
<1>9. ASSUME NEW j \in Installs, NEW q, NEW e, NEW m
      PROVE  Backed(j, q, e, m)' <=> Backed(j, q, e, m)
  BY <1>3 DEF Backed
<1>10. HoldingsBacked' BY <1>1, <1>3, <1>6, <1>8, <1>9 DEF LicenseInv, HoldingsBacked, NoActivation
<1> QED BY <1>7, <1>10 DEF LicenseInv

LEMMA LoseActivationStep ==
  ASSUME LicenseInv, NEW i \in Installs, LoseActivation(i)
  PROVE  LicenseInv'
<1>1. activation' = [activation EXCEPT ![i] = NoActivation]
      /\ UNCHANGED <<today, records, row, file, grantedTill, licenseCalls>>
  BY DEF LoseActivation
<1>2. activation' \in [Installs -> Activations] BY <1>1 DEF LicenseInv, Activations
<1>3. ASSUME NEW j \in Installs PROVE activation'[j] \in {activation[j], NoActivation}
  BY <1>1 DEF LicenseInv
<1>4. ASSUME NEW j \in Installs, NEW q, NEW e, NEW m
      PROVE  Backed(j, q, e, m)' <=> Backed(j, q, e, m)
  BY <1>1 DEF Backed
<1>5. HoldingsBacked' BY <1>1, <1>3, <1>4 DEF LicenseInv, HoldingsBacked, NoActivation
<1> QED BY <1>1, <1>2, <1>5 DEF LicenseInv, LicenseTypeOK

(* The row's status changes; its key and its days stay backed. *)
LEMMA RevokeHereStep ==
  ASSUME LicenseInv, NEW i \in Installs, RevokeHere(i)
  PROVE  LicenseInv'
<1> DEFINE revoked == [row[i] EXCEPT !.status = "revoked"]
<1>1. /\ row[i].key # NoKey /\ row' = [row EXCEPT ![i] = revoked]
      /\ licenseCalls < MaxLicenseCalls /\ licenseCalls' = licenseCalls + 1
      /\ UNCHANGED <<today, records, file, activation, grantedTill>>
  BY DEF RevokeHere
<1>2. /\ revoked \in [key: LicenseKeys, status: LicenseStatuses, expires: Days, signer: Signers]
      /\ revoked.key = row[i].key /\ revoked.expires = row[i].expires
      /\ revoked.signer = row[i].signer
      /\ row[i] # NoRow /\ revoked # NoRow
  BY <1>1, RowsTyped DEF LicenseInv, LicenseStatuses, NoRow
<1> HIDE DEF revoked
<1>3. LicenseTypeOK' BY <1>1, <1>2, LicenseAssumption DEF LicenseInv, LicenseTypeOK
<1>4. ASSUME NEW j \in Installs PROVE row'[j] = IF j = i THEN revoked ELSE row[j]
  BY <1>1 DEF LicenseInv, LicenseTypeOK
<1>5. ASSUME NEW j \in Installs, NEW q, NEW e, NEW m
      PROVE  Backed(j, q, e, m)' <=> Backed(j, q, e, m)
  BY <1>1 DEF Backed
<1>6. HoldingsBacked' BY <1>1, <1>2, <1>4, <1>5 DEF LicenseInv, HoldingsBacked
<1> QED BY <1>1, <1>3, <1>6 DEF LicenseInv

(* The operator of the server changes a record, never the device it is bound to. *)
LEMMA ChangeRecordStep ==
  ASSUME LicenseInv, ChangeRecord
  PROVE  LicenseInv'
<1>1. PICK k \in LicenseKeys, status \in LicenseStatuses :
        /\ records[k] # NoRecord /\ licenseCalls < MaxLicenseCalls
        /\ records' = [records EXCEPT ![k].status = status,
                                      ![k].expires = IF status = "active" THEN today + Term ELSE @]
        /\ licenseCalls' = licenseCalls + 1
        /\ UNCHANGED <<today, row, file, activation, grantedTill>>
  BY DEF ChangeRecord
<1>2. records[k] \in LicenseRecord /\ today \in 0..LastDay BY <1>1 DEF LicenseInv, LicenseTypeOK
<1>3. /\ records'[k] \in LicenseRecord /\ records'[k].device = records[k].device
      /\ \A q \in LicenseKeys : q # k => records'[q] = records[q]
      /\ DOMAIN records' = LicenseKeys
  BY <1>1, <1>2, DaysAreNat DEF LicenseInv, LicenseTypeOK, LicenseRecord
<1>4. records' \in [LicenseKeys -> LicenseRecord \cup {NoRecord}]
  BY <1>1, <1>3 DEF LicenseInv, LicenseTypeOK
<1>5. LicenseTypeOK' BY <1>1, <1>4, LicenseAssumption DEF LicenseInv, LicenseTypeOK
<1>6. NoRecord \notin LicenseRecord BY DEF LicenseRecord, NoRecord
<1>7. ASSUME NEW j \in Installs, NEW q, NEW e, NEW m, Backed(j, q, e, m)
      PROVE  Backed(j, q, e, m)'
  BY <1>1, <1>3, <1>6, <1>7 DEF Backed
<1>8. HoldingsBacked' BY <1>1, <1>7 DEF LicenseInv, HoldingsBacked
<1> QED BY <1>1, <1>5, <1>8 DEF LicenseInv

LEMMA NextDayStep ==
  ASSUME LicenseInv, NextDay
  PROVE  LicenseInv'
<1>1. LicenseTypeOK' BY LicenseAssumption DEF LicenseInv, LicenseTypeOK, NextDay
<1>2. ASSUME NEW j \in Installs, NEW q, NEW e, NEW m
      PROVE  Backed(j, q, e, m)' <=> Backed(j, q, e, m)
  BY DEF Backed, NextDay
<1>3. HoldingsBacked' BY <1>2 DEF LicenseInv, HoldingsBacked, NextDay
<1> QED BY <1>1, <1>3 DEF LicenseInv, NextDay

LEMMA LicenseStep == LicenseInv /\ [LicenseNext]_licenseVars => LicenseInv'
<1> SUFFICES ASSUME LicenseInv, [LicenseNext]_licenseVars PROVE LicenseInv' OBVIOUS
<1>1. CASE LicenseNext
  BY <1>1, SignHereStep, AskServerStep, InsertRecordStep, WriteOfflineFileStep, CommitLicenseStep,
     LoseActivationStep, RevokeHereStep, ChangeRecordStep, NextDayStep DEF LicenseNext
<1>2. CASE UNCHANGED licenseVars
  BY <1>2 DEF licenseVars, LicenseInv, LicenseTypeOK, HoldingsBacked, Backed
<1> QED BY <1>1, <1>2

--------------------
(* A status is taken for valid only until its days and the grace are over. *)
LEMMA ValidDays ==
  ASSUME NEW status \in LicenseStatuses, NEW expires \in Days, today \in 0..LastDay,
         FromDates(status, expires) \in {"active", "grace"}
  PROVE  today <= expires + Grace
BY DaysAreNat, LicenseAssumption DEF FromDates, LicenseStatuses

LEMMA BackedIsValid == LicenseInv => ValidAsGranted
<1> SUFFICES ASSUME LicenseInv, NEW i \in Installs, LicenseState(i) \in {"active", "grace"}
             PROVE  today <= grantedTill[i]
  BY DEF ValidAsGranted
<1>1. today \in 0..LastDay /\ grantedTill[i] \in Int /\ row[i].key # NoKey
  BY DEF LicenseInv, LicenseTypeOK, LicenseState
<1>2. CASE FromDates(row[i].status, row[i].expires) \in {"active", "grace"}
  <2>1. today <= row[i].expires + Grace BY <1>1, <1>2, RowsTyped, ValidDays DEF LicenseInv
  <2>2. row[i].expires \in Days /\ row[i].expires + Grace <= grantedTill[i]
    BY <1>1 DEF LicenseInv, HoldingsBacked, Backed
  <2>3. today \in Int /\ row[i].expires + Grace \in Int BY <1>1, <2>2, DaysAreNat, LicenseAssumption
  <2> QED BY <1>1, <2>1, <2>2, <2>3
<1>3. CASE FromDates(row[i].status, row[i].expires) \notin {"active", "grace"}
  <2>1. file[i].key # NoKey /\ FromDates(file[i].status, file[i].expires) = "grace"
    BY <1>1, <1>3 DEF LicenseState
  <2>2. file[i].status \in LicenseStatuses /\ file[i].expires \in Days
    BY <2>1, RowsTyped DEF LicenseInv, LicenseStatuses
  <2>3. today <= file[i].expires + Grace BY <1>1, <2>1, <2>2, ValidDays
  <2>4. file[i].expires + Grace <= grantedTill[i] BY <2>1 DEF LicenseInv, HoldingsBacked, Backed
  <2>5. today \in Int /\ file[i].expires + Grace \in Int
    BY <1>1, <2>2, DaysAreNat, LicenseAssumption
  <2> QED BY <1>1, <2>3, <2>4, <2>5
<1> QED BY <1>2, <1>3

LEMMA BackedIsSingle == LicenseInv => OneDevicePerKey
BY DEF LicenseInv, HoldingsBacked, Backed, OneDevicePerKey

(* No installation takes its license for valid longer than it was granted, by the server or *)
(* by itself, and no two installations hold the same key from the server, for any number of *)
(* them and of keys. *)
THEOREM LicensesTrue == LicenseSpec => []LicenseSound
<1>1. LicenseInv => LicenseSound BY BackedIsValid, BackedIsSingle DEF LicenseSound
<1> QED BY <1>1, LicenseStart, LicenseStep, PTL DEF LicenseSpec

(* The records, the rows and the files keep their types. *)
THEOREM LicensesTyped == LicenseSpec => []LicenseTypeOK
<1>1. LicenseInv => LicenseTypeOK BY DEF LicenseInv
<1> QED BY <1>1, LicenseStart, LicenseStep, PTL DEF LicenseSpec

(* An activation that writes over a revocation had read it. *)
LEMMA LicenseRevived ==
  ASSUME LicenseInv, LicenseNext, NEW i \in Installs,
         row[i].status = "revoked", row'[i].status = "active"
  PROVE  activation[i].before = "revoked"
<1>1. row'[i] # row[i] OBVIOUS
<1>2. PICK j \in Installs : CommitLicense(j) \/ RevokeHere(j)
  BY <1>1 DEF LicenseNext, NextDay, ChangeRecord, SignHere, AskServer, InsertRecord,
                    WriteOfflineFile, LoseActivation
<1>3. j = i BY <1>1, <1>2 DEF CommitLicense, RevokeHere, LicenseInv, LicenseTypeOK
<1>4. ~RevokeHere(i)
  <2> SUFFICES ASSUME RevokeHere(i) PROVE FALSE OBVIOUS
  <2>1. row'[i] = [row[i] EXCEPT !.status = "revoked"] /\ row[i].key # NoKey
    BY DEF RevokeHere, LicenseInv, LicenseTypeOK
  <2>2. row'[i].status = "revoked" BY <2>1, RowsTyped DEF LicenseInv
  <2> QED BY <2>2
<1>5. CommitLicense(i) BY <1>2, <1>3, <1>4
<1>6. row'[i].status = StatusWritten(i) /\ activation[i].phase = "filed"
  BY <1>5 DEF CommitLicense, LicenseInv, LicenseTypeOK
<1>7. activation[i].before \in {"active", "revoked", "inactive"}
  BY <1>6, PhaseTells DEF LicenseInv, LicenseAnswers, LicenseStatuses
<1>8. activation[i].before # "active" BY <1>6 DEF StatusWritten
<1>9. activation[i].before # "inactive" BY <1>6 DEF LicenseInv, HoldingsBacked, NoRow
<1> QED BY <1>7, <1>8, <1>9

(* A license revoked where it is used comes back only by an activation that had found it *)
(* revoked (activate_license writes the status only where it differs from what it loaded). *)
THEOREM RevocationHolds == LicenseSpec => LocalRevocationHolds
<1> DEFINE Revives(i) == row[i].status = "revoked" /\ row'[i].status = "active"
<1>1. ASSUME LicenseInv, LicenseNext, NEW i \in Installs, Revives(i)
      PROVE  activation[i].before = "revoked"
  BY <1>1, LicenseRevived
<1>2. LicenseInv /\ [LicenseNext]_licenseVars
        => [\A i \in Installs : Revives(i) => activation[i].before = "revoked"]_licenseVars
  BY <1>1
<1>3. LocalRevocationHolds
        <=> [][\A i \in Installs : Revives(i) => activation[i].before = "revoked"]_licenseVars
  BY DEF LocalRevocationHolds
<1> HIDE DEF Revives
<1> QED BY <1>2, <1>3, LicenseStart, LicenseStep, PTL DEF LicenseSpec

--------------------
\* The sessions and tokens of an account.
\* A call, and a cut-off, that is going on.
AuthCall == [kind: {"login", "refresh", "logout"},
             step: {"sent", "working", "consumed", "listed", "answered", "refused"},
             pair: Nat, listed: SUBSET Nat, wrote: SUBSET Nat, lost: BOOLEAN, since: Nat,
             lapped: BOOLEAN, again: BOOLEAN]
Cutting == [step: {"sessions", "tokens"}, kind: {"password", "pause"}, keep: Nat,
            closed: SUBSET Nat, listed: SUBSET Nat]
ServerSteps == {"sent", "working", "consumed", "listed"}

AuthRows ==
  /\ pairs \in Seq(PairRow) /\ Len(pairs) <= MaxPairs
  /\ cuts \in 0..MaxCuts /\ dead \subseteq Numbers
  /\ \A n \in Numbers : pairs[n].family \in 1..n

\* What a call has read and written: what it is about to rotate can still be used, what a
\* revocation has not listed has slipped through it, and a cut-off since it began marked it.
CallFits(u) ==
  \/ u = Quiet
  \/ /\ u \in AuthCall /\ u.pair \in 0..Len(pairs) /\ u.since <= cuts
     /\ u.listed \subseteq Numbers /\ u.wrote \subseteq Numbers
     /\ u.kind # "login" => u.pair # 0
     /\ u.step \in {"sent", "consumed", "refused"} => u.kind = "refresh"
     /\ u.step = "listed" => u.kind # "login"
     /\ u.step = "working" => u.kind = "login"
     /\ u.step = "answered" => u.pair # 0
     /\ u.step \in {"sent", "answered", "refused"} => u.wrote = {}
     /\ u.kind = "refresh" => u.wrote \subseteq {u.pair}
     /\ u.lost => u.step \in ServerSteps
     /\ u.step = "consumed" => u.wrote = {u.pair} /\ Unspent(u.pair)
     /\ u.step = "listed" => \A n \in FamilyOf(u.pair) : n \in u.listed \/ pairs[n].slipped
     /\ u.step \in ServerSteps /\ u.since < cuts => u.lapped
AuthCallsFit == /\ asked = [c \in Callers |-> asked[c]]
                /\ \A c \in Callers : CallFits(asked[c])

\* No two calls have written one token.
TokensApart == \A c, d \in AtServer : c # d => asked[c].wrote \cap asked[d].wrote = {}

\* What a cut-off does not close and revoke was issued while it went on, and marked.
CutFits ==
  \/ cut = NoCut
  \/ /\ cut \in Cutting /\ cuts < MaxCuts /\ cut.listed \subseteq Numbers
     /\ \A n \in Numbers : n \in cut.closed \cup {cut.keep} \/ ~pairs[n].open \/ pairs[n].lapped
     /\ cut.step = "tokens" => \A n \in Numbers :
          n \in cut.listed \cup {cut.keep} \/ pairs[n].revoked \/ pairs[n].lapped

TablesTrue == AuthRows /\ AuthCallsFit /\ TokensApart /\ CutFits
              /\ OneHeir /\ CutOffHolds /\ FamilyEnds

--------------------
(* One call goes a step further, and the tables stay as they are. *)
LEMMA CallGoesOn ==
  ASSUME TablesTrue, NEW c \in Callers, NEW u, asked' = [asked EXCEPT ![c] = u],
         UNCHANGED <<pairs, cut, cuts, dead>>, CallFits(u),
         u.step \in ServerSteps => \A n \in u.wrote : TokenFree(c, n)
  PROVE  TablesTrue'
<1>1. AuthRows' /\ CutFits' /\ OneHeir' /\ CutOffHolds' /\ FamilyEnds'
  BY DEF TablesTrue, AuthRows, CutFits, OneHeir, CutOffHolds, FamilyEnds, Usable, Unspent, Numbers
<1>2. \A d \in Callers : asked'[d] = IF d = c THEN u ELSE asked[d] BY DEF TablesTrue, AuthCallsFit
<1>3. AuthCallsFit'
  <2>1. asked' = [d \in Callers |-> asked'[d]] BY DEF TablesTrue, AuthCallsFit
  <2>2. ASSUME NEW d \in Callers PROVE CallFits(asked[d])'
    <3>1. PICK v : v = asked'[d] OBVIOUS
    <3>2. CallFits(v) BY <1>2, <3>1 DEF TablesTrue, AuthCallsFit
    <3> QED BY <3>1, <3>2 DEF CallFits, Unspent, Numbers, FamilyOf
  <2> QED BY <2>1, <2>2 DEF AuthCallsFit
<1>4. TokensApart' BY <1>2 DEF TablesTrue, TokensApart, AtServer, TokenFree, ServerSteps
<1> QED BY <1>1, <1>3, <1>4 DEF TablesTrue

(* A new row at the end of the table. *)
LEMMA Appended ==
  ASSUME NEW s \in Seq(PairRow), Len(s) = Len(pairs), Len(pairs) \in Nat,
         NEW entry \in PairRow, pairs' = Append(s, entry)
  PROVE  /\ pairs' \in Seq(PairRow) /\ Len(pairs') = Len(pairs) + 1
         /\ pairs'[Len(pairs) + 1] = entry
         /\ \A n \in Numbers : pairs'[n] = s[n]
         /\ Numbers' = Numbers \cup {Len(pairs) + 1} /\ Len(pairs) + 1 \notin Numbers
<1>1. pairs' \in Seq(PairRow) /\ Len(pairs') = Len(pairs) + 1 BY AppendProperties
<1>2. /\ pairs'[Len(pairs) + 1] = entry
      /\ \A n \in Numbers : pairs'[n] = s[n]
  BY AppendProperties DEF Numbers
<1>3. Numbers' = Numbers \cup {Len(pairs) + 1} /\ Len(pairs) + 1 \notin Numbers BY <1>1 DEF Numbers
<1> QED BY <1>1, <1>2, <1>3

--------------------
LEMMA AuthStart1 == AuthInit => TablesTrue
<1> SUFFICES ASSUME AuthInit PROVE TablesTrue OBVIOUS
<1>1. AuthRows BY AuthAssumption DEF AuthInit, AuthRows, Numbers
<1>2. AuthCallsFit /\ TokensApart
  BY DEF AuthInit, AuthCallsFit, CallFits, TokensApart, AtServer, Quiet
<1>3. CutFits /\ OneHeir /\ CutOffHolds /\ FamilyEnds
  BY DEF AuthInit, CutFits, OneHeir, CutOffHolds, FamilyEnds, Numbers
<1> QED BY <1>1, <1>2, <1>3 DEF TablesTrue

LEMMA AskLoginTables ==
  ASSUME TablesTrue, held \in 0..Len(pairs), NEW c \in Callers, AskLogin(c)
  PROVE  TablesTrue'
<1> DEFINE u == Asking("login", "working", 0)
<1>1. cuts \in Nat /\ Len(pairs) \in Nat BY DEF TablesTrue, AuthRows
<1>2. CallFits(u) BY <1>1 DEF CallFits, Asking, AuthCall, Quiet
<1>3. u.wrote = {} BY DEF Asking
<1> HIDE DEF u
<1> QED BY <1>2, <1>3, CallGoesOn DEF AskLogin, Ask, server, u

LEMMA AskRefreshTables ==
  ASSUME TablesTrue, held \in 0..Len(pairs), saved \in 0..Len(pairs), NEW c \in Callers, AskRefresh(c)
  PROVE  TablesTrue'
<1> DEFINE n == IF held # 0 THEN held ELSE saved
           u == Asking("refresh", "sent", n)
<1>1. cuts \in Nat /\ Len(pairs) \in Nat /\ n \in 1..Len(pairs)
  BY DEF TablesTrue, AuthRows, AskRefresh
<1> HIDE DEF n
<1>2. CallFits(u) BY <1>1 DEF CallFits, Asking, AuthCall, Quiet
<1>3. u.wrote = {} BY DEF Asking
<1> HIDE DEF u
<1> QED BY <1>2, <1>3, CallGoesOn DEF AskRefresh, Ask, server, u, n

LEMMA AskLogoutTables ==
  ASSUME TablesTrue, held \in 0..Len(pairs), NEW c \in Callers, AskLogout(c)
  PROVE  TablesTrue'
<1>0. PICK accepted \in BOOLEAN :
        /\ asked[c] = Quiet /\ held # 0
        /\ accepted => TokenFree(c, held)
        /\ Ask(c, [Asking("logout", "listed", held) EXCEPT
                     !.listed = FamilyOf(held), !.wrote = IF accepted THEN {held} ELSE {}])
        /\ UNCHANGED server
  BY DEF AskLogout
<1> DEFINE w == IF accepted THEN {held} ELSE {}
           u == [Asking("logout", "listed", held) EXCEPT !.listed = FamilyOf(held), !.wrote = w]
<1>1. cuts \in Nat /\ held \in Numbers /\ held \in Nat /\ Numbers \subseteq Nat
  BY <1>0 DEF TablesTrue, AuthRows, Numbers
<1>2. w \subseteq {held} /\ (w # {} => TokenFree(c, held)) BY <1>0
<1>3. FamilyOf(held) \subseteq Numbers BY DEF FamilyOf
<1>4. asked' = [asked EXCEPT ![c] = u] BY <1>0 DEF Ask
<1> HIDE DEF w
<1>5. /\ u.kind = "logout" /\ u.step = "listed" /\ u.pair = held /\ u.listed = FamilyOf(held)
      /\ u.wrote = w /\ u.lost = FALSE /\ u.since = cuts
  BY DEF Asking
<1>6. CallFits(u)
  <2>1. u \in AuthCall
    <3> DEFINE f == FamilyOf(held)
    <3>1. f \in SUBSET Nat /\ w \in SUBSET Nat BY <1>1, <1>2, <1>3
    <3> HIDE DEF f
    <3>2. [Asking("logout", "listed", held) EXCEPT !.listed = f, !.wrote = w] \in AuthCall
      BY <1>1, <3>1 DEF AuthCall, Asking
    <3> QED BY <3>2 DEF f
  <2> HIDE DEF u
  <2> QED BY <1>1, <1>2, <1>3, <1>5, <2>1 DEF CallFits, Numbers, FamilyOf
<1> HIDE DEF u
<1>7. \A n \in u.wrote : TokenFree(c, n) BY <1>2, <1>5
<1> QED BY <1>0, <1>4, <1>6, <1>7, CallGoesOn DEF server

LEMMA ConsumeTables ==
  ASSUME TablesTrue, NEW c \in Callers, ConsumeToken(c)
  PROVE  TablesTrue'
<1> DEFINE n == asked[c].pair
           f == FamilyOf(n)
           again == pairs[n].family \in dead
           u == [asked[c] EXCEPT !.step = "consumed", !.wrote = {n}, !.again = again]
           w == IF MayConsume(n) THEN {n} ELSE {}
           v == [asked[c] EXCEPT !.step = "listed", !.listed = f, !.wrote = w]
<1>1. /\ asked[c].step = "sent" /\ TokenFree(c, n)
      /\ \/ MayConsume(n) /\ asked' = [asked EXCEPT ![c] = u]
         \/ asked' = [asked EXCEPT ![c] = v]
      /\ UNCHANGED <<pairs, cut, cuts, dead>>
  BY DEF ConsumeToken, TablesTrue, AuthCallsFit
<1>2. /\ asked[c] \in AuthCall /\ n \in Numbers /\ n \in Nat /\ asked[c].kind = "refresh"
      /\ asked[c].since < cuts => asked[c].lapped
      /\ asked[c].since <= cuts /\ asked[c].listed \subseteq Numbers
  BY <1>1 DEF TablesTrue, AuthCallsFit, CallFits, Quiet, ServerSteps, Numbers, AuthRows, AuthCall
<1>3. f \subseteq Numbers /\ Numbers \subseteq Nat /\ w \subseteq {n} /\ again \in BOOLEAN
  BY DEF FamilyOf, Numbers
<1> HIDE DEF n, w, f, again
<1>4. ASSUME MayConsume(n) PROVE CallFits(u) /\ u.wrote = {n}
  <2>1. /\ u \in AuthCall /\ u.wrote = {n} /\ u.step = "consumed" /\ u.pair = asked[c].pair
        /\ u.listed = asked[c].listed /\ u.kind = asked[c].kind /\ u.since = asked[c].since
        /\ u.lapped = asked[c].lapped
    BY <1>2, <1>3 DEF AuthCall
  <2> HIDE DEF u
  <2> QED BY <1>2, <1>4, <2>1 DEF CallFits, MayConsume, Unspent, Numbers, n, ServerSteps
<1>5. CallFits(v) /\ v.wrote = w
  <2>1. /\ v \in AuthCall /\ v.wrote = w /\ v.step = "listed" /\ v.pair = asked[c].pair
        /\ v.listed = f /\ v.kind = asked[c].kind /\ v.since = asked[c].since
        /\ v.lapped = asked[c].lapped
    BY <1>2, <1>3 DEF AuthCall
  <2> HIDE DEF v
  <2> QED BY <1>2, <1>3, <2>1 DEF CallFits, Numbers, n, f, ServerSteps
<1> HIDE DEF u, v
<1>6. CASE MayConsume(n) /\ asked' = [asked EXCEPT ![c] = u] BY <1>1, <1>4, <1>6, CallGoesOn
<1>7. CASE asked' = [asked EXCEPT ![c] = v] BY <1>1, <1>3, <1>5, <1>7, CallGoesOn
<1> QED BY <1>1, <1>6, <1>7

(* A call ends, or nobody waits for it any longer. *)
LEMMA EndTables ==
  ASSUME TablesTrue, NEW c \in Callers,
         FailCall(c) \/ TakeAnswer(c) \/ TakeRefusal(c) \/ GiveUp(c)
  PROVE  TablesTrue'
<1>1. UNCHANGED <<pairs, cut, cuts, dead>> BY DEF FailCall, TakeAnswer, TakeRefusal, GiveUp, server
<1>2. CASE asked' = [asked EXCEPT ![c] = Quiet]
  <2>1. CallFits(Quiet) /\ Quiet.step \notin ServerSteps BY DEF CallFits, Quiet, ServerSteps
  <2> QED BY <1>1, <1>2, <2>1, CallGoesOn
<1>3. CASE GiveUp(c)
  <2> DEFINE u == [asked[c] EXCEPT !.lost = TRUE]
  <2>1. c \in AtServer /\ asked' = [asked EXCEPT ![c] = u] BY <1>3 DEF GiveUp
  <2>2. asked[c] \in AuthCall /\ CallFits(asked[c]) /\ asked[c].step \in ServerSteps
    BY <2>1 DEF AtServer, TablesTrue, AuthCallsFit, CallFits, Quiet, ServerSteps
  <2>3. CallFits(u) /\ u.wrote = asked[c].wrote /\ u.step = asked[c].step
    BY <2>2 DEF CallFits, AuthCall, Quiet
  <2>4. \A n \in u.wrote : TokenFree(c, n) BY <2>1, <2>3 DEF TablesTrue, TokensApart, TokenFree
  <2> HIDE DEF u
  <2> QED BY <1>1, <2>1, <2>3, <2>4, CallGoesOn
<1> QED BY <1>2, <1>3 DEF FailCall, TakeAnswer, TakeRefusal

(* The answer to a call. *)
LEMMA AnswerGiven ==
  ASSUME AuthCallsFit, NEW c \in Callers, asked[c] \in AuthCall, NEW step \in {"answered", "refused"},
         NEW n \in Nat, Answer(c, step, n)
  PROVE  /\ \A d \in Callers \ {c} : asked'[d] = asked[d]
         /\ asked' = [d \in Callers |-> asked'[d]]
         /\ \/ asked'[c] = Quiet /\ asked[c].lost
            \/ /\ ~asked[c].lost /\ asked'[c] \in AuthCall /\ asked'[c].kind = asked[c].kind
               /\ asked'[c].step = step /\ asked'[c].pair = n /\ asked'[c].listed = {}
               /\ asked'[c].wrote = {} /\ asked'[c].lost = FALSE
               /\ asked'[c].since = asked[c].since
<1> DEFINE u == [asked[c] EXCEPT !.step = step, !.pair = n, !.listed = {}, !.wrote = {}]
           v == IF asked[c].lost THEN Quiet ELSE u
<1>1. asked' = [asked EXCEPT ![c] = v] BY DEF Answer, AuthCallsFit
<1>2. /\ u \in AuthCall /\ u.kind = asked[c].kind /\ u.step = step /\ u.pair = n /\ u.listed = {}
      /\ u.wrote = {} /\ u.lost = asked[c].lost /\ u.since = asked[c].since
  BY DEF AuthCall
<1>3. (v = Quiet /\ asked[c].lost) \/ (~asked[c].lost /\ v = u) OBVIOUS
<1>4. asked[c].lost \in BOOLEAN BY DEF AuthCall
<1> HIDE DEF u, v
<1>5. asked'[c] = v /\ \A d \in Callers \ {c} : asked'[d] = asked[d] BY <1>1 DEF AuthCallsFit
<1>6. asked' = [d \in Callers |-> asked'[d]] BY <1>1 DEF AuthCallsFit
<1> QED BY <1>2, <1>3, <1>4, <1>5, <1>6

(* What another call read and wrote, when rows come and go that have nothing to do with it. *)
LEMMA StillFits ==
  ASSUME NEW u, CallFits(u), Len(pairs) \in Nat, Len(pairs') \in Nat,
         Len(pairs) <= Len(pairs'), cuts' = cuts,
         \A n \in Numbers : pairs'[n].family = pairs[n].family /\ pairs'[n].slipped = pairs[n].slipped,
         u.step = "consumed" => ~pairs'[u.pair].used /\ ~pairs'[u.pair].revoked,
         u.step = "listed" => \A n \in Numbers' \ Numbers :
                                 pairs'[n].family = pairs[u.pair].family => pairs'[n].slipped
  PROVE  CallFits(u)'
<1>1. Numbers \subseteq Numbers' BY DEF Numbers
<1>2. CASE u = Quiet BY <1>2 DEF CallFits
<1>3. CASE u # Quiet
  <2>1. u.step = "listed" => u.pair \in Numbers BY <1>3 DEF CallFits, AuthCall, Numbers
  <2>2. u.step = "listed" => \A n \in FamilyOf(u.pair)' : n \in u.listed \/ pairs'[n].slipped
    BY <1>3, <2>1 DEF CallFits, FamilyOf
  <2>3. u.pair \in 0..Len(pairs') BY <1>3 DEF CallFits, AuthCall
  <2> QED BY <1>1, <1>3, <2>2, <2>3 DEF CallFits, Unspent
<1> QED BY <1>2, <1>3

\* What a call that commits leaves behind: a token is used that it presented, and what it
\* answers is a pair of its own.
AuthCommitted(c) ==
  /\ Len(pairs') \in Nat /\ Len(pairs) <= Len(pairs')
  /\ \A n \in Numbers : pairs'[n].used => \/ pairs[n].used
                                          \/ asked[c].kind = "refresh" /\ n = asked[c].pair
  /\ \A d \in Callers \ {c} : asked'[d] = asked[d]
  /\ \/ asked'[c] = Quiet /\ asked[c].lost
     \/ /\ ~asked[c].lost /\ asked'[c].lost = FALSE /\ asked'[c].kind = asked[c].kind
        /\ \/ asked'[c].step = "refused"
           \/ asked'[c].step = "answered" /\ asked'[c].kind = "logout"
           \/ /\ asked'[c].step = "answered" /\ asked'[c].pair = Len(pairs) + 1
              /\ ~pairs'[Len(pairs) + 1].used

LEMMA CommitLoginTables ==
  ASSUME TablesTrue, NEW c \in Callers, CommitLogin(c)
  PROVE  TablesTrue' /\ AuthCommitted(c)
<1> DEFINE m == Len(pairs) + 1
           mark == asked[c].lapped \/ cut # NoCut
           new == Pair(m, asked[c].since, asked[c].lapped, FALSE)
<1>1. /\ asked[c].step = "working" /\ Len(pairs) < MaxPairs /\ pairs' = Append(pairs, new)
      /\ Answer(c, "answered", m) /\ UNCHANGED <<cut, cuts, dead>>
  BY DEF CommitLogin
<1>2. /\ asked[c] \in AuthCall /\ asked[c].since <= cuts /\ (asked[c].since < cuts => asked[c].lapped)
      /\ Len(pairs) \in Nat /\ cuts \in 0..MaxCuts /\ m \in Nat
  BY <1>1 DEF TablesTrue, AuthRows, AuthCallsFit, CallFits, Quiet, ServerSteps
<1>3. /\ new \in PairRow /\ new.used = FALSE /\ new.family = m /\ new.since = asked[c].since /\ new.slipped = FALSE
      /\ asked[c].since < cuts \/ cut # NoCut => new.lapped
  <2>1. new = [family |-> m, used |-> FALSE, revoked |-> FALSE, open |-> TRUE,
               since |-> asked[c].since, lapped |-> mark, slipped |-> FALSE]
    BY DEF Pair
  <2>2. mark \in BOOLEAN /\ asked[c].since \in 0..MaxCuts /\ m \in 1..MaxPairs
    BY <1>1, <1>2, AuthAssumption DEF AuthCall
  <2>3. asked[c].since < cuts \/ cut # NoCut => mark BY <1>2
  <2> HIDE DEF mark, new, m
  <2> QED BY <2>1, <2>2, <2>3 DEF PairRow
<1> HIDE DEF new
<1>4. /\ pairs' \in Seq(PairRow) /\ Len(pairs') = m /\ pairs'[m] = new
      /\ \A n \in Numbers : pairs'[n] = pairs[n]
      /\ Numbers' = Numbers \cup {m} /\ m \notin Numbers
  BY <1>1, <1>2, <1>3, Appended DEF TablesTrue, AuthRows
<1>5. \A n \in Numbers : pairs[n].family < m /\ n < m BY <1>2 DEF TablesTrue, AuthRows, Numbers
<1>0. Len(pairs) <= Len(pairs') /\ Len(pairs') \in Nat /\ m <= MaxPairs
  BY <1>1, <1>2, <1>4, AuthAssumption
<1> HIDE DEF m
<1>6. AuthRows'
  <2>1. \A n \in Numbers' : pairs'[n].family \in 1..n
    BY <1>2, <1>3, <1>4, <1>5 DEF TablesTrue, AuthRows, m
  <2> QED BY <1>0, <1>1, <1>2, <1>4, <2>1 DEF TablesTrue, AuthRows
<1>7. /\ \A d \in Callers \ {c} : asked'[d] = asked[d]
      /\ asked' = [d \in Callers |-> asked'[d]]
      /\ \/ asked'[c] = Quiet /\ asked[c].lost
         \/ /\ ~asked[c].lost /\ asked'[c].kind = asked[c].kind /\ asked'[c] \in AuthCall /\ asked'[c].step = "answered" /\ asked'[c].pair = m
            /\ asked'[c].listed = {} /\ asked'[c].wrote = {} /\ asked'[c].lost = FALSE
            /\ asked'[c].since = asked[c].since
  BY <1>1, <1>2, AnswerGiven DEF TablesTrue
<1>8. AuthCallsFit'
  <2>1. ASSUME NEW d \in Callers \ {c} PROVE CallFits(asked[d])'
    <3>1. PICK u : u = asked[d] OBVIOUS
    <3>2. CallFits(u) BY <3>1 DEF TablesTrue, AuthCallsFit
    <3>3. u.step \in {"consumed", "listed"} => u.pair \in Numbers
      BY <3>2 DEF CallFits, AuthCall, Quiet, Numbers
    <3>4. u.step = "consumed" => Unspent(u.pair) BY <3>2 DEF CallFits, Quiet
    <3>5. CallFits(u)'
      <4>1. u.step = "consumed" => ~pairs'[u.pair].used /\ ~pairs'[u.pair].revoked
        BY <1>4, <3>3, <3>4 DEF Unspent
      <4>2. u.step = "listed" => \A n \in Numbers' \ Numbers :
                                 pairs'[n].family = pairs[u.pair].family => pairs'[n].slipped
        BY <1>2, <1>3, <1>4, <1>5, <3>3
      <4> QED BY <1>0, <1>1, <1>2, <1>4, <3>2, <4>1, <4>2, StillFits
    <3> QED BY <1>7, <3>1, <3>5 DEF CallFits, Unspent, Numbers, FamilyOf
  <2>2. CallFits(asked[c])' BY <1>1, <1>2, <1>4, <1>7 DEF CallFits, ServerSteps, Numbers, m
  <2> QED BY <1>7, <2>1, <2>2 DEF AuthCallsFit
<1>9. TokensApart' BY <1>7 DEF TablesTrue, TokensApart, AtServer, Quiet
<1>10. CutFits' BY <1>1, <1>3, <1>4 DEF TablesTrue, CutFits, NoCut, Cutting
<1>11. OneHeir' /\ CutOffHolds' /\ FamilyEnds'
  <2>1. OneHeir' BY <1>3, <1>4, <1>5 DEF TablesTrue, OneHeir, Unspent
  <2>2. CutOffHolds' BY <1>1, <1>3, <1>4 DEF TablesTrue, CutOffHolds, Usable, Unspent
  <2>3. m \notin dead BY <1>4 DEF TablesTrue, AuthRows
  <2>4. FamilyEnds' BY <1>1, <1>3, <1>4, <2>3 DEF TablesTrue, FamilyEnds, Usable, Unspent
  <2> QED BY <2>1, <2>2, <2>4
<1>12. AuthCommitted(c) BY <1>0, <1>3, <1>4, <1>7 DEF AuthCommitted, m
<1> QED BY <1>6, <1>8, <1>9, <1>10, <1>11, <1>12 DEF TablesTrue

LEMMA CommitRotationTables ==
  ASSUME TablesTrue, NEW c \in Callers, CommitRotation(c)
  PROVE  TablesTrue' /\ AuthCommitted(c)
<1> DEFINE m == Len(pairs) + 1
           p == asked[c].pair
           over == \/ pairs[p].family \in dead /\ ~asked[c].again
                   \/ \E d \in Callers : /\ asked[d] # Quiet
                                         /\ p \in asked[d].listed
                                         /\ asked[d].step = "listed"
           spent == [pairs[p] EXCEPT !.used = TRUE, !.open = FALSE]
           s == [pairs EXCEPT ![p] = spent]
           new == Pair(pairs[p].family, pairs[p].since, pairs[p].lapped \/ asked[c].lapped,
                       pairs[p].slipped \/ over)
<1>0. /\ asked[c] \in AuthCall /\ p \in Numbers /\ Unspent(p) /\ asked[c].kind = "refresh"
      /\ asked[c].wrote = {p} /\ c \in AtServer
  BY DEF CommitRotation, TablesTrue, AuthCallsFit, CallFits, Quiet, AuthCall, Numbers, AtServer, AuthRows
<1>1. /\ asked[c].step = "consumed" /\ Len(pairs) < MaxPairs /\ pairs' = Append(s, new)
      /\ Answer(c, "answered", m) /\ UNCHANGED <<cut, cuts, dead>>
  BY DEF CommitRotation
<1>2. /\ Len(pairs) \in Nat /\ cuts \in 0..MaxCuts /\ m \in Nat
      /\ pairs[p] \in PairRow /\ pairs[p].family \in 1..p
  BY <1>0 DEF TablesTrue, AuthRows, Numbers
<1> HIDE DEF p, over
<1>3. /\ new \in PairRow /\ new.used = FALSE /\ new.family = pairs[p].family /\ new.since = pairs[p].since
      /\ pairs[p].slipped \/ over => new.slipped
      /\ pairs[p].lapped \/ cut # NoCut => new.lapped
  <2>1. over \in BOOLEAN BY DEF over
  <2> QED BY <1>0, <1>2, <2>1 DEF Pair, PairRow, AuthCall
<1>4. /\ spent \in PairRow /\ spent.used /\ ~spent.open
      /\ spent.family = pairs[p].family /\ spent.slipped = pairs[p].slipped
      /\ spent.since = pairs[p].since /\ spent.lapped = pairs[p].lapped
      /\ spent.revoked = pairs[p].revoked
  BY <1>2 DEF PairRow
<1> HIDE DEF new, spent
<1>5. s \in Seq(PairRow) /\ Len(s) = Len(pairs)
      /\ \A n \in Numbers : s[n] = IF n = p THEN spent ELSE pairs[n]
  BY <1>0, <1>4 DEF TablesTrue, AuthRows, Numbers
<1> HIDE DEF s
<1>6. /\ pairs' \in Seq(PairRow) /\ Len(pairs') = m /\ pairs'[m] = new
      /\ \A n \in Numbers : pairs'[n] = IF n = p THEN spent ELSE pairs[n]
      /\ Numbers' = Numbers \cup {m} /\ m \notin Numbers
  BY <1>1, <1>2, <1>3, <1>5, Appended
<1> HIDE DEF m
<1>7. AuthRows'
  <2>1. \A n \in Numbers : n < m BY <1>2 DEF Numbers, m
  <2>2. \A n \in Numbers' : pairs'[n].family \in 1..n
    <3>1. \A n \in Numbers : pairs[n].family \in 1..n BY DEF TablesTrue, AuthRows
    <3> QED BY <1>0, <1>2, <1>3, <1>4, <1>6, <2>1, <3>1 DEF Numbers, m
  <2>3. m <= MaxPairs BY <1>1, <1>2, AuthAssumption DEF m
  <2> QED BY <1>1, <1>2, <1>6, <2>2, <2>3 DEF TablesTrue, AuthRows
<1>8. /\ \A d \in Callers \ {c} : asked'[d] = asked[d]
      /\ asked' = [d \in Callers |-> asked'[d]]
      /\ \/ asked'[c] = Quiet /\ asked[c].lost
         \/ /\ ~asked[c].lost /\ asked'[c].kind = asked[c].kind /\ asked'[c] \in AuthCall /\ asked'[c].step = "answered" /\ asked'[c].pair = m
            /\ asked'[c].listed = {} /\ asked'[c].wrote = {} /\ asked'[c].lost = FALSE
            /\ asked'[c].since = asked[c].since
  BY <1>0, <1>1, <1>2, AnswerGiven DEF TablesTrue
<1>9. AuthCallsFit'
  <2>1. ASSUME NEW d \in Callers \ {c} PROVE CallFits(asked[d])'
    <3>1. PICK u : u = asked[d] OBVIOUS
    <3>2. CallFits(u) /\ d \in Callers BY <3>1 DEF TablesTrue, AuthCallsFit
    <3>3. u.step \in {"consumed", "listed"} => u.pair \in Numbers
      BY <3>2 DEF CallFits, AuthCall, Quiet, Numbers
    <3>4. u.step = "consumed" => Unspent(u.pair) /\ u.pair # p
      <4> SUFFICES ASSUME u.step = "consumed" PROVE Unspent(u.pair) /\ u.pair # p OBVIOUS
      <4>1. Unspent(u.pair) /\ u.wrote = {u.pair} /\ d \in AtServer
        BY <3>1, <3>2 DEF CallFits, Quiet, AtServer
      <4>2. asked[c].wrote \cap u.wrote = {} BY <1>0, <3>1, <4>1 DEF TablesTrue, TokensApart
      <4> QED BY <1>0, <4>1, <4>2
    <3>5. u.step = "listed" /\ pairs[p].family = pairs[u.pair].family => new.slipped
      <4> SUFFICES ASSUME u.step = "listed", pairs[p].family = pairs[u.pair].family
                   PROVE  new.slipped
        OBVIOUS
      <4>1. p \in u.listed \/ pairs[p].slipped BY <1>0, <3>2 DEF CallFits, Quiet, FamilyOf
      <4>2. p \in u.listed => over BY <3>1, <3>2 DEF over, Quiet
      <4> QED BY <1>3, <4>1, <4>2
    <3>6. CallFits(u)'
      <4>1. Len(pairs) <= Len(pairs') /\ Len(pairs') \in Nat BY <1>2, <1>6 DEF m
      <4>2. \A n \in Numbers : pairs'[n].family = pairs[n].family /\ pairs'[n].slipped = pairs[n].slipped
        BY <1>4, <1>6
      <4>3. u.step = "consumed" => ~pairs'[u.pair].used /\ ~pairs'[u.pair].revoked
        BY <1>6, <3>3, <3>4 DEF Unspent
      <4>4. u.step = "listed" => \A n \in Numbers' \ Numbers :
                                 pairs'[n].family = pairs[u.pair].family => pairs'[n].slipped
        BY <1>3, <1>6, <3>5
      <4> QED BY <1>1, <1>2, <3>2, <4>1, <4>2, <4>3, <4>4, StillFits
    <3> QED BY <1>8, <3>1, <3>6 DEF CallFits, Unspent, Numbers, FamilyOf
  <2>2. CallFits(asked[c])'
    <3>1. asked[c].since <= cuts BY <1>0 DEF TablesTrue, AuthCallsFit, CallFits, Quiet, AuthCall
    <3>2. m # 0 BY <1>2 DEF m
    <3> QED BY <1>1, <1>2, <1>6, <1>8, <3>1, <3>2 DEF CallFits, ServerSteps, Numbers
  <2> QED BY <1>8, <2>1, <2>2 DEF AuthCallsFit
<1>10. TokensApart' BY <1>8 DEF TablesTrue, TokensApart, AtServer, Quiet
<1>11. CutFits'
  <2>1. \A n \in Numbers : /\ pairs'[n].open => pairs[n].open
                           /\ pairs[n].lapped => pairs'[n].lapped
                           /\ pairs[n].revoked => pairs'[n].revoked
    BY <1>4, <1>6
  <2>2. cut # NoCut => pairs'[m].lapped BY <1>3, <1>6
  <2> QED BY <1>1, <1>6, <2>1, <2>2 DEF TablesTrue, CutFits
<1>12. \A n \in Numbers : /\ Unspent(n)' => Unspent(n) /\ n # p
                          /\ Usable(n)' => Usable(n)
                          /\ pairs'[n].family = pairs[n].family
                          /\ pairs'[n].since = pairs[n].since
                          /\ pairs'[n].slipped = pairs[n].slipped
                          /\ pairs'[n].lapped = pairs[n].lapped
  BY <1>4, <1>6 DEF Unspent, Usable
<1>13. Usable(p) BY <1>0 DEF Usable
<1>14. OneHeir' BY <1>0, <1>3, <1>6, <1>12 DEF TablesTrue, OneHeir
<1>15. CutOffHolds' /\ FamilyEnds'
  <2>1. CutOffHolds'
    <3> SUFFICES ASSUME NEW n \in Numbers', Usable(n)', (pairs[n].since < cuts)'
                 PROVE  pairs'[n].lapped
      BY DEF CutOffHolds
    <3>1. CASE n \in Numbers BY <1>1, <1>12, <3>1 DEF TablesTrue, CutOffHolds, Usable, Unspent
    <3>2. CASE n = m BY <1>0, <1>1, <1>3, <1>6, <1>13, <3>2 DEF TablesTrue, CutOffHolds
    <3> QED BY <1>6, <3>1, <3>2
  <2>2. FamilyEnds'
    <3> SUFFICES ASSUME NEW n \in Numbers', Usable(n)', (pairs[n].family \in dead)'
                 PROVE  pairs'[n].slipped
      BY DEF FamilyEnds
    <3>1. CASE n \in Numbers BY <1>1, <1>12, <3>1 DEF TablesTrue, FamilyEnds, Usable, Unspent
    <3>2. CASE n = m BY <1>0, <1>1, <1>3, <1>6, <1>13, <3>2 DEF TablesTrue, FamilyEnds
    <3> QED BY <1>6, <3>1, <3>2
  <2> QED BY <2>1, <2>2
<1>16. AuthCommitted(c) BY <1>0, <1>2, <1>3, <1>6, <1>8 DEF AuthCommitted, m, p
<1> QED BY <1>7, <1>9, <1>10, <1>11, <1>14, <1>15, <1>16 DEF TablesTrue

LEMMA CommitRevocationTables ==
  ASSUME TablesTrue, NEW c \in Callers, CommitRevocation(c)
  PROVE  TablesTrue' /\ AuthCommitted(c)
<1> DEFINE p == asked[c].pair
           gone == asked[c].listed
           spent == IF asked[c].kind = "refresh" THEN asked[c].wrote ELSE {}
           Cleared(n) == [pairs[n] EXCEPT !.revoked = TRUE, !.open = FALSE, !.used = @ \/ n \in spent]
           step == IF asked[c].kind = "logout" THEN "answered" ELSE "refused"
<1>0. /\ asked[c] \in AuthCall /\ p \in Numbers /\ p \in Nat /\ gone \subseteq Numbers
      /\ c \in AtServer /\ asked[c].since <= cuts /\ (step = "refused" => asked[c].kind = "refresh")
      /\ \A n \in FamilyOf(p) : n \in gone \/ pairs[n].slipped
  <2>0. asked[c].step = "listed" BY DEF CommitRevocation
  <2>1. CallFits(asked[c]) /\ asked[c].step = "listed" /\ c \in AtServer /\ asked[c] # Quiet
    BY <2>0 DEF TablesTrue, AuthCallsFit, AtServer, Quiet
  <2>2. /\ asked[c] \in AuthCall /\ p # 0 /\ asked[c].kind # "login" /\ p \in 0..Len(pairs)
        /\ gone \subseteq Numbers /\ asked[c].since <= cuts
        /\ \A n \in FamilyOf(p) : n \in gone \/ pairs[n].slipped
    BY <2>1 DEF CallFits
  <2>3. Len(pairs) \in Nat BY DEF TablesTrue, AuthRows
  <2>4. p \in Numbers /\ p \in Nat BY <2>2, <2>3 DEF Numbers
  <2>5. step = "refused" => asked[c].kind = "refresh" BY <2>2 DEF AuthCall
  <2> QED BY <2>1, <2>2, <2>4, <2>5
<1>1. /\ asked[c].step = "listed" /\ \A n \in gone : TokenFree(c, n)
      /\ dead' = dead \cup {pairs[p].family}
      /\ Answer(c, step, p) /\ UNCHANGED <<cut, cuts>>
  BY DEF CommitRevocation
<1>a. pairs' = [n \in Numbers |-> IF n \in gone THEN Cleared(n) ELSE pairs[n]]
  BY DEF CommitRevocation
<1>2. Len(pairs) \in Nat /\ \A n \in Numbers : pairs[n] \in PairRow
  BY DEF TablesTrue, AuthRows, Numbers
<1>3. \A n \in Numbers :
        /\ pairs'[n] \in PairRow /\ pairs'[n].family = pairs[n].family
        /\ pairs'[n].since = pairs[n].since
        /\ pairs'[n].lapped = pairs[n].lapped /\ pairs'[n].slipped = pairs[n].slipped
        /\ n \in gone => pairs'[n].revoked /\ ~pairs'[n].open
        /\ pairs'[n].used => pairs[n].used \/ n \in spent
        /\ n \notin gone => pairs'[n] = pairs[n]
  <2> TAKE n \in Numbers
  <2> DEFINE now == pairs[n].used \/ n \in spent
             entry == [pairs[n] EXCEPT !.revoked = TRUE, !.open = FALSE, !.used = now]
  <2>1. now \in BOOLEAN OBVIOUS
  <2>2. pairs'[n] = IF n \in gone THEN entry ELSE pairs[n] BY <1>a
  <2> HIDE DEF now
  <2>3. /\ entry \in PairRow /\ entry.family = pairs[n].family /\ entry.since = pairs[n].since
        /\ entry.lapped = pairs[n].lapped /\ entry.slipped = pairs[n].slipped
        /\ entry.revoked /\ ~entry.open /\ entry.used = now
    BY <1>2, <2>1 DEF PairRow
  <2> HIDE DEF entry, spent
  <2> QED BY <1>2, <2>2, <2>3 DEF now
<1>4. pairs' \in Seq(PairRow) /\ Len(pairs') = Len(pairs) /\ Numbers' = Numbers
  <2>1. pairs' = [n \in 1..Len(pairs) |-> pairs'[n]] /\ pairs' \in [1..Len(pairs) -> PairRow]
    BY <1>a, <1>3 DEF Numbers
  <2>2. pairs' \in Seq(PairRow) BY <1>2, <2>1, IsASeq
  <2>3. Len(pairs') = Len(pairs) BY <1>2, <2>1, <2>2, LenProperties
  <2> QED BY <2>2, <2>3 DEF Numbers
<1> HIDE DEF gone, p
<1>5. AuthRows'
  <2>1. \A n \in Numbers : pairs[n].family \in 1..n BY DEF TablesTrue, AuthRows
  <2>2. \A n \in Numbers : pairs'[n].family \in 1..n BY <1>3, <2>1
  <2>3. pairs[p].family \in Numbers BY <1>0, <1>2, <2>1 DEF Numbers
  <2>4. dead' \subseteq Numbers' BY <1>1, <1>4, <2>3 DEF TablesTrue, AuthRows
  <2> QED BY <1>1, <1>4, <2>2, <2>4 DEF TablesTrue, AuthRows
<1>6. /\ \A d \in Callers \ {c} : asked'[d] = asked[d]
      /\ asked' = [d \in Callers |-> asked'[d]]
      /\ \/ asked'[c] = Quiet /\ asked[c].lost
         \/ /\ ~asked[c].lost /\ asked'[c] \in AuthCall /\ asked'[c].step = step /\ asked'[c].pair = p
            /\ asked'[c].listed = {} /\ asked'[c].wrote = {} /\ asked'[c].lost = FALSE
            /\ asked'[c].since = asked[c].since /\ asked'[c].kind = asked[c].kind
  <2>1. step \in {"answered", "refused"} OBVIOUS
  <2> HIDE DEF step
  <2> QED BY <1>0, <1>1, <2>1, AnswerGiven DEF TablesTrue
<1>7. AuthCallsFit'
  <2>1. ASSUME NEW d \in Callers \ {c} PROVE CallFits(asked[d])'
    <3>1. PICK u : u = asked[d] OBVIOUS
    <3>2. CallFits(u) /\ d \in Callers BY <3>1 DEF TablesTrue, AuthCallsFit
    <3>3. u.step = "consumed" => ~pairs'[u.pair].used /\ ~pairs'[u.pair].revoked
      <4> SUFFICES ASSUME u.step = "consumed"
                   PROVE  ~pairs'[u.pair].used /\ ~pairs'[u.pair].revoked
        OBVIOUS
      <4>1. /\ u.wrote = {u.pair} /\ Unspent(u.pair) /\ u.pair \in Numbers
            /\ d \in AtServer
        BY <3>1, <3>2 DEF CallFits, Quiet, AtServer
      <4>2. u.pair \notin gone BY <1>1, <3>1, <4>1 DEF TokenFree
      <4> QED BY <1>3, <4>1, <4>2 DEF Unspent
    <3>4. CallFits(u)'
      <4>1. Len(pairs) <= Len(pairs') /\ Len(pairs') \in Nat BY <1>2, <1>4
      <4>2. \A n \in Numbers : pairs'[n].family = pairs[n].family /\ pairs'[n].slipped = pairs[n].slipped
        BY <1>3
      <4>3. u.step = "listed" => \A n \in Numbers' \ Numbers :
                                 pairs'[n].family = pairs[u.pair].family => pairs'[n].slipped
        BY <1>4
      <4> QED BY <1>1, <1>2, <3>2, <3>3, <4>1, <4>2, <4>3, StillFits
    <3> QED BY <1>6, <3>1, <3>4 DEF CallFits, Unspent, Numbers, FamilyOf
  <2>2. CallFits(asked[c])'
    <3>1. PICK u : u = asked'[c] OBVIOUS
    <3>2. step \in {"answered", "refused"} /\ p # 0 BY <1>0 DEF Numbers
    <3> HIDE DEF step
    <3>3. \/ u = Quiet
          \/ /\ u \in AuthCall /\ u.step = step /\ u.pair = p /\ u.listed = {} /\ u.wrote = {}
             /\ u.lost = FALSE /\ u.since = asked[c].since /\ u.kind = asked[c].kind
      BY <1>6, <3>1
    <3>4. p \in 0..Len(pairs') /\ asked[c].since <= cuts' BY <1>0, <1>1, <1>2, <1>4 DEF Numbers
    <3>5. CallFits(u)' BY <1>0, <3>2, <3>3, <3>4 DEF CallFits, ServerSteps
    <3> QED BY <3>1, <3>5 DEF CallFits, Unspent, Numbers, FamilyOf
  <2> QED BY <1>6, <2>1, <2>2 DEF AuthCallsFit
<1>8. TokensApart' BY <1>6 DEF TablesTrue, TokensApart, AtServer, Quiet
<1>9. CutFits'
  <2>1. \A n \in Numbers : /\ pairs'[n].open => pairs[n].open
                           /\ pairs[n].lapped => pairs'[n].lapped
                           /\ pairs[n].revoked => pairs'[n].revoked
    BY <1>3
  <2> QED BY <1>1, <1>4, <2>1 DEF TablesTrue, CutFits
<1>10. \A n \in Numbers : /\ ~pairs'[n].used /\ ~pairs'[n].revoked
                             => ~pairs[n].used /\ ~pairs[n].revoked
                          /\ pairs'[n].open \/ (~pairs'[n].used /\ ~pairs'[n].revoked)
                             => n \notin gone /\ (pairs[n].open \/ (~pairs[n].used /\ ~pairs[n].revoked))
  BY <1>3
<1>11. OneHeir' BY <1>3, <1>4, <1>10 DEF TablesTrue, OneHeir, Unspent
<1>12. CutOffHolds' BY <1>1, <1>3, <1>4, <1>10 DEF TablesTrue, CutOffHolds, Usable, Unspent
<1>13. FamilyEnds'
  <2> SUFFICES ASSUME NEW n \in Numbers, Usable(n)', pairs'[n].family \in dead'
               PROVE  pairs'[n].slipped
    BY <1>4 DEF FamilyEnds
  <2>0. /\ pairs'[n].family = pairs[n].family /\ pairs'[n].slipped = pairs[n].slipped
        /\ n \notin gone => pairs'[n] = pairs[n]
    BY <1>3
  <2>1. n \notin gone /\ Usable(n) BY <1>10 DEF Usable, Unspent
  <2>2. CASE pairs[n].family \in dead BY <2>0, <2>1, <2>2 DEF TablesTrue, FamilyEnds
  <2>3. CASE pairs[n].family = pairs[p].family BY <1>0, <2>0, <2>1, <2>3 DEF FamilyOf
  <2>4. pairs[n].family \in dead \cup {pairs[p].family} BY <1>1, <2>0
  <2> QED BY <2>2, <2>3, <2>4
<1>14. AuthCommitted(c)
  <2>1. spent \subseteq {p} /\ (spent # {} => asked[c].kind = "refresh")
    <3>1. CallFits(asked[c]) /\ asked[c] # Quiet BY <1>1 DEF TablesTrue, AuthCallsFit, Quiet
    <3> QED BY <3>1 DEF CallFits, p
  <2>2. (step = "answered" /\ asked[c].kind = "logout") \/ step = "refused" OBVIOUS
  <2> HIDE DEF spent, step
  <2> QED BY <1>2, <1>3, <1>4, <1>6, <2>1, <2>2 DEF AuthCommitted, p
<1> QED BY <1>5, <1>7, <1>8, <1>9, <1>11, <1>12, <1>13, <1>14 DEF TablesTrue

--------------------
(* A cut-off begins, goes on, or fails; the account is active again. *)
LEMMA CutGoesOnTables ==
  ASSUME TablesTrue, held \in 0..Len(pairs), BeginCut \/ CutTokens \/ FailCut \/ Reactivate
  PROVE  TablesTrue'
<1>1. UNCHANGED <<pairs, asked, cuts, dead>> BY DEF BeginCut, CutTokens, FailCut, Reactivate
<1>2. /\ AuthRows' /\ AuthCallsFit' /\ TokensApart' /\ OneHeir' /\ CutOffHolds' /\ FamilyEnds'
  <2>1. AuthCallsFit' BY <1>1 DEF TablesTrue, AuthCallsFit, CallFits, Unspent, Numbers, FamilyOf
  <2> QED
    BY <1>1, <2>1 DEF TablesTrue, AuthRows, TokensApart, AtServer, OneHeir, CutOffHolds, FamilyEnds,
                      Usable, Unspent, Numbers
<1>3. CutFits'
  <2>1. CASE BeginCut
    <3>1. PICK kind \in {"password", "pause"}, keep \in {0, held} :
            /\ cut' = [step |-> "sessions", kind |-> kind, keep |-> keep,
                       closed |-> {n \in Numbers : pairs[n].open} \ {keep}, listed |-> {}]
            /\ cuts < MaxCuts
      BY <2>1 DEF BeginCut
    <3>2. keep \in Nat /\ {n \in Numbers : pairs[n].open} \ {keep} \in SUBSET Nat
      BY DEF Numbers, TablesTrue, AuthRows
    <3>3. cut' \in Cutting BY <3>1, <3>2 DEF Cutting
    <3> QED BY <1>1, <3>1, <3>3 DEF CutFits, Numbers
  <2>2. CASE CutTokens
    <3> DEFINE more == TokensToRevoke(cut.keep)
    <3>1. cut.step = "sessions" /\ cut' = [cut EXCEPT !.step = "tokens", !.listed = more]
      BY <2>2 DEF CutTokens
    <3>2. cut \in Cutting /\ cuts < MaxCuts BY <3>1 DEF TablesTrue, CutFits, NoCut
    <3>3. more \in SUBSET Nat /\ more \subseteq Numbers BY DEF TokensToRevoke, Numbers
    <3>4. \A n \in Numbers : n \in more \cup {cut.keep} \/ pairs[n].revoked BY DEF TokensToRevoke
    <3> HIDE DEF more
    <3>5. cut' \in Cutting /\ cut'.listed = more /\ cut'.keep = cut.keep /\ cut'.closed = cut.closed
      BY <3>1, <3>2, <3>3 DEF Cutting
    <3>6. cut # NoCut BY <3>1 DEF NoCut
    <3> QED BY <1>1, <3>2, <3>3, <3>4, <3>5, <3>6 DEF TablesTrue, CutFits, Numbers
  <2>3. CASE FailCut \/ Reactivate
    BY <1>1, <2>3 DEF FailCut, Reactivate, TablesTrue, CutFits, Numbers
  <2> QED BY <2>1, <2>2, <2>3
<1> QED BY <1>2, <1>3 DEF TablesTrue

LEMMA CommitCutTables ==
  ASSUME TablesTrue, CommitCut
  PROVE  TablesTrue' /\ Len(pairs') = Len(pairs)
<1>1. /\ cut.step = "tokens" /\ cut' = NoCut /\ cuts' = cuts + 1 /\ dead' = dead
      /\ \A n \in cut.listed, c \in AtServer : n \notin asked[c].wrote
  BY DEF CommitCut
<1>a. /\ pairs' = [n \in Numbers |->
                    [pairs[n] EXCEPT !.open = @ /\ n \notin cut.closed,
                                     !.revoked = @ \/ n \in cut.listed,
                                     !.since = IF n = cut.keep THEN cuts + 1 ELSE @]]
      /\ asked' = [c \in Callers |-> IF c \in AtServer THEN [asked[c] EXCEPT !.lapped = TRUE]
                                     ELSE asked[c]]
  BY DEF CommitCut
<1>2. /\ Len(pairs) \in Nat /\ cuts \in Nat /\ cuts \in 0..MaxCuts /\ cuts < MaxCuts
      /\ \A n \in Numbers : pairs[n] \in PairRow /\ pairs[n].family \in 1..n
      /\ \A n \in Numbers : n \in cut.closed \cup {cut.keep} \/ ~pairs[n].open \/ pairs[n].lapped
      /\ \A n \in Numbers : n \in cut.listed \cup {cut.keep} \/ pairs[n].revoked \/ pairs[n].lapped
  <2>1. cut # NoCut BY <1>1 DEF NoCut
  <2>2. /\ cuts < MaxCuts
        /\ \A n \in Numbers : n \in cut.closed \cup {cut.keep} \/ ~pairs[n].open \/ pairs[n].lapped
        /\ \A n \in Numbers : n \in cut.listed \cup {cut.keep} \/ pairs[n].revoked \/ pairs[n].lapped
    BY <1>1, <2>1 DEF TablesTrue, CutFits
  <2>3. Len(pairs) \in Nat /\ cuts \in 0..MaxCuts /\ \A n \in Numbers : pairs[n] \in PairRow
    BY DEF TablesTrue, AuthRows, Numbers
  <2>4. cuts \in Nat /\ \A n \in Numbers : pairs[n].family \in 1..n BY DEF TablesTrue, AuthRows
  <2> QED BY <2>2, <2>3, <2>4
<1>3. \A n \in Numbers :
        /\ pairs'[n] \in PairRow /\ pairs'[n].family = pairs[n].family
        /\ pairs'[n].lapped = pairs[n].lapped /\ pairs'[n].slipped = pairs[n].slipped
        /\ pairs'[n].open <=> pairs[n].open /\ n \notin cut.closed
        /\ pairs'[n].revoked <=> pairs[n].revoked \/ n \in cut.listed
        /\ pairs'[n].used = pairs[n].used
        /\ n = cut.keep => pairs'[n].since = cuts + 1
  <2> TAKE n \in Numbers
  <2> DEFINE open == pairs[n].open /\ n \notin cut.closed
             revoked == pairs[n].revoked \/ n \in cut.listed
             start == IF n = cut.keep THEN cuts + 1 ELSE pairs[n].since
             entry == [pairs[n] EXCEPT !.open = open, !.revoked = revoked, !.since = start]
  <2>1. pairs'[n] = entry BY <1>a
  <2>2. /\ open \in BOOLEAN /\ revoked \in BOOLEAN
        /\ start \in 0..MaxCuts /\ (n = cut.keep => start = cuts + 1)
    BY <1>2, AuthAssumption DEF PairRow
  <2>3. /\ open <=> pairs[n].open /\ n \notin cut.closed
        /\ revoked <=> pairs[n].revoked \/ n \in cut.listed
    OBVIOUS
  <2> HIDE DEF open, revoked, start
  <2>4. /\ entry \in PairRow /\ entry.family = pairs[n].family /\ entry.lapped = pairs[n].lapped
        /\ entry.slipped = pairs[n].slipped /\ entry.open = open /\ entry.revoked = revoked
        /\ entry.used = pairs[n].used /\ entry.since = start
    BY <1>2, <2>2 DEF PairRow
  <2> HIDE DEF entry
  <2> QED BY <2>1, <2>2, <2>3, <2>4
<1>4. pairs' \in Seq(PairRow) /\ Len(pairs') = Len(pairs) /\ Numbers' = Numbers
  <2>1. pairs' = [n \in 1..Len(pairs) |-> pairs'[n]] /\ pairs' \in [1..Len(pairs) -> PairRow]
    BY <1>a, <1>3 DEF Numbers
  <2>2. pairs' \in Seq(PairRow) BY <1>2, <2>1, IsASeq
  <2>3. Len(pairs') = Len(pairs) BY <1>2, <2>1, <2>2, LenProperties
  <2> QED BY <2>2, <2>3 DEF Numbers
<1>5. AuthRows'
  <2>1. \A n \in Numbers : pairs'[n].family \in 1..n BY <1>2, <1>3
  <2>2. cuts' \in 0..MaxCuts BY <1>1, <1>2, AuthAssumption
  <2> QED BY <1>1, <1>4, <2>1, <2>2 DEF TablesTrue, AuthRows
<1>6. ASSUME NEW c \in Callers PROVE CallFits(asked[c])'
  <2> DEFINE told == [asked[c] EXCEPT !.lapped = TRUE]
  <2>1. PICK u : u = asked'[c] OBVIOUS
  <2>2. u = IF c \in AtServer THEN told ELSE asked[c] BY <1>a, <2>1
  <2>3. CallFits(asked[c]) BY DEF TablesTrue, AuthCallsFit
  <2>4. CASE c \in AtServer
    <3>1. asked[c] \in AuthCall /\ asked[c] # Quiet /\ asked[c].step \in ServerSteps
      BY <2>3, <2>4 DEF AtServer, CallFits, Quiet, ServerSteps
    <3>2. /\ told \in AuthCall /\ told.kind = asked[c].kind /\ told.step = asked[c].step
          /\ told.pair = asked[c].pair /\ told.listed = asked[c].listed
          /\ told.wrote = asked[c].wrote /\ told.lost = asked[c].lost
          /\ told.since = asked[c].since /\ told.lapped = TRUE
      BY <3>1 DEF AuthCall
    <3>6. u = told BY <2>2, <2>4
    <3> HIDE DEF told
    <3>3. u.step = "consumed" => ~pairs'[u.pair].used /\ ~pairs'[u.pair].revoked
      <4> SUFFICES ASSUME u.step = "consumed"
                   PROVE  ~pairs'[u.pair].used /\ ~pairs'[u.pair].revoked
        OBVIOUS
      <4>1. /\ asked[c].wrote = {u.pair} /\ Unspent(u.pair) /\ u.pair \in Numbers
        BY <2>3, <3>1, <3>2, <3>6 DEF CallFits
      <4>2. u.pair \notin cut.listed BY <1>1, <2>4, <4>1
      <4> QED BY <1>3, <4>1, <4>2 DEF Unspent
    <3>4. u.step = "listed" =>
             \A n \in FamilyOf(u.pair)' : n \in u.listed \/ pairs'[n].slipped
      <4> SUFFICES ASSUME u.step = "listed", NEW n \in FamilyOf(u.pair)'
                   PROVE  n \in u.listed \/ pairs'[n].slipped
        OBVIOUS
      <4>1. u.pair \in Numbers BY <1>2, <2>3, <3>1, <3>2, <3>6 DEF CallFits, AuthCall, Numbers
      <4>3. n \in Numbers' /\ pairs'[n].family = pairs'[u.pair].family BY DEF FamilyOf
      <4>2. n \in Numbers /\ n \in FamilyOf(u.pair) BY <1>3, <1>4, <4>1, <4>3 DEF FamilyOf
      <4> QED BY <1>3, <2>3, <3>1, <3>2, <3>6, <4>2 DEF CallFits
    <3>5. CallFits(u)'
      <4>0. asked[c].since <= cuts /\ asked[c].since \in Nat BY <2>3, <3>1 DEF CallFits, AuthCall
      <4>1. u.since <= cuts' BY <1>1, <1>2, <3>2, <3>6, <4>0
      <4>2. u \notin {Quiet} BY <3>1, <3>2, <3>6 DEF Quiet, ServerSteps
      <4>3. /\ u.pair \in 0..Len(pairs') /\ u.listed \subseteq Numbers' /\ u.wrote \subseteq Numbers'
            /\ u.kind # "login" => u.pair # 0
            /\ u.step \in {"sent", "consumed", "refused"} => u.kind = "refresh"
            /\ u.step = "listed" => u.kind # "login"
            /\ u.step = "working" => u.kind = "login"
            /\ u.step = "answered" => u.pair # 0
            /\ u.step \in {"sent", "answered", "refused"} => u.wrote = {}
            /\ u.kind = "refresh" => u.wrote \subseteq {u.pair}
            /\ u.lost => u.step \in ServerSteps
            /\ u.step = "consumed" => u.wrote = {u.pair}
        BY <1>4, <2>3, <3>1, <3>2, <3>6 DEF CallFits
      <4> QED BY <3>2, <3>6, <3>3, <3>4, <4>1, <4>3 DEF CallFits, Unspent
    <3> QED BY <2>1, <3>5 DEF CallFits, Unspent, Numbers, FamilyOf
  <2>5. CASE c \notin AtServer
    <3>1. u.step \notin ServerSteps /\ u = asked[c] BY <2>2, <2>5 DEF AtServer, ServerSteps
    <3>2. CallFits(u) BY <2>3, <3>1
    <3>4. CallFits(u)'
      <4>1. CASE u = Quiet BY <4>1 DEF CallFits
      <4>2. CASE u # Quiet
        <5>1. u.since <= cuts /\ u.since \in Nat BY <3>2, <4>2 DEF CallFits, AuthCall
        <5>2. u.since <= cuts' BY <1>1, <1>2, <5>1
        <5> QED BY <1>4, <3>1, <3>2, <4>2, <5>2 DEF CallFits, ServerSteps
      <4> QED BY <4>1, <4>2
    <3> QED BY <2>1, <3>4 DEF CallFits, Unspent, Numbers, FamilyOf
  <2> QED BY <2>4, <2>5
<1>7. AuthCallsFit' BY <1>a, <1>6 DEF AuthCallsFit
<1>8. TokensApart'
  <2>1. ASSUME NEW c \in Callers
        PROVE  asked'[c].step = asked[c].step /\ (c \in AtServer => asked'[c].wrote = asked[c].wrote)
    <3>1. c \in AtServer => asked[c] \in AuthCall
      BY DEF AtServer, TablesTrue, AuthCallsFit, CallFits, Quiet
    <3> QED BY <1>a, <3>1 DEF AuthCall
  <2> QED BY <2>1 DEF TablesTrue, TokensApart, AtServer
<1>9. CutFits' BY <1>1 DEF CutFits
<1>10. OneHeir' BY <1>3, <1>4 DEF TablesTrue, OneHeir, Unspent
<1>11. CutOffHolds'
  <2> SUFFICES ASSUME NEW n \in Numbers, Usable(n)', pairs'[n].since < cuts'
               PROVE  pairs'[n].lapped
    BY <1>4 DEF CutOffHolds
  <2>0. /\ n = cut.keep => pairs'[n].since = cuts + 1
        /\ pairs'[n].lapped = pairs[n].lapped
        /\ pairs'[n].open <=> pairs[n].open /\ n \notin cut.closed
        /\ pairs'[n].revoked <=> pairs[n].revoked \/ n \in cut.listed
    BY <1>3
  <2>1. n # cut.keep BY <1>1, <1>2, <2>0
  <2> QED BY <1>2, <2>0, <2>1 DEF Usable, Unspent
<1>12. FamilyEnds'
  <2> SUFFICES ASSUME NEW n \in Numbers, Usable(n)', pairs'[n].family \in dead'
               PROVE  pairs'[n].slipped
    BY <1>4 DEF FamilyEnds
  <2>1. /\ pairs'[n].family = pairs[n].family /\ pairs'[n].slipped = pairs[n].slipped
        /\ pairs'[n].open => pairs[n].open
        /\ pairs[n].revoked => pairs'[n].revoked
        /\ pairs'[n].used = pairs[n].used
    BY <1>3
  <2> QED BY <1>1, <2>1 DEF TablesTrue, FamilyEnds, Usable, Unspent
<1> QED BY <1>4, <1>5, <1>7, <1>8, <1>9, <1>10, <1>11, <1>12 DEF TablesTrue

LEMMA CrashTables ==
  ASSUME TablesTrue, CrashClient
  PROVE  TablesTrue'
<1>1. /\ asked' = [c \in Callers |-> IF c \in AtServer THEN [asked[c] EXCEPT !.lost = TRUE]
                                     ELSE Quiet]
      /\ UNCHANGED <<pairs, cut, cuts, dead>>
  BY DEF CrashClient, server
<1>2. AuthRows' /\ CutFits' /\ OneHeir' /\ CutOffHolds' /\ FamilyEnds'
  BY <1>1 DEF TablesTrue, AuthRows, CutFits, OneHeir, CutOffHolds, FamilyEnds, Usable, Unspent, Numbers
<1>3. ASSUME NEW c \in Callers
      PROVE  /\ CallFits(asked[c])'
             /\ c \in AtServer => asked'[c].wrote = asked[c].wrote
             /\ c \notin AtServer => asked'[c] = Quiet
  <2> DEFINE told == [asked[c] EXCEPT !.lost = TRUE]
  <2>1. CASE c \in AtServer
    <3>1. asked[c] \in AuthCall /\ CallFits(asked[c]) /\ asked[c].step \in ServerSteps
      BY <2>1 DEF AtServer, TablesTrue, AuthCallsFit, CallFits, Quiet, ServerSteps
    <3>2. CallFits(told) /\ told.wrote = asked[c].wrote BY <3>1 DEF CallFits, AuthCall, Quiet
    <3>3. asked'[c] = told BY <1>1, <2>1
    <3> HIDE DEF told
    <3> QED BY <1>1, <2>1, <3>2, <3>3 DEF CallFits, Unspent, Numbers, FamilyOf
  <2>2. CASE c \notin AtServer BY <1>1, <2>2 DEF CallFits
  <2> QED BY <2>1, <2>2
<1>4. AuthCallsFit' BY <1>1, <1>3 DEF AuthCallsFit
<1>5. TokensApart'
  <2>1. \A c \in Callers : c \in AtServer' => c \in AtServer BY <1>3 DEF AtServer, Quiet
  <2> QED BY <1>3, <2>1 DEF TablesTrue, TokensApart, AtServer
<1> QED BY <1>2, <1>4, <1>5 DEF TablesTrue

--------------------
\* The desktop program, until it is killed: one thread refreshes, and nobody else has the
\* token it presents, nor one that was answered to a thread.
Presents(c) == asked[c] # Quiet /\ asked[c].kind = "refresh"
               /\ asked[c].step \in {"sent", "consumed", "listed"}
Brings(c) == asked[c].step = "answered" /\ asked[c].kind # "logout"
Refreshes(c) == asked[c] # Quiet /\ asked[c].kind = "refresh" /\ ~asked[c].lost
Bearers == {c \in Callers : Presents(c) \/ Brings(c)}
Strays == {c \in Callers : (Presents(c) /\ asked[c].lost) \/ Brings(c)}
OneRefreshes == \A c, d \in Callers : Refreshes(c) /\ Refreshes(d) => c = d
StraysApart == \A c \in Strays : held # asked[c].pair
HoldersApart == \A c, d \in Bearers : c # d => asked[c].pair # asked[d].pair
FreshTokens == \A c \in Callers : asked[c].step = "sent" \/ Brings(c)
                                  => ~pairs[asked[c].pair].used
UsedByOne == held # 0 /\ pairs[held].used => \E c \in Callers : Refreshes(c)
DesktopAlone == app = "desktop" /\ ~crashed =>
  /\ ~reused /\ saved = held
  /\ OneRefreshes /\ StraysApart /\ HoldersApart /\ FreshTokens /\ UsedByOne
ClientRows == /\ app \in {"desktop", "browser"} /\ crashed \in BOOLEAN /\ reused \in BOOLEAN
              /\ held \in 0..Len(pairs) /\ saved \in 0..Len(pairs)
AuthInv == TablesTrue /\ ClientRows /\ DesktopAlone

--------------------
(* What a call is, as far as the client is concerned. *)
LEMMA CallFacts ==
  ASSUME TablesTrue, NEW c \in Callers, asked[c] # Quiet
  PROVE  /\ asked[c] \in AuthCall /\ asked[c].pair \in Nat /\ asked[c].pair <= Len(pairs)
         /\ asked[c].kind # "login" => asked[c].pair # 0
         /\ asked[c].step \in {"sent", "consumed", "refused"} => asked[c].kind = "refresh"
         /\ asked[c].step = "answered" => asked[c].pair # 0
         /\ asked[c].step = "working" => asked[c].kind = "login"
         /\ asked[c].kind = "refresh" => asked[c].wrote \subseteq {asked[c].pair}
         /\ asked[c].lost => asked[c].step \in ServerSteps
<1>1. CallFits(asked[c]) BY DEF TablesTrue, AuthCallsFit
<1>2. Len(pairs) \in Nat BY DEF TablesTrue, AuthRows
<1> QED BY <1>1, <1>2 DEF CallFits, AuthCall

LEMMA HoldersHave ==
  ASSUME TablesTrue, NEW c \in Callers, Presents(c) \/ Brings(c)
  PROVE  asked[c] # Quiet /\ asked[c].pair \in Nat /\ asked[c].pair # 0 /\ asked[c].pair <= Len(pairs)
<1>1. asked[c] # Quiet BY DEF Presents, Brings, Quiet
<1> QED BY <1>1, CallFacts DEF Presents, Brings

\* A call goes on as what it was, or one that nothing depends on begins.
LEMMA AloneAskLogin ==
  ASSUME AuthInv, NEW c \in Callers, AskLogin(c) \/ AskLogout(c)
  PROVE  DesktopAlone'
<1>1. PICK u : /\ asked' = [asked EXCEPT ![c] = u] /\ u.kind # "refresh"
               /\ u.step \in {"working", "listed"}
  <2>1. CASE AskLogin(c)
    <3> DEFINE u == Asking("login", "working", 0)
    <3>1. asked' = [asked EXCEPT ![c] = u] BY <2>1 DEF AskLogin, Ask
    <3>2. u.kind # "refresh" /\ u.step \in {"working", "listed"} BY DEF Asking
    <3> HIDE DEF u
    <3> QED BY <3>1, <3>2
  <2>2. CASE AskLogout(c)
    <3>1. PICK accepted \in BOOLEAN :
            Ask(c, [Asking("logout", "listed", held) EXCEPT
                     !.listed = FamilyOf(held), !.wrote = IF accepted THEN {held} ELSE {}])
      BY <2>2 DEF AskLogout
    <3> DEFINE w == IF accepted THEN {held} ELSE {}
               u == [Asking("logout", "listed", held) EXCEPT !.listed = FamilyOf(held), !.wrote = w]
    <3>2. asked' = [asked EXCEPT ![c] = u] BY <3>1 DEF Ask
    <3> HIDE DEF w
    <3>3. u.kind # "refresh" /\ u.step \in {"working", "listed"} BY DEF Asking
    <3> HIDE DEF u
    <3> QED BY <3>2, <3>3
  <2> QED BY <2>1, <2>2
<1>2. asked[c] = Quiet /\ UNCHANGED <<app, held, saved, crashed, pairs, reused>>
  BY DEF AskLogin, AskLogout, client, server
<1>3. asked'[c] = u /\ \A d \in Callers \ {c} : asked'[d] = asked[d]
  BY <1>1 DEF AuthInv, TablesTrue, AuthCallsFit
<1>4. \A d \in Callers : /\ Refreshes(d)' <=> Refreshes(d)
                         /\ Presents(d)' <=> Presents(d)
                         /\ Brings(d)' <=> Brings(d)
                         /\ (asked[d].step = "sent")' <=> asked[d].step = "sent"
                         /\ Presents(d) \/ Brings(d) \/ asked[d].step = "sent" => d # c
  BY <1>1, <1>2, <1>3 DEF Refreshes, Presents, Brings, Quiet
<1> QED
  BY <1>2, <1>3, <1>4 DEF AuthInv, DesktopAlone, OneRefreshes, StraysApart, HoldersApart, FreshTokens, UsedByOne,
                    Bearers, Strays

LEMMA AloneAskRefresh ==
  ASSUME AuthInv, NEW c \in Callers, AskRefresh(c)
  PROVE  DesktopAlone'
<1> SUFFICES ASSUME app = "desktop", ~crashed PROVE DesktopAlone'
  BY DEF DesktopAlone, AskRefresh, client
<1> DEFINE u == Asking("refresh", "sent", held)
<1>1. /\ ~reused /\ saved = held
      /\ OneRefreshes /\ StraysApart /\ HoldersApart /\ FreshTokens /\ UsedByOne
  BY DEF AuthInv, DesktopAlone
<1>2. /\ asked' = [asked EXCEPT ![c] = u] /\ held # 0 /\ asked[c] = Quiet
      /\ \A d \in Callers : asked[d] # Quiet /\ asked[d].kind = "refresh" => asked[d].lost
      /\ UNCHANGED <<app, held, saved, crashed, pairs, reused>>
  BY <1>1 DEF AskRefresh, Ask, client, server, MayRefresh
<1>3. u.kind = "refresh" /\ u.step = "sent" /\ u.pair = held /\ u.lost = FALSE /\ u # Quiet
  BY DEF Asking, Quiet
<1> HIDE DEF u
<1>4. asked'[c] = u /\ \A d \in Callers \ {c} : asked'[d] = asked[d]
  BY <1>2 DEF AuthInv, TablesTrue, AuthCallsFit
<1>5. ~\E d \in Callers : Refreshes(d) BY <1>2 DEF Refreshes
<1>6. \A d \in Callers \ {c} : /\ Refreshes(d)' <=> Refreshes(d)
                               /\ Presents(d)' <=> Presents(d)
                               /\ Brings(d)' <=> Brings(d)
  BY <1>4 DEF Refreshes, Presents, Brings
<1>7. Presents(c)' /\ ~Brings(c)' /\ Refreshes(c)'
  BY <1>3, <1>4 DEF Presents, Brings, Refreshes, Quiet
<1>8. ~pairs[held].used BY <1>1, <1>2, <1>5 DEF UsedByOne
<1>9. \A d \in Callers \ {c} : Presents(d) \/ Brings(d) => held # asked[d].pair
  BY <1>1, <1>2 DEF StraysApart, Strays, Presents
<1>10. OneRefreshes' /\ UsedByOne' BY <1>2, <1>5, <1>6, <1>7 DEF OneRefreshes, UsedByOne
<1>11. StraysApart' BY <1>1, <1>2, <1>3, <1>4, <1>6, <1>7, <1>9 DEF StraysApart, Strays
<1>12. HoldersApart' BY <1>1, <1>2, <1>3, <1>4, <1>6, <1>7, <1>9 DEF HoldersApart, Bearers
<1>13. FreshTokens' BY <1>1, <1>2, <1>3, <1>4, <1>6, <1>8 DEF FreshTokens
<1> QED BY <1>1, <1>2, <1>10, <1>11, <1>12, <1>13 DEF DesktopAlone

\* The server has a call do something that the client does not see.
LEMMA AloneConsume ==
  ASSUME AuthInv, NEW c \in Callers, ConsumeToken(c)
  PROVE  DesktopAlone'
<1> SUFFICES ASSUME app = "desktop", ~crashed PROVE DesktopAlone'
  BY DEF DesktopAlone, ConsumeToken, client
<1>1. /\ ~reused /\ saved = held
      /\ OneRefreshes /\ StraysApart /\ HoldersApart /\ FreshTokens /\ UsedByOne
  BY DEF AuthInv, DesktopAlone
<1>2. /\ asked[c].step = "sent" /\ asked[c] # Quiet
      /\ reused' = (reused \/ pairs[asked[c].pair].used)
      /\ UNCHANGED <<app, held, saved, crashed, pairs>>
  BY DEF ConsumeToken, client, Quiet
<1>3. asked[c] \in AuthCall /\ asked[c].kind = "refresh" BY <1>2, CallFacts DEF AuthInv
<1>4. /\ asked'[c].step \in {"consumed", "listed"} /\ asked'[c].kind = "refresh"
      /\ asked'[c].pair = asked[c].pair /\ asked'[c].lost = asked[c].lost
      /\ \A d \in Callers \ {c} : asked'[d] = asked[d]
  <2> DEFINE n == asked[c].pair
             again == pairs[n].family \in dead
             f == FamilyOf(n)
             w == IF MayConsume(n) THEN {n} ELSE {}
             u == [asked[c] EXCEPT !.step = "consumed", !.wrote = {n}, !.again = again]
             v == [asked[c] EXCEPT !.step = "listed", !.listed = f, !.wrote = w]
  <2>1. asked' = [asked EXCEPT ![c] = u] \/ asked' = [asked EXCEPT ![c] = v]
    BY DEF ConsumeToken, AuthInv, TablesTrue, AuthCallsFit
  <2> HIDE DEF again, f, w, n
  <2>2. /\ u.step = "consumed" /\ u.kind = asked[c].kind /\ u.pair = asked[c].pair /\ u.lost = asked[c].lost
        /\ v.step = "listed" /\ v.kind = asked[c].kind /\ v.pair = asked[c].pair /\ v.lost = asked[c].lost
    BY <1>3 DEF AuthCall
  <2> HIDE DEF u, v
  <2>3. asked'[c] \in {u, v} /\ \A d \in Callers \ {c} : asked'[d] = asked[d]
    BY <2>1 DEF AuthInv, TablesTrue, AuthCallsFit
  <2> QED BY <1>3, <2>2, <2>3
<1>5. ~pairs[asked[c].pair].used /\ ~reused' BY <1>1, <1>2 DEF FreshTokens
<1>6. \A d \in Callers : /\ Refreshes(d)' <=> Refreshes(d)
                         /\ Presents(d)' <=> Presents(d)
                         /\ Brings(d)' <=> Brings(d)
                         /\ asked'[d].step = "sent" => asked[d].step = "sent"
  BY <1>2, <1>3, <1>4 DEF Refreshes, Presents, Brings, Quiet
<1>7. Presents(c) BY <1>2, <1>3 DEF Presents
<1>8. \A d \in Callers : Presents(d) \/ Brings(d) \/ asked'[d].step = "sent"
                         => asked'[d].pair = asked[d].pair /\ asked'[d].lost = asked[d].lost
  BY <1>4
<1>9. OneRefreshes' /\ UsedByOne' BY <1>1, <1>2, <1>6 DEF OneRefreshes, UsedByOne
<1>10. StraysApart' /\ HoldersApart'
  BY <1>1, <1>2, <1>6, <1>8 DEF StraysApart, Strays, HoldersApart, Bearers
<1>11. FreshTokens' BY <1>1, <1>2, <1>6, <1>8 DEF FreshTokens
<1> QED BY <1>1, <1>2, <1>5, <1>9, <1>10, <1>11 DEF DesktopAlone

LEMMA AloneCommit ==
  ASSUME AuthInv, NEW c \in Callers, AuthCommitted(c), asked[c] # Quiet,
         asked[c].kind = "refresh" => Presents(c),
         UNCHANGED <<app, held, saved, crashed, reused>>
  PROVE  DesktopAlone'
<1> SUFFICES ASSUME app = "desktop", ~crashed PROVE DesktopAlone' BY DEF DesktopAlone
<1> DEFINE m == Len(pairs) + 1
           p == asked[c].pair
<1>1. /\ ~reused /\ saved = held
      /\ OneRefreshes /\ StraysApart /\ HoldersApart /\ FreshTokens /\ UsedByOne
  BY DEF AuthInv, DesktopAlone
<1>2. /\ \A n \in Numbers : pairs'[n].used => pairs[n].used \/ (asked[c].kind = "refresh" /\ n = p)
      /\ \A d \in Callers \ {c} : asked'[d] = asked[d]
      /\ \/ asked'[c] = Quiet /\ asked[c].lost
         \/ /\ ~asked[c].lost /\ asked'[c].lost = FALSE /\ asked'[c].kind = asked[c].kind
            /\ asked'[c].step \in {"refused", "answered"}
            /\ Brings(c)' => asked'[c].pair = m /\ ~pairs'[m].used
  BY DEF AuthCommitted, Brings
<1>3. Len(pairs) \in Nat /\ held \in 0..Len(pairs) /\ held < m /\ (held # 0 => held \in Numbers)
  BY DEF AuthInv, TablesTrue, AuthRows, ClientRows, Numbers
<1>4. \A d \in Callers : Presents(d) \/ Brings(d)
                         => asked[d].pair \in Numbers /\ asked[d].pair # m
  <2> TAKE d \in Callers
  <2> HAVE Presents(d) \/ Brings(d)
  <2> QED BY <1>3, HoldersHave DEF AuthInv, Numbers
<1> HIDE DEF m, p
<1>5. \A d \in Callers \ {c} : /\ Refreshes(d)' <=> Refreshes(d)
                               /\ Presents(d)' <=> Presents(d)
                               /\ Brings(d)' <=> Brings(d)
  BY <1>2 DEF Refreshes, Presents, Brings
<1>6. /\ ~Presents(c)'
      /\ Refreshes(c)' <=> Refreshes(c)
      /\ Brings(c)' => asked'[c].pair = m /\ ~pairs'[m].used
  BY <1>2 DEF Refreshes, Presents, Brings, Quiet
<1>7. \A d \in Callers : Refreshes(d)' <=> Refreshes(d) BY <1>5, <1>6
<1>8. OneRefreshes' BY <1>1, <1>7 DEF OneRefreshes
<1>9. StraysApart' BY <1>1, <1>2, <1>3, <1>5, <1>6 DEF StraysApart, Strays
<1>10. HoldersApart'
  <2>1. \A d \in Callers \ {c} : d \in Bearers' => /\ d \in Bearers /\ asked'[d].pair # m
                                                   /\ asked'[d].pair = asked[d].pair
    BY <1>2, <1>4, <1>5 DEF Bearers
  <2>2. c \in Bearers' => asked'[c].pair = m BY <1>6 DEF Bearers
  <2>3. Bearers' \subseteq Callers BY DEF Bearers
  <2> QED BY <1>1, <2>1, <2>2, <2>3 DEF HoldersApart
<1>11. FreshTokens'
  <2> SUFFICES ASSUME NEW d \in Callers, asked'[d].step = "sent" \/ Brings(d)'
               PROVE  ~pairs'[asked'[d].pair].used
    BY DEF FreshTokens
  <2>1. CASE d = c BY <1>2, <1>6, <2>1 DEF Quiet
  <2>2. CASE d # c
    <3>1. asked'[d] = asked[d] /\ (asked[d].step = "sent" \/ Brings(d)) BY <1>2, <1>5, <2>2
    <3>2. Presents(d) \/ Brings(d)
      <4>1. asked[d].step = "sent" => asked[d] # Quiet BY DEF Quiet
      <4> QED BY <3>1, <4>1, CallFacts DEF Presents, AuthInv
    <3>3. ~pairs[asked[d].pair].used /\ asked[d].pair \in Numbers
      BY <1>1, <1>4, <3>1, <3>2 DEF FreshTokens
    <3>4. asked[c].kind = "refresh" => asked[d].pair # p
      BY <1>1, <2>2, <3>2 DEF HoldersApart, Bearers, p
    <3> QED BY <1>2, <3>1, <3>3, <3>4
  <2> QED BY <2>1, <2>2
<1>12. UsedByOne'
  <2> SUFFICES ASSUME held # 0, pairs'[held].used PROVE \E d \in Callers : Refreshes(d)
    BY <1>7 DEF UsedByOne
  <2>1. CASE pairs[held].used BY <1>1, <2>1 DEF UsedByOne
  <2>2. CASE asked[c].kind = "refresh" /\ held = p
    <3>1. ~asked[c].lost BY <1>1, <2>2 DEF StraysApart, Strays, p
    <3> QED BY <2>2, <3>1 DEF Refreshes
  <2> QED BY <1>2, <1>3, <2>1, <2>2
<1> QED BY <1>1, <1>8, <1>9, <1>10, <1>11, <1>12 DEF DesktopAlone

\* A call ends, or nobody waits for it any longer; the client takes what it was told.
LEMMA AloneEnd ==
  ASSUME AuthInv, NEW c \in Callers,
         FailCall(c) \/ TakeAnswer(c) \/ TakeRefusal(c) \/ GiveUp(c)
  PROVE  DesktopAlone'
<1> SUFFICES ASSUME app = "desktop", ~crashed PROVE DesktopAlone'
  BY DEF DesktopAlone, FailCall, TakeAnswer, TakeRefusal, GiveUp, client
<1>1. /\ ~reused /\ saved = held
      /\ OneRefreshes /\ StraysApart /\ HoldersApart /\ FreshTokens /\ UsedByOne
  BY DEF AuthInv, DesktopAlone
<1>2. UNCHANGED <<app, crashed, pairs, reused>> /\ asked[c] # Quiet
  BY DEF FailCall, TakeAnswer, TakeRefusal, GiveUp, client, server, AtServer, Quiet
<1>3. asked[c] \in AuthCall BY <1>2, CallFacts DEF AuthInv
<1>4. \A d \in Callers \ {c} : asked'[d] = asked[d]
  BY DEF FailCall, TakeAnswer, TakeRefusal, GiveUp, AuthInv, TablesTrue, AuthCallsFit
<1>5. \/ asked'[c] = Quiet
      \/ /\ asked'[c].kind = asked[c].kind /\ asked'[c].step = asked[c].step
         /\ asked'[c].pair = asked[c].pair /\ asked'[c].lost = TRUE /\ GiveUp(c)
  <2>1. CASE asked' = [asked EXCEPT ![c] = Quiet] BY <2>1 DEF AuthInv, TablesTrue, AuthCallsFit
  <2>2. CASE GiveUp(c) BY <1>3, <2>2 DEF GiveUp, AuthInv, TablesTrue, AuthCallsFit, AuthCall
  <2> QED BY <2>1, <2>2 DEF FailCall, TakeAnswer, TakeRefusal
\* What it holds afterwards.
<1>6. \/ held' = 0 /\ saved' = 0
      \/ TakeAnswer(c) /\ Brings(c) /\ held' = asked[c].pair /\ saved' = held' /\ asked'[c] = Quiet
      \/ held' = held /\ saved' = held /\ ~Refreshes(c)
  <2>1. CASE FailCall(c) BY <1>1, <2>1 DEF FailCall, client, Refreshes
  <2>2. CASE TakeAnswer(c)
    <3>1. asked[c].kind # "logout" => Brings(c) BY <2>2 DEF TakeAnswer, Brings
    <3> QED BY <2>2, <3>1 DEF TakeAnswer, AuthInv, TablesTrue, AuthCallsFit
  <2>3. CASE TakeRefusal(c) BY <1>1, <2>3 DEF TakeRefusal, Forgets, Refreshes
  <2>4. CASE GiveUp(c) BY <1>1, <2>4 DEF GiveUp, Forgets, Refreshes
  <2> QED BY <2>1, <2>2, <2>3, <2>4
<1>7. \A d \in Callers \ {c} : /\ Refreshes(d)' <=> Refreshes(d)
                               /\ Presents(d)' <=> Presents(d)
                               /\ Brings(d)' <=> Brings(d)
  BY <1>4 DEF Refreshes, Presents, Brings
<1>8. /\ ~Refreshes(c)' /\ (Presents(c)' => Presents(c)) /\ ~Brings(c)'
      /\ Presents(c)' => asked'[c].pair = asked[c].pair /\ asked[c].kind # "login"
      /\ asked'[c].step = "sent" => asked[c].step = "sent"
  BY <1>2, <1>5 DEF Refreshes, Presents, Brings, Quiet, GiveUp, AtServer
<1>9. \A d \in Bearers : asked[d].pair # 0 BY HoldersHave DEF Bearers, AuthInv
<1>10. Bearers' \subseteq Bearers /\ \A d \in Bearers' : asked'[d].pair = asked[d].pair
  BY <1>4, <1>7, <1>8 DEF Bearers
<1>11. OneRefreshes' /\ HoldersApart' BY <1>1, <1>7, <1>8, <1>10 DEF OneRefreshes, HoldersApart
<1>12. FreshTokens'
  <2>1. asked'[c].step = "sent" => asked[c].step = "sent" /\ asked'[c].pair = asked[c].pair
    BY <1>5 DEF Quiet
  <2> QED BY <1>1, <1>2, <1>4, <1>7, <1>8, <2>1 DEF FreshTokens
<1>13. StraysApart' /\ UsedByOne' /\ saved' = held'
  <2>0. Strays' \subseteq Bearers' BY DEF Strays, Bearers
  <2>1. CASE held' = 0 /\ saved' = 0 BY <1>9, <1>10, <2>0, <2>1 DEF StraysApart, UsedByOne
  <2>2. CASE TakeAnswer(c) /\ Brings(c) /\ held' = asked[c].pair /\ saved' = held' /\ asked'[c] = Quiet
    <3>1. c \in Bearers /\ c \notin Bearers' BY <2>2 DEF Bearers, Presents, Brings, Quiet
    <3>2. StraysApart' BY <1>1, <1>10, <2>0, <2>2, <3>1 DEF StraysApart, HoldersApart
    <3>3. ~pairs[asked[c].pair].used BY <1>1, <2>2 DEF FreshTokens
    <3> QED BY <1>2, <2>2, <3>2, <3>3 DEF UsedByOne
  <2>3. CASE held' = held /\ saved' = held /\ ~Refreshes(c)
    <3>1. \A d \in Strays' : d # c => d \in Strays BY <1>4, <1>7, <1>8, <1>10 DEF Strays
    <3>2. c \in Strays' => held # asked[c].pair
      <4> SUFFICES ASSUME c \in Strays' PROVE held # asked[c].pair OBVIOUS
      <4>1. Presents(c) BY <1>8 DEF Strays
      <4>2. asked[c].lost BY <2>3, <4>1 DEF Presents, Refreshes
      <4> QED BY <1>1, <4>1, <4>2 DEF StraysApart, Strays
    <3>3. StraysApart' BY <1>1, <1>10, <2>0, <2>3, <3>1, <3>2 DEF StraysApart
    <3>4. UsedByOne' BY <1>1, <1>2, <1>7, <2>3 DEF UsedByOne
    <3> QED BY <2>3, <3>3, <3>4
  <2> QED BY <1>6, <2>1, <2>2, <2>3
<1> QED BY <1>1, <1>2, <1>11, <1>12, <1>13 DEF DesktopAlone

\* The rows of a user are cut off.
LEMMA AloneCut ==
  ASSUME AuthInv, BeginCut \/ CutTokens \/ CommitCut \/ FailCut \/ Reactivate
  PROVE  DesktopAlone'
<1>1. UNCHANGED <<app, held, saved, crashed, reused>>
  BY DEF BeginCut, CutTokens, CommitCut, FailCut, Reactivate, client
<1>2. CASE ~CommitCut
  <2>1. UNCHANGED <<pairs, asked>> BY <1>2 DEF BeginCut, CutTokens, FailCut, Reactivate
  <2> QED
    BY <1>1, <2>1 DEF AuthInv, DesktopAlone, OneRefreshes, StraysApart, Strays, HoldersApart, Bearers,
                      FreshTokens, UsedByOne, Refreshes, Presents, Brings
<1>3. CASE CommitCut
  <2>1. \A n \in Numbers : pairs'[n].used = pairs[n].used
    <3> TAKE n \in Numbers
    <3> DEFINE open == pairs[n].open /\ n \notin cut.closed
               revoked == pairs[n].revoked \/ n \in cut.listed
               start == IF n = cut.keep THEN cuts + 1 ELSE pairs[n].since
               entry == [pairs[n] EXCEPT !.open = open, !.revoked = revoked, !.since = start]
    <3>1. pairs'[n] = entry BY <1>3 DEF CommitCut
    <3>2. pairs[n] \in PairRow BY DEF AuthInv, TablesTrue, AuthRows, Numbers
    <3> HIDE DEF open, revoked, start
    <3>3. entry.used = pairs[n].used BY <3>2 DEF PairRow
    <3> QED BY <3>1, <3>3
  <2>2. \A d \in Callers : /\ asked[d] = Quiet => asked'[d] = Quiet
                           /\ asked[d] # Quiet => /\ asked'[d] # Quiet
                                                  /\ asked'[d].kind = asked[d].kind
                                                  /\ asked'[d].step = asked[d].step
                                                  /\ asked'[d].pair = asked[d].pair
                                                  /\ asked'[d].lost = asked[d].lost
    <3> TAKE d \in Callers
    <3>1. asked'[d] = IF d \in AtServer THEN [asked[d] EXCEPT !.lapped = TRUE] ELSE asked[d]
      BY <1>3 DEF CommitCut
    <3>2. asked[d] # Quiet => asked[d] \in AuthCall BY CallFacts DEF AuthInv
    <3>3. asked[d] = Quiet => d \notin AtServer BY DEF AtServer, Quiet
    <3> QED BY <3>1, <3>2, <3>3 DEF AuthCall, Quiet
  <2>3. \A d \in Callers : /\ Refreshes(d)' <=> Refreshes(d)
                           /\ Presents(d)' <=> Presents(d)
                           /\ Brings(d)' <=> Brings(d)
                           /\ (asked'[d].step = "sent") <=> (asked[d].step = "sent")
                           /\ Presents(d) \/ Brings(d) \/ asked[d].step = "sent"
                              => asked'[d].pair = asked[d].pair /\ asked'[d].lost = asked[d].lost
    BY <2>2 DEF Refreshes, Presents, Brings, Quiet
  <2>4. \A d \in Callers : asked[d].step = "sent" \/ Brings(d) => asked[d].pair \in Numbers
    <3> TAKE d \in Callers
    <3> HAVE asked[d].step = "sent" \/ Brings(d)
    <3>1. asked[d] # Quiet BY DEF Brings, Quiet
    <3>2. Presents(d) \/ Brings(d) BY <3>1, CallFacts DEF Presents, AuthInv
    <3> QED BY <3>2, HoldersHave DEF AuthInv, TablesTrue, AuthRows, Numbers
  <2>5. held # 0 => held \in Numbers BY DEF AuthInv, ClientRows, TablesTrue, AuthRows, Numbers
  <2> QED
    BY <1>1, <2>1, <2>3, <2>4, <2>5 DEF AuthInv, DesktopAlone, OneRefreshes, StraysApart, Strays,
                      HoldersApart, Bearers, FreshTokens, UsedByOne
<1> QED BY <1>2, <1>3

--------------------
LEMMA AuthStart == AuthInit => AuthInv
<1> SUFFICES ASSUME AuthInit PROVE AuthInv OBVIOUS
<1>1. TablesTrue BY AuthStart1
<1>2. ClientRows
  <2>1. Len(pairs) = 0 BY DEF AuthInit
  <2>2. held \in 0..Len(pairs) /\ saved \in 0..Len(pairs)
    <3>1. held = 0 /\ saved = 0 BY DEF AuthInit
    <3> QED BY <2>1, <3>1
  <2>3. app \in {"desktop", "browser"} /\ crashed \in BOOLEAN /\ reused \in BOOLEAN BY DEF AuthInit
  <2> QED BY <2>2, <2>3 DEF ClientRows
<1>3. \A c \in Callers : ~Refreshes(c) /\ ~Presents(c) /\ ~Brings(c) /\ asked[c].step # "sent"
  BY DEF AuthInit, Refreshes, Presents, Brings, Quiet
<1>4. DesktopAlone
  BY <1>3 DEF AuthInit, DesktopAlone, OneRefreshes, StraysApart, Strays, HoldersApart, Bearers,
              FreshTokens, UsedByOne
<1> QED BY <1>1, <1>2, <1>4 DEF AuthInv

LEMMA AuthStep ==
  ASSUME AuthInv, [AuthNext]_authVars
  PROVE  AuthInv'
<1>0. /\ TablesTrue /\ ClientRows /\ DesktopAlone
      /\ held \in 0..Len(pairs) /\ saved \in 0..Len(pairs) /\ Len(pairs) \in Nat
  BY DEF AuthInv, ClientRows, TablesTrue, AuthRows
<1>1. CASE UNCHANGED authVars
  <2>1. TablesTrue'
    BY <1>0, <1>1 DEF authVars, TablesTrue, AuthRows, AuthCallsFit, CallFits, TokensApart, AtServer, CutFits,
           OneHeir, CutOffHolds, FamilyEnds, Usable, Unspent, Numbers, FamilyOf
  <2> QED
    BY <1>0, <1>1, <2>1 DEF authVars, AuthInv, ClientRows, DesktopAlone, OneRefreshes, StraysApart, Strays,
                      HoldersApart, Bearers, FreshTokens, UsedByOne, Refreshes, Presents, Brings
<1>2. CASE BeginCut \/ CutTokens \/ CommitCut \/ FailCut \/ Reactivate
  <2>1. TablesTrue' /\ Len(pairs') = Len(pairs)
    <3>1. CASE CommitCut BY <1>0, <3>1, CommitCutTables
    <3>2. CASE ~CommitCut
      BY <1>0, <1>2, <3>2, CutGoesOnTables DEF BeginCut, CutTokens, FailCut, Reactivate
    <3> QED BY <3>1, <3>2
  <2>2. DesktopAlone' BY <1>2, AloneCut
  <2>3. UNCHANGED client /\ reused' = reused
    BY <1>2 DEF BeginCut, CutTokens, CommitCut, FailCut, Reactivate
  <2> QED BY <1>0, <2>1, <2>2, <2>3 DEF AuthInv, ClientRows, client
<1>3. CASE CrashClient
  <2>1. TablesTrue' BY <1>0, <1>3, CrashTables
  <2> QED BY <1>0, <1>3, <2>1 DEF CrashClient, server, AuthInv, ClientRows, DesktopAlone
<1>4. ASSUME NEW c \in Callers, AskLogin(c) \/ AskRefresh(c) \/ AskLogout(c) PROVE AuthInv'
  <2>1. TablesTrue' BY <1>0, <1>4, AskLoginTables, AskRefreshTables, AskLogoutTables
  <2>2. DesktopAlone' BY <1>4, AloneAskLogin, AloneAskRefresh
  <2>3. UNCHANGED <<client, pairs, reused>> BY <1>4 DEF AskLogin, AskRefresh, AskLogout, server
  <2> QED BY <1>0, <2>1, <2>2, <2>3 DEF AuthInv, ClientRows, client
<1>5. ASSUME NEW c \in Callers, ConsumeToken(c) PROVE AuthInv'
  <2>1. TablesTrue' BY <1>0, <1>5, ConsumeTables
  <2>2. DesktopAlone' BY <1>5, AloneConsume
  <2>3. UNCHANGED <<client, pairs>> /\ reused' \in BOOLEAN
    <3>1. reused' = (reused \/ pairs[asked[c].pair].used) BY <1>5 DEF ConsumeToken
    <3> QED BY <1>5, <3>1 DEF ConsumeToken
  <2> QED BY <1>0, <2>1, <2>2, <2>3 DEF AuthInv, ClientRows, client
<1>6. ASSUME NEW c \in Callers, CommitLogin(c) \/ CommitRotation(c) \/ CommitRevocation(c)
      PROVE  AuthInv'
  <2>1. TablesTrue' /\ AuthCommitted(c)
    BY <1>0, <1>6, CommitLoginTables, CommitRotationTables, CommitRevocationTables
  <2>2. UNCHANGED client /\ reused' = reused
    BY <1>6 DEF CommitLogin, CommitRotation, CommitRevocation
  <2>3. asked[c] # Quiet /\ (asked[c].kind = "refresh" => Presents(c))
    <3>1. asked[c].step \in {"working", "consumed", "listed"}
      BY <1>6 DEF CommitLogin, CommitRotation, CommitRevocation
    <3>2. asked[c] # Quiet BY <3>1 DEF Quiet
    <3>3. asked[c].step = "working" => asked[c].kind = "login" BY <1>0, <3>2, CallFacts
    <3> QED BY <3>1, <3>2, <3>3 DEF Presents
  <2>4. DesktopAlone' BY <2>1, <2>2, <2>3, AloneCommit DEF client
  <2>5. Len(pairs') \in Nat /\ Len(pairs') >= Len(pairs) BY <1>0, <2>1 DEF AuthCommitted
  <2> QED BY <1>0, <2>1, <2>2, <2>4, <2>5 DEF AuthInv, ClientRows, client
<1>7. ASSUME NEW c \in Callers, FailCall(c) \/ TakeAnswer(c) \/ TakeRefusal(c) \/ GiveUp(c)
      PROVE  AuthInv'
  <2>1. TablesTrue' BY <1>0, <1>7, EndTables
  <2>2. DesktopAlone' BY <1>7, AloneEnd
  <2>3. UNCHANGED <<app, crashed, pairs, reused>>
    BY <1>7 DEF FailCall, TakeAnswer, TakeRefusal, GiveUp, client, server
  <2>4. held' \in 0..Len(pairs) /\ saved' \in 0..Len(pairs)
    <3>1. asked[c] # Quiet => asked[c].pair \in 0..Len(pairs) BY <1>0, CallFacts DEF AuthInv
    <3> QED
      BY <1>0, <1>7, <3>1 DEF FailCall, TakeAnswer, TakeRefusal, GiveUp, client, Forgets, Quiet
  <2> QED BY <1>0, <2>1, <2>2, <2>3, <2>4 DEF AuthInv, ClientRows
<1> QED BY <1>1, <1>2, <1>3, <1>4, <1>5, <1>6, <1>7 DEF AuthNext

LEMMA SessionsSound == AuthInv => AuthSound
BY DEF AuthInv, TablesTrue, ClientRows, DesktopAlone, AuthSound, NoFalseAlarm

(* However logins, refreshes, sign-outs, cut-offs, lost answers and crashes overlap: what was *)
(* rotated, cut off, signed out or stolen is of no use but for the named exceptions, and the *)
(* desktop program never presents a token twice. *)
THEOREM AuthTrue == AuthSpec => []AuthSound
BY SessionsSound, AuthStart, AuthStep, PTL DEF AuthSpec

--------------------
\* The brake on attempts.
\* How many of the attempts of a scope are of a kind.
Attempts == [at : Nat, overtaken : BOOLEAN]
Tally(q, P) == Cardinality({i \in DOMAIN q : q[i] \in P})

\* The attempts since the row began, those after its first minute, those that are within its
\* window, and those that fall in the window before it; of all but the third only the ones
\* that nobody had refused.
AnsweredSince(t) == {a \in Attempts : a.at >= t /\ ~a.overtaken}
AnsweredAfter(t) == {a \in Attempts : a.at > t /\ ~a.overtaken}
CountedWithin(t) == {a \in Attempts : a.at \in t..(t + Window - 1)}
AnsweredBefore(t) == {a \in Attempts : a.at < t /\ a.at > t - Window /\ ~a.overtaken}

RowTrue(entry, q) ==
  /\ entry \in [count : Nat \ {0}, since : Nat, until : Int, updated : Nat]
  /\ entry.since <= entry.updated /\ entry.updated <= minute /\ entry.updated < entry.since + Window
  /\ entry.until = IF entry.count < AttemptLimit THEN Never ELSE entry.updated + Block
  /\ \A i \in DOMAIN q : q[i].at <= entry.updated
  /\ entry.count <= Tally(q, CountedWithin(entry.since))

\* How many were answered in the row and before it: as long as a row stands, the first of it
\* or one of those before it does not count.
RowBrakes(entry, q) ==
  /\ Tally(q, AnsweredAfter(entry.since)) < entry.count /\ Tally(q, AnsweredAfter(entry.since)) < AttemptLimit
  /\ Tally(q, AnsweredSince(entry.since)) <= entry.count /\ Tally(q, AnsweredSince(entry.since)) <= AttemptLimit
  /\ Tally(q, AnsweredBefore(entry.since)) < AttemptLimit
  /\ \/ Tally(q, AnsweredBefore(entry.since)) < AttemptLimit - 1
     \/ Tally(q, AnsweredSince(entry.since)) < entry.count /\ Tally(q, AnsweredSince(entry.since)) < AttemptLimit

ScopeTrue(s) ==
  /\ s \in DOMAIN throttles => /\ RowTrue(throttles[s], counted[s])
                               /\ Block >= Window => RowBrakes(throttles[s], counted[s])
  /\ s \notin DOMAIN throttles =>
       \A i \in DOMAIN counted[s] : counted[s][i].at <= minute - Window

ThrottleInv ==
  /\ minute \in Nat
  /\ DOMAIN throttles \subseteq Scopes
  /\ \A s \in Scopes : counted[s] \in Seq(Attempts) /\ ScopeTrue(s)

--------------------
LEMMA ThrottleNumbers ==
  /\ AttemptLimit \in Nat /\ AttemptLimit >= 2 /\ Window \in Nat /\ Window >= 1 /\ Block \in Nat
  /\ Retention \in Nat /\ Retention >= Window
BY ThrottleAssumption

LEMMA AttemptTimes ==
  ASSUME NEW q \in Seq(Attempts)
  PROVE  \A i \in DOMAIN q : q[i] \in Attempts /\ q[i].at \in Nat
<1>1. \A i \in DOMAIN q : q[i] \in Attempts BY ElementOfSeq, LenProperties
<1> QED BY <1>1 DEF Attempts

LEMMA TallyIsNumber ==
  ASSUME NEW q \in Seq(Attempts), NEW P
  PROVE  IsFiniteSet({i \in DOMAIN q : q[i] \in P}) /\ Tally(q, P) \in Nat
<1>1. IsFiniteSet(DOMAIN q) BY FS_Interval, LenProperties
<1>2. IsFiniteSet({i \in DOMAIN q : q[i] \in P}) BY <1>1, FS_Subset
<1> QED BY <1>2, FS_CardinalityType DEF Tally

LEMMA TallyOfMore ==
  ASSUME NEW q \in Seq(Attempts), NEW P, NEW Q, \A i \in DOMAIN q : q[i] \in P => q[i] \in Q
  PROVE  Tally(q, P) <= Tally(q, Q)
<1>1. {i \in DOMAIN q : q[i] \in P} \subseteq {i \in DOMAIN q : q[i] \in Q} OBVIOUS
<1>2. IsFiniteSet({i \in DOMAIN q : q[i] \in Q}) BY TallyIsNumber
<1> QED BY <1>1, <1>2, FS_Subset DEF Tally

LEMMA TallyOfNone ==
  ASSUME NEW q, NEW P, \A i \in DOMAIN q : q[i] \notin P
  PROVE  Tally(q, P) = 0
<1>1. {i \in DOMAIN q : q[i] \in P} = {} OBVIOUS
<1>2. Cardinality({}) = 0 BY FS_EmptySet
<1> QED BY <1>1, <1>2 DEF Tally

LEMMA TallyOfTwo ==
  ASSUME NEW q \in Seq(Attempts), NEW P, NEW Q
  PROVE  Tally(q, P \cup Q) <= Tally(q, P) + Tally(q, Q)
<1> DEFINE A == {i \in DOMAIN q : q[i] \in P}
           B == {i \in DOMAIN q : q[i] \in Q}
<1>1. IsFiniteSet(A) /\ IsFiniteSet(B) BY TallyIsNumber
<1>2. {i \in DOMAIN q : q[i] \in P \cup Q} = A \cup B OBVIOUS
<1>3. Cardinality(A \cup B) = Cardinality(A) + Cardinality(B) - Cardinality(A \cap B)
  BY <1>1, FS_Union
<1>4. IsFiniteSet(A \cap B) BY <1>1, FS_Intersection
<1>5. Cardinality(A) \in Nat /\ Cardinality(B) \in Nat /\ Cardinality(A \cap B) \in Nat
  BY <1>1, <1>4, FS_CardinalityType
<1>6. Tally(q, P \cup Q) = Cardinality(A \cup B) /\ Tally(q, P) = Cardinality(A) /\ Tally(q, Q) = Cardinality(B)
  BY <1>2 DEF Tally
<1> HIDE DEF A, B
<1> QED BY <1>3, <1>5, <1>6

LEMMA TallyOfOneMore ==
  ASSUME NEW q \in Seq(Attempts), NEW a \in Attempts, NEW P
  PROVE  Tally(Append(q, a), P) = Tally(q, P) + IF a \in P THEN 1 ELSE 0
<1> DEFINE r == Append(q, a)
           A == {i \in DOMAIN q : q[i] \in P}
           n == Len(q) + 1
<1>1. /\ Len(q) \in Nat /\ DOMAIN q = 1..Len(q) /\ DOMAIN r = 1..n
      /\ \A i \in DOMAIN q : r[i] = q[i]
      /\ r[n] = a
  BY AppendProperties, LenProperties
<1>2. DOMAIN r = DOMAIN q \cup {n} /\ n \notin DOMAIN q BY <1>1
<1> HIDE DEF r, n
<1>3. IsFiniteSet(A) /\ Cardinality(A) \in Nat /\ n \notin A
  BY <1>2, TallyIsNumber, FS_CardinalityType
<1>4. {i \in DOMAIN r : r[i] \in P} = IF a \in P THEN A \cup {n} ELSE A BY <1>1, <1>2
<1>5. Cardinality(A \cup {n}) = Cardinality(A) + 1 BY <1>3, FS_AddElement
<1> HIDE DEF A
<1>6. Tally(r, P) = (IF a \in P THEN Cardinality(A) + 1 ELSE Cardinality(A)) /\ Tally(q, P) = Cardinality(A)
  BY <1>4, <1>5 DEF Tally, A
<1> QED BY <1>3, <1>6 DEF r

--------------------
(* A row begins when none was there, or its window is over. *)
LEMMA RowBegins ==
  ASSUME minute \in Nat, NEW q \in Seq(Attempts), NEW a \in Attempts, a.at = minute,
         \A i \in DOMAIN q : q[i].at < minute
  PROVE  /\ RowTrue(Fresh, Append(q, a))
         /\ Tally(q, AnsweredBefore(minute)) < AttemptLimit
            /\ (a.overtaken \/ Tally(q, AnsweredBefore(minute)) < AttemptLimit - 1)
            => RowBrakes(Fresh, Append(q, a))
<1> DEFINE r == Append(q, a)
           b == Tally(q, AnsweredBefore(minute))
<1>0. /\ AttemptLimit \in Nat /\ AttemptLimit >= 2 /\ Window \in Nat /\ Window >= 1
      /\ b \in Nat /\ Tally(q, CountedWithin(minute)) \in Nat
  BY ThrottleNumbers, TallyIsNumber
<1>1. Fresh.count = 1 /\ Fresh.since = minute /\ Fresh.until = Never /\ Fresh.updated = minute
  BY DEF Fresh
<1> HIDE DEF r, b
<1>2. \A i \in DOMAIN r : r[i].at <= minute
  <2>1. /\ DOMAIN r = DOMAIN q \cup {Len(q) + 1} /\ r[Len(q) + 1] = a
        /\ \A i \in DOMAIN q : r[i] = q[i]
    BY AppendProperties, LenProperties DEF r
  <2>2. \A i \in DOMAIN q : q[i].at \in Nat BY AttemptTimes
  <2> QED BY <2>1, <2>2
<1>3. Tally(r, CountedWithin(minute)) >= 1
  <2>1. a \in CountedWithin(minute) BY <1>0 DEF CountedWithin
  <2>2. Tally(r, CountedWithin(minute)) = Tally(q, CountedWithin(minute)) + 1
    BY <2>1, TallyOfOneMore DEF r
  <2> QED BY <1>0, <2>2
<1>4. RowTrue(Fresh, r)
  <2>1. minute \in Nat /\ Never \in Int /\ 1 \in Nat \ {0} BY DEF Never
  <2>2. Fresh \in [count : Nat \ {0}, since : Nat, until : Int, updated : Nat] BY <2>1 DEF Fresh
  <2> QED BY <1>0, <1>1, <1>2, <1>3, <2>2 DEF RowTrue
<1>5. Tally(r, AnsweredAfter(minute)) = 0
  <2>1. a \notin AnsweredAfter(minute) /\ \A i \in DOMAIN q : q[i] \notin AnsweredAfter(minute)
    BY DEF AnsweredAfter, Attempts
  <2> QED BY <2>1, TallyOfOneMore, TallyOfNone DEF r
<1>6. Tally(r, AnsweredSince(minute)) = IF a.overtaken THEN 0 ELSE 1
  <2>1. a \in AnsweredSince(minute) <=> ~a.overtaken BY DEF AnsweredSince
  <2>2. \A i \in DOMAIN q : q[i] \notin AnsweredSince(minute) BY DEF AnsweredSince, Attempts
  <2>3. Tally(q, AnsweredSince(minute)) = 0 BY <2>2, TallyOfNone
  <2>4. Tally(r, AnsweredSince(minute)) = Tally(q, AnsweredSince(minute)) + IF a \in AnsweredSince(minute) THEN 1 ELSE 0
    BY TallyOfOneMore DEF r
  <2> QED BY <2>1, <2>3, <2>4
<1>7. Tally(r, AnsweredBefore(minute)) = b
  <2>1. a \notin AnsweredBefore(minute) BY DEF AnsweredBefore
  <2>2. Tally(r, AnsweredBefore(minute)) = Tally(q, AnsweredBefore(minute)) + 0
    BY <2>1, TallyOfOneMore DEF r
  <2> QED BY <1>0, <2>2 DEF b
<1>8. b < AttemptLimit /\ (a.overtaken \/ b < AttemptLimit - 1) => RowBrakes(Fresh, r)
  BY <1>0, <1>1, <1>5, <1>6, <1>7 DEF RowBrakes
<1> QED BY <1>4, <1>8 DEF r, b

(* A row counts on. *)
LEMMA RowCountsOn ==
  ASSUME minute \in Nat, NEW q \in Seq(Attempts), NEW a \in Attempts, a.at = minute,
         NEW entry, RowTrue(entry, q), minute < entry.since + Window,
         a.overtaken <=> entry.until > minute,
         NEW next \in [count : Nat \ {0}, since : Nat, until : Int, updated : Nat],
         next.count = entry.count + 1, next.since = entry.since, next.updated = minute,
         next.until = IF entry.count + 1 >= AttemptLimit THEN minute + Block ELSE entry.until
  PROVE  /\ RowTrue(next, Append(q, a))
         /\ Block >= Window /\ RowBrakes(entry, q) => RowBrakes(next, Append(q, a))
<1> DEFINE r == Append(q, a)
           start == entry.since
           aft == Tally(q, AnsweredAfter(start))
           sin == Tally(q, AnsweredSince(start))
           bef == Tally(q, AnsweredBefore(start))
<1>0. /\ AttemptLimit \in Nat /\ AttemptLimit >= 2 /\ Window \in Nat /\ Window >= 1 /\ Block \in Nat
      /\ aft \in Nat /\ sin \in Nat /\ bef \in Nat /\ Tally(q, CountedWithin(start)) \in Nat
  BY ThrottleNumbers, TallyIsNumber
<1>1. /\ entry.count \in Nat /\ entry.count >= 1 /\ start \in Nat /\ entry.updated \in Nat
      /\ start <= entry.updated /\ entry.updated <= minute
      /\ entry.until = IF entry.count < AttemptLimit THEN Never ELSE entry.updated + Block
      /\ entry.count <= Tally(q, CountedWithin(start))
      /\ \A i \in DOMAIN q : q[i].at <= entry.updated
  BY DEF RowTrue
<1> HIDE DEF r, aft, sin, bef
<1>2. \A i \in DOMAIN r : r[i].at <= minute
  <2>1. /\ DOMAIN r = DOMAIN q \cup {Len(q) + 1} /\ r[Len(q) + 1] = a
        /\ \A i \in DOMAIN q : r[i] = q[i]
    BY AppendProperties, LenProperties DEF r
  <2>2. \A i \in DOMAIN q : q[i].at \in Nat BY AttemptTimes
  <2> QED BY <1>1, <2>1, <2>2
<1> HIDE DEF start
<1>3. Tally(r, CountedWithin(start)) = Tally(q, CountedWithin(start)) + 1
  <2>1. a \in CountedWithin(start) BY <1>0, <1>1 DEF CountedWithin, start
  <2> QED BY <2>1, TallyOfOneMore DEF r
<1>4. next.until = IF next.count < AttemptLimit THEN Never ELSE minute + Block BY <1>0, <1>1
<1>5. RowTrue(next, r) BY <1>0, <1>1, <1>2, <1>3, <1>4 DEF RowTrue, start
<1>6. Tally(r, AnsweredAfter(start)) <= aft + IF a.overtaken THEN 0 ELSE 1
  <2>1. a.overtaken => a \notin AnsweredAfter(start) BY DEF AnsweredAfter
  <2> QED BY <1>0, <2>1, TallyOfOneMore DEF r, aft
<1>7. Tally(r, AnsweredSince(start)) <= sin + IF a.overtaken THEN 0 ELSE 1
  <2>1. a.overtaken => a \notin AnsweredSince(start) BY DEF AnsweredSince
  <2> QED BY <1>0, <2>1, TallyOfOneMore DEF r, sin
<1>8. Tally(r, AnsweredBefore(start)) = bef
  <2>1. a \notin AnsweredBefore(start) BY <1>1 DEF AnsweredBefore, start
  <2>2. Tally(r, AnsweredBefore(start)) = bef + 0 BY <2>1, TallyOfOneMore DEF r, bef
  <2> QED BY <1>0, <2>2
<1>9. r \in Seq(Attempts) BY AppendProperties DEF r
<1>10. Tally(r, AnsweredAfter(start)) \in Nat /\ Tally(r, AnsweredSince(start)) \in Nat
  BY <1>9, TallyIsNumber
<1>11. ASSUME Block >= Window, RowBrakes(entry, q) PROVE RowBrakes(next, r)
  <2>0. AttemptLimit \in Nat /\ Block \in Nat /\ Window \in Nat BY <1>0
  <2>a. entry.count \in Nat /\ entry.updated \in Nat /\ start \in Nat /\ start <= entry.updated BY <1>1
  <2>1. ~a.overtaken => entry.count < AttemptLimit
    <3> SUFFICES ASSUME ~(entry.count < AttemptLimit) PROVE a.overtaken OBVIOUS
    <3>1. entry.until = entry.updated + Block BY <1>1
    <3>2. minute < start + Window BY DEF start
    <3>3. minute < entry.updated + Block BY <2>0, <2>a, <3>2, <1>11
    <3> QED BY <3>1, <3>3, <2>0, <2>a
  <2>2. /\ aft < entry.count /\ aft < AttemptLimit /\ sin <= entry.count /\ sin <= AttemptLimit
        /\ bef < AttemptLimit
        /\ bef < AttemptLimit - 1 \/ (sin < entry.count /\ sin < AttemptLimit)
    BY <1>11 DEF RowBrakes, aft, sin, bef, start
  <2>3. next.since = start /\ next.count = entry.count + 1 BY DEF start
  <2> DEFINE x == Tally(r, AnsweredAfter(start))
             y == Tally(r, AnsweredSince(start))
  <2>4. x \in Nat /\ y \in Nat /\ x <= aft + (IF a.overtaken THEN 0 ELSE 1) /\ y <= sin + (IF a.overtaken THEN 0 ELSE 1)
    BY <1>6, <1>7, <1>10
  <2>5. RowBrakes(next, r) <=>
          /\ x < entry.count + 1 /\ x < AttemptLimit /\ y <= entry.count + 1 /\ y <= AttemptLimit
          /\ bef < AttemptLimit /\ (bef < AttemptLimit - 1 \/ (y < entry.count + 1 /\ y < AttemptLimit))
    BY <1>8, <2>3 DEF RowBrakes
  <2> HIDE DEF x, y
  <2>6. CASE a.overtaken
    <3>1. x <= aft /\ y <= sin BY <1>0, <2>4, <2>6
    <3> DEFINE n == entry.count
    <3>2. /\ n \in Nat /\ AttemptLimit \in Nat /\ aft \in Nat /\ sin \in Nat /\ bef \in Nat
          /\ x \in Nat /\ y \in Nat
      BY <1>0, <2>a, <2>4
    <3>3. /\ aft < n /\ aft < AttemptLimit /\ sin <= n /\ sin <= AttemptLimit
          /\ bef < AttemptLimit - 1 \/ (sin < n /\ sin < AttemptLimit)
      BY <2>2
    <3> HIDE DEF n
    <3>4. x < n + 1 /\ x < AttemptLimit /\ y <= n + 1 /\ y <= AttemptLimit BY <3>1, <3>2, <3>3
    <3>5. bef < AttemptLimit - 1 \/ (y < n + 1 /\ y < AttemptLimit) BY <3>1, <3>2, <3>3
    <3> QED BY <2>2, <2>5, <3>4, <3>5 DEF n
  <2>7. CASE ~a.overtaken
    <3>1. x <= aft + 1 /\ y <= sin + 1 BY <1>0, <2>4, <2>7
    <3>2. entry.count + 1 <= AttemptLimit BY <2>0, <2>a, <2>1, <2>7
    <3>3. /\ x < entry.count + 1 /\ x < AttemptLimit /\ y <= entry.count + 1 /\ y <= AttemptLimit
          /\ bef < AttemptLimit - 1 \/ (y < entry.count + 1 /\ y < AttemptLimit)
      BY <1>0, <2>a, <2>2, <2>4, <3>1, <3>2
    <3> QED BY <2>2, <2>5, <3>3
  <2> QED BY <2>6, <2>7
<1> QED BY <1>5, <1>11 DEF r

(* What was answered in the window before one that begins. *)
LEMMA RowWasOver ==
  ASSUME minute \in Nat, NEW q \in Seq(Attempts), NEW entry, RowTrue(entry, q), RowBrakes(entry, q),
         Block >= Window, entry.since <= minute - Window
  PROVE  /\ Tally(q, AnsweredBefore(minute)) < AttemptLimit
         /\ entry.until > minute \/ Tally(q, AnsweredBefore(minute)) < AttemptLimit - 1
<1>0. /\ AttemptLimit \in Nat /\ AttemptLimit >= 2 /\ Window \in Nat /\ Window >= 1 /\ Block \in Nat
      /\ Tally(q, AnsweredAfter(entry.since)) \in Nat /\ Tally(q, AnsweredBefore(minute)) \in Nat
  BY ThrottleNumbers, TallyIsNumber
<1>1. /\ entry.count \in Nat /\ entry.since \in Nat /\ entry.updated \in Nat
      /\ entry.until = IF entry.count < AttemptLimit THEN Never ELSE entry.updated + Block
      /\ \A i \in DOMAIN q : q[i].at <= entry.updated
      /\ Tally(q, AnsweredAfter(entry.since)) < entry.count
      /\ Tally(q, AnsweredAfter(entry.since)) < AttemptLimit
  BY DEF RowTrue, RowBrakes
<1>2. Tally(q, AnsweredBefore(minute)) <= Tally(q, AnsweredAfter(entry.since))
  <2>1. AnsweredBefore(minute) \subseteq AnsweredAfter(entry.since)
    BY <1>0, <1>1 DEF AnsweredBefore, AnsweredAfter, Attempts
  <2> QED BY <2>1, TallyOfMore
<1>3. CASE entry.count >= AttemptLimit /\ ~(entry.until > minute)
  <2>1. entry.updated <= minute - Window BY <1>0, <1>1, <1>3
  <2>2. \A i \in DOMAIN q : q[i].at \in Nat BY AttemptTimes
  <2>3. \A i \in DOMAIN q : q[i] \notin AnsweredBefore(minute)
    BY <1>0, <1>1, <2>1, <2>2 DEF AnsweredBefore
  <2>4. Tally(q, AnsweredBefore(minute)) = 0 BY <2>3, TallyOfNone
  <2> QED BY <1>0, <2>4
<1>4. CASE ~(entry.count >= AttemptLimit /\ ~(entry.until > minute)) BY <1>0, <1>1, <1>2, <1>4
<1> QED BY <1>3, <1>4

LEMMA LongAgo ==
  ASSUME minute \in Nat, NEW q \in Seq(Attempts), \A i \in DOMAIN q : q[i].at <= minute - Window
  PROVE  /\ Tally(q, AnsweredBefore(minute)) < AttemptLimit - 1
         /\ \A i \in DOMAIN q : q[i].at < minute
<1>0. AttemptLimit \in Nat /\ AttemptLimit >= 2 /\ Window \in Nat /\ Window >= 1 BY ThrottleNumbers
<1>1. \A i \in DOMAIN q : q[i].at \in Nat BY AttemptTimes
<1>2. \A i \in DOMAIN q : q[i] \notin AnsweredBefore(minute) BY <1>0, <1>1 DEF AnsweredBefore
<1>3. Tally(q, AnsweredBefore(minute)) = 0 BY <1>2, TallyOfNone
<1> QED BY <1>0, <1>1, <1>3

--------------------
(* What the tables and the histories hold after a step, of a scope it did not touch. *)
LEMMA ScopeUntouched ==
  ASSUME ThrottleInv, NEW s \in Scopes, minute' \in Nat, minute <= minute', counted'[s] = counted[s],
         \/ /\ s \in DOMAIN throttles /\ s \in DOMAIN throttles' /\ throttles'[s] = throttles[s]
         \/ s \notin DOMAIN throttles /\ s \notin DOMAIN throttles'
         \/ /\ s \in DOMAIN throttles /\ s \notin DOMAIN throttles'
            /\ ~(throttles[s].updated >= minute - Retention)
  PROVE  (counted[s] \in Seq(Attempts) /\ ScopeTrue(s))'
<1>1. counted[s] \in Seq(Attempts) /\ ScopeTrue(s) /\ minute \in Nat BY DEF ThrottleInv
<1> DEFINE q == counted[s]
<1>2. /\ \A i \in DOMAIN q : q[i] \in Attempts /\ q[i].at \in Nat
      /\ Window \in Nat /\ Retention \in Nat /\ Retention >= Window
  BY <1>1, AttemptTimes, ThrottleNumbers
<1>3. CASE s \in DOMAIN throttles /\ s \in DOMAIN throttles' /\ throttles'[s] = throttles[s]
  <2>1. RowTrue(throttles[s], q) /\ (Block >= Window => RowBrakes(throttles[s], q))
    BY <1>1, <1>3 DEF ScopeTrue
  <2>2. PICK entry, p : entry = throttles[s] /\ p = q OBVIOUS
  <2>3. RowTrue(entry, p)' /\ (Block >= Window => RowBrakes(entry, p))'
    BY <1>1, <2>1, <2>2 DEF RowTrue, RowBrakes, Tally, AnsweredAfter, AnsweredSince, AnsweredBefore, CountedWithin
  <2>4. entry = throttles'[s] /\ p = counted'[s] BY <1>3, <2>2
  <2>5. RowTrue(throttles[s], counted[s])' /\ (Block >= Window => RowBrakes(throttles[s], counted[s]))'
    BY <2>3, <2>4 DEF RowTrue, RowBrakes, Tally, AnsweredAfter, AnsweredSince, AnsweredBefore, CountedWithin
  <2> QED BY <1>1, <1>3, <2>5 DEF ScopeTrue
<1>4. CASE s \notin DOMAIN throttles /\ s \notin DOMAIN throttles'
  <2>1. \A i \in DOMAIN q : q[i].at <= minute - Window BY <1>1, <1>4 DEF ScopeTrue
  <2>2. \A i \in DOMAIN q : q[i].at <= minute' - Window BY <1>1, <1>2, <2>1
  <2> QED BY <1>1, <1>4, <2>2 DEF ScopeTrue
<1>5. CASE /\ s \in DOMAIN throttles /\ s \notin DOMAIN throttles'
           /\ ~(throttles[s].updated >= minute - Retention)
  <2>1. throttles[s].updated \in Nat /\ \A i \in DOMAIN q : q[i].at <= throttles[s].updated
    BY <1>1, <1>5 DEF ScopeTrue, RowTrue
  <2>2. \A i \in DOMAIN q : q[i].at <= minute' - Window BY <1>1, <1>2, <1>5, <2>1
  <2> QED BY <1>1, <1>5, <2>2 DEF ScopeTrue
<1> QED BY <1>3, <1>4, <1>5

LEMMA ScopeCounted ==
  ASSUME ThrottleInv, NEW k \in AttemptKinds, CountAttempt(k), NEW s \in ScopesOf[k]
  PROVE  (counted[s] \in Seq(Attempts) /\ ScopeTrue(s))'
<1> DEFINE q == counted[s]
           a == [at |-> minute, overtaken |-> Blocked({s})]
           over == Blocked({s})
           entry == throttles[s]
<1>0. s \in Scopes BY DEF Scopes
<1>1. /\ q \in Seq(Attempts) /\ ScopeTrue(s) /\ minute \in Nat
      /\ \A i \in DOMAIN q : q[i] \in Attempts /\ q[i].at \in Nat
      /\ Window \in Nat /\ Window >= 1 /\ Retention \in Nat /\ Retention >= Window
      /\ AttemptLimit \in Nat /\ AttemptLimit >= 2
  BY <1>0, AttemptTimes, ThrottleNumbers DEF ThrottleInv
<1>2. minute' = minute /\ s \in DOMAIN throttles'
      /\ throttles'[s] = (IF s \in Recent THEN Again(throttles[s]) ELSE Fresh)
  BY DEF CountAttempt
<1>3. counted'[s] = Append(q, a) BY <1>0 DEF CountAttempt
<1>4. over \in BOOLEAN /\ (over <=> s \in DOMAIN throttles /\ entry.until > minute) BY DEF Blocked
<1>5. a \in Attempts /\ a.at = minute /\ (a.overtaken <=> over)
  <2>1. [at |-> minute, overtaken |-> over] \in Attempts BY <1>1, <1>4 DEF Attempts
  <2> QED BY <2>1
<1> HIDE DEF a, over, q, entry
<1>6. Append(q, a) \in Seq(Attempts) BY <1>1, <1>5, AppendProperties
\* The row that stands, and what brakes it.
<1>7. RowTrue(throttles'[s], Append(q, a)) /\ (Block >= Window => RowBrakes(throttles'[s], Append(q, a)))
  <2>1. CASE s \in Recent /\ ~(entry.since <= minute - Window)
    <3>1. RowTrue(entry, q) /\ (Block >= Window => RowBrakes(entry, q)) /\ s \in DOMAIN throttles
      BY <1>1, <2>1 DEF ScopeTrue, Recent, q, entry
    <3> DEFINE until == IF entry.count + 1 >= AttemptLimit THEN minute + Block ELSE entry.until
               next == [entry EXCEPT !.count = @ + 1, !.updated = minute, !.until = until]
    <3>2. throttles'[s] = next BY <1>2, <2>1 DEF Again, entry
    <3>0. /\ entry \in [count : Nat \ {0}, since : Nat, until : Int, updated : Nat]
          /\ minute \in Nat /\ until \in Int /\ entry.count + 1 \in Nat \ {0}
      BY <1>1, <3>1, ThrottleNumbers DEF RowTrue
    <3>6. next \in [count : Nat \ {0}, since : Nat, until : Int, updated : Nat]
      <4> HIDE DEF until
      <4> QED BY <3>0
    <3>3. next.count = entry.count + 1 /\ next.since = entry.since /\ next.updated = minute /\ next.until = until
      <4> HIDE DEF until
      <4> QED BY <3>0
    <3>4. minute < entry.since + Window BY <1>1, <2>1, <3>1 DEF RowTrue
    <3>5. a.overtaken <=> entry.until > minute BY <1>4, <1>5, <3>1
    <3> HIDE DEF next
    <3> QED BY <1>1, <1>5, <3>1, <3>2, <3>3, <3>4, <3>5, <3>6, RowCountsOn
  <2>2. CASE s \in Recent /\ entry.since <= minute - Window
    <3>1. RowTrue(entry, q) /\ (Block >= Window => RowBrakes(entry, q)) /\ s \in DOMAIN throttles
      BY <1>1, <2>2 DEF ScopeTrue, Recent, q, entry
    <3>2. throttles'[s] = Fresh BY <1>2, <2>2 DEF Again, entry
    <3>3. \A i \in DOMAIN q : q[i].at < minute BY <1>1, <2>2, <3>1 DEF RowTrue
    <3>4. Block >= Window => /\ Tally(q, AnsweredBefore(minute)) < AttemptLimit
                             /\ a.overtaken \/ Tally(q, AnsweredBefore(minute)) < AttemptLimit - 1
      BY <1>1, <1>4, <1>5, <2>2, <3>1, RowWasOver
    <3> QED BY <1>1, <1>5, <3>2, <3>3, <3>4, RowBegins
  <2>3. CASE s \notin Recent
    <3>1. throttles'[s] = Fresh BY <1>2, <2>3
    <3>2. \A i \in DOMAIN q : q[i].at <= minute - Window
      <4>1. CASE s \in DOMAIN throttles
        <5>1. /\ ~(entry.updated >= minute - Retention) /\ entry.updated \in Nat
              /\ \A i \in DOMAIN q : q[i].at <= entry.updated
          BY <1>1, <2>3, <4>1 DEF Recent, ScopeTrue, RowTrue, q, entry
        <5> QED BY <1>1, <5>1
      <4>2. CASE s \notin DOMAIN throttles BY <1>1, <4>2 DEF ScopeTrue, q
      <4> QED BY <4>1, <4>2
    <3>3. /\ Tally(q, AnsweredBefore(minute)) < AttemptLimit - 1
          /\ \A i \in DOMAIN q : q[i].at < minute
      BY <1>1, <3>2, LongAgo
    <3>4. Tally(q, AnsweredBefore(minute)) \in Nat BY <1>1, TallyIsNumber
    <3> QED BY <1>1, <1>5, <3>1, <3>3, <3>4, RowBegins
  <2> QED BY <2>1, <2>2, <2>3
<1>8. PICK p, r : p = Append(q, a) /\ r = throttles'[s] OBVIOUS
<1>9. RowTrue(r, p)' /\ (Block >= Window => RowBrakes(r, p)')
  BY <1>2, <1>7, <1>8 DEF RowTrue, RowBrakes, Tally, AnsweredAfter, AnsweredSince, AnsweredBefore, CountedWithin
<1>10. r = throttles'[s] /\ p = counted'[s] BY <1>3, <1>8
<1>11. RowTrue(throttles[s], counted[s])' /\ (Block >= Window => RowBrakes(throttles[s], counted[s])')
  BY <1>9, <1>10 DEF RowTrue, RowBrakes, Tally, AnsweredAfter, AnsweredSince, AnsweredBefore, CountedWithin
<1> QED BY <1>2, <1>3, <1>6, <1>11 DEF ScopeTrue

LEMMA ThrottleStart == ThrottleInit => ThrottleInv
<1> SUFFICES ASSUME ThrottleInit PROVE ThrottleInv OBVIOUS
<1>1. DOMAIN throttles = {} BY DEF ThrottleInit
<1>2. \A s \in Scopes : counted[s] = <<>> BY DEF ThrottleInit
<1>3. \A s \in Scopes : counted[s] \in Seq(Attempts) /\ DOMAIN counted[s] = {}
  <2>1. <<>> \in Seq(Attempts) /\ DOMAIN <<>> = {} BY EmptySeq
  <2> QED BY <1>2, <2>1
<1>4. \A s \in Scopes : ScopeTrue(s) BY <1>1, <1>3 DEF ScopeTrue
<1>5. minute \in Nat BY DEF ThrottleInit
<1> QED BY <1>1, <1>3, <1>4, <1>5 DEF ThrottleInv

LEMMA ThrottleStep ==
  ASSUME ThrottleInv, [ThrottleNext]_throttleVars
  PROVE  ThrottleInv'
<1>0. minute \in Nat /\ DOMAIN throttles \subseteq Scopes BY DEF ThrottleInv
<1>1. CASE Tick \/ Stopped \/ UNCHANGED throttleVars \/ \E k \in AttemptKinds : LetIn(k)
  <2>1. throttles' = throttles /\ counted' = counted /\ minute' \in Nat /\ minute <= minute'
    BY <1>0, <1>1 DEF Tick, Stopped, LetIn, throttleVars
  <2>2. \A s \in Scopes : (counted[s] \in Seq(Attempts) /\ ScopeTrue(s))' BY <2>1, ScopeUntouched
  <2> QED BY <1>0, <2>1, <2>2 DEF ThrottleInv
<1>2. CASE SignedIn
  <2>1. /\ minute' = minute /\ throttles' = [s \in Recent \ ScopesOf["login"] |-> throttles[s]]
        /\ counted' = [s \in Scopes |-> IF s \in ScopesOf["login"] THEN <<>> ELSE counted[s]]
    BY <1>2 DEF SignedIn
  <2>2. DOMAIN throttles' = Recent \ ScopesOf["login"] /\ Recent \subseteq DOMAIN throttles
    BY <2>1 DEF Recent
  <2>3. ASSUME NEW s \in Scopes PROVE (counted[s] \in Seq(Attempts) /\ ScopeTrue(s))'
    <3>1. CASE s \in ScopesOf["login"]
      <4>1. counted'[s] = <<>> BY <2>1, <3>1
      <4>2. counted'[s] \in Seq(Attempts) /\ DOMAIN counted'[s] = {} BY <4>1, EmptySeq
      <4> QED BY <2>2, <3>1, <4>2 DEF ScopeTrue
    <3>2. CASE s \notin ScopesOf["login"]
      <4>1. counted'[s] = counted[s] /\ minute' \in Nat /\ minute <= minute' BY <1>0, <2>1, <3>2
      <4>2. \/ s \in DOMAIN throttles /\ s \in DOMAIN throttles' /\ throttles'[s] = throttles[s]
            \/ s \notin DOMAIN throttles /\ s \notin DOMAIN throttles'
            \/ /\ s \in DOMAIN throttles /\ s \notin DOMAIN throttles'
               /\ ~(throttles[s].updated >= minute - Retention)
        BY <2>1, <2>2, <3>2 DEF Recent
      <4> QED BY <4>1, <4>2, ScopeUntouched
    <3> QED BY <3>1, <3>2
  <2> QED BY <1>0, <2>1, <2>2, <2>3 DEF ThrottleInv
<1>3. ASSUME NEW k \in AttemptKinds, CountAttempt(k) PROVE ThrottleInv'
  <2>1. /\ minute' = minute /\ DOMAIN throttles' = Recent \cup ScopesOf[k]
        /\ \A s \in Recent \ ScopesOf[k] : throttles'[s] = throttles[s]
        /\ \A s \in Scopes \ ScopesOf[k] : counted'[s] = counted[s]
    BY <1>3 DEF CountAttempt
  <2>2. Recent \subseteq DOMAIN throttles /\ ScopesOf[k] \subseteq Scopes BY DEF Recent, Scopes
  <2>3. ASSUME NEW s \in Scopes PROVE (counted[s] \in Seq(Attempts) /\ ScopeTrue(s))'
    <3>1. CASE s \in ScopesOf[k] BY <1>3, <3>1, ScopeCounted
    <3>2. CASE s \notin ScopesOf[k]
      <4>1. counted'[s] = counted[s] /\ minute' \in Nat /\ minute <= minute' BY <1>0, <2>1, <3>2
      <4>2. \/ s \in DOMAIN throttles /\ s \in DOMAIN throttles' /\ throttles'[s] = throttles[s]
            \/ s \notin DOMAIN throttles /\ s \notin DOMAIN throttles'
            \/ /\ s \in DOMAIN throttles /\ s \notin DOMAIN throttles'
               /\ ~(throttles[s].updated >= minute - Retention)
        BY <2>1, <2>2, <3>2 DEF Recent
      <4> QED BY <4>1, <4>2, ScopeUntouched
    <3> QED BY <3>1, <3>2
  <2> QED BY <1>0, <2>1, <2>2, <2>3 DEF ThrottleInv
<1> QED BY <1>1, <1>2, <1>3 DEF ThrottleNext

LEMMA ThrottleHolds == ThrottleInv => ThrottleSound
<1> SUFFICES ASSUME ThrottleInv PROVE ThrottleSound OBVIOUS
<1>1. RefusedForCause
  <2> SUFFICES ASSUME NEW s \in DOMAIN throttles, Blocked({s})
               PROVE  Cardinality({i \in DOMAIN counted[s] :
                        counted[s][i].at \in throttles[s].since..(throttles[s].since + Window - 1)}) >= AttemptLimit
    BY DEF RefusedForCause, AttemptsIn
  <2>1. s \in Scopes /\ counted[s] \in Seq(Attempts) /\ RowTrue(throttles[s], counted[s]) /\ minute \in Nat
    BY DEF ThrottleInv, ScopeTrue
  <2>2. throttles[s].until > minute BY DEF Blocked
  <2>3. throttles[s].count >= AttemptLimit
    <3>1. throttles[s].count \in Nat /\ (throttles[s].count < AttemptLimit => throttles[s].until = -1)
      BY <2>1 DEF RowTrue, Never
    <3> QED BY <2>1, <2>2, <3>1, ThrottleNumbers
  <2>4. Tally(counted[s], CountedWithin(throttles[s].since)) >= AttemptLimit
    <3>1. /\ throttles[s].count <= Tally(counted[s], CountedWithin(throttles[s].since))
          /\ throttles[s].count \in Nat
      BY <2>1 DEF RowTrue
    <3>2. Tally(counted[s], CountedWithin(throttles[s].since)) \in Nat BY <2>1, TallyIsNumber
    <3> QED BY <2>3, <3>1, <3>2, ThrottleNumbers
  <2>5. {i \in DOMAIN counted[s] : counted[s][i] \in CountedWithin(throttles[s].since)}
        = {i \in DOMAIN counted[s] :
             counted[s][i].at \in throttles[s].since..(throttles[s].since + Window - 1)}
    BY <2>1, AttemptTimes DEF CountedWithin
  <2> QED BY <2>4, <2>5 DEF Tally
<1>2. BrakeHolds
  <2> SUFFICES ASSUME Block >= Window, NEW s \in Scopes
               PROVE  Cardinality({i \in DOMAIN counted[s] :
                        counted[s][i].at > minute - Window /\ ~counted[s][i].overtaken}) < 2 * AttemptLimit - 1
    BY DEF BrakeHolds, AttemptsIn
  <2> DEFINE q == counted[s]
             Lately == {a \in Attempts : a.at > minute - Window /\ ~a.overtaken}
  <2>1. /\ q \in Seq(Attempts) /\ ScopeTrue(s) /\ minute \in Nat
        /\ \A i \in DOMAIN q : q[i] \in Attempts /\ q[i].at \in Nat
        /\ Window \in Nat /\ AttemptLimit \in Nat /\ AttemptLimit >= 2
    BY AttemptTimes, ThrottleNumbers DEF ThrottleInv
  <2>2. {i \in DOMAIN q : q[i].at > minute - Window /\ ~q[i].overtaken} = {i \in DOMAIN q : q[i] \in Lately}
    BY <2>1
  <2> HIDE DEF q
  <2>3. Tally(q, Lately) < 2 * AttemptLimit - 1
    <3>1. CASE s \in DOMAIN throttles
      <4> DEFINE entry == throttles[s]
      <4>1. RowTrue(entry, q) /\ RowBrakes(entry, q) BY <2>1, <3>1 DEF ScopeTrue, q
      <4>2. entry.since \in Nat /\ entry.since <= minute BY <2>1, <4>1 DEF RowTrue
      <4> HIDE DEF entry
      <4>3. Lately \subseteq AnsweredBefore(entry.since) \cup AnsweredSince(entry.since)
        BY <2>1, <4>2 DEF AnsweredBefore, AnsweredSince, Attempts
      <4> HIDE DEF Lately
      <4>4. Tally(q, Lately) <= Tally(q, AnsweredBefore(entry.since) \cup AnsweredSince(entry.since))
        BY <2>1, <4>3, TallyOfMore
      <4>5. Tally(q, AnsweredBefore(entry.since) \cup AnsweredSince(entry.since))
            <= Tally(q, AnsweredBefore(entry.since)) + Tally(q, AnsweredSince(entry.since))
        BY <2>1, TallyOfTwo
      <4>6. /\ Tally(q, Lately) \in Nat /\ Tally(q, AnsweredBefore(entry.since)) \in Nat
            /\ Tally(q, AnsweredSince(entry.since)) \in Nat
            /\ Tally(q, AnsweredBefore(entry.since) \cup AnsweredSince(entry.since)) \in Nat
        BY <2>1, TallyIsNumber
      <4>7. /\ Tally(q, AnsweredBefore(entry.since)) < AttemptLimit
            /\ Tally(q, AnsweredSince(entry.since)) <= AttemptLimit
            /\ \/ Tally(q, AnsweredBefore(entry.since)) < AttemptLimit - 1
               \/ Tally(q, AnsweredSince(entry.since)) < AttemptLimit
        BY <4>1 DEF RowBrakes
      <4> QED BY <2>1, <4>4, <4>5, <4>6, <4>7
    <3>2. CASE s \notin DOMAIN throttles
      <4>1. \A i \in DOMAIN q : q[i].at <= minute - Window BY <2>1, <3>2 DEF ScopeTrue, q
      <4>2. \A i \in DOMAIN q : q[i] \notin Lately BY <2>1, <4>1
      <4>3. Tally(q, Lately) = 0 BY <4>2, TallyOfNone
      <4> QED BY <2>1, <4>3
    <3> QED BY <3>1, <3>2
  <2> HIDE DEF Lately
  <2> QED BY <2>2, <2>3 DEF Tally, q
<1> QED BY <1>1, <1>2 DEF ThrottleSound

(* Who is refused has used up the limit within one window of his own, and however the *)
(* attempts fall around the end of a window, fewer than 2 * limit - 1 are answered in the *)
(* time of one (record_auth_throttle_attempt, check_auth_throttle). *)
THEOREM ThrottleTrue == ThrottleSpec => []ThrottleSound
BY ThrottleStart, ThrottleStep, ThrottleHolds, PTL DEF ThrottleSpec

--------------------
\* Accounts
\* What a request read and is to do; and as long as nobody else has committed about the rows
\* it read they are as it read them, and a link that is to set a password is held until then.
QueryKinds == {"setup", "enable", "disable", "approve", "reject", "vendor", "account",
               "link", "confirm"}
QueryRow(q) ==
  /\ q \in [kind: QueryKinds, topic: Topics, data: {q.data}, person: PersonRow,
            vendor: VendorStatuses, lapped: BOOLEAN]
  /\ q.topic = IF q.kind \in {"setup", "enable", "disable"} THEN "admins"
               ELSE IF q.kind \in {"link", "confirm"} THEN "links" ELSE "person"
AdminFits(r) == LET q == request[r] IN
  /\ q.kind = "setup" => /\ q.data \in Admins /\ setups = 0
                         /\ \A s \in Begun \ {r} : request[s].kind # "setup"
  /\ q.kind \in {"enable", "disable"} => q.data \in Admins /\ setups > 0
  /\ q.kind = "disable" /\ ~q.lapped => \E b \in admins : b # q.data
PersonFits(r) == LET q == request[r] IN
  /\ q.topic = "person" =>
       person.status # "absent" /\ (~q.lapped => q.person = person /\ q.vendor = vendor)
  /\ q.kind = "vendor" => q.data \in VendorStatuses \ {"none", "pending"}
  /\ q.kind = "account" => q.data \in {"on", "off"} \cup AccountStatuses
LinkFits(r) == LET q == request[r] IN
  /\ q.topic = "links" => q.data \subseteq 1..Len(links)
  /\ q.kind = "link" /\ ~q.lapped => \A l \in 1..Len(links) : ~links[l].consumed => l \in q.data
  /\ q.kind = "confirm" => /\ \A l \in q.data : ~links[l].consumed
                           /\ \A s \in Begun \ {r} : request[s].kind = "confirm"
                                                     => request[s].data \cap q.data = {}
QueriesFit == /\ request = [r \in Requests |-> request[r]]
              /\ \A r \in Begun : /\ QueryRow(request[r])
                                  /\ AdminFits(r) /\ PersonFits(r) /\ LinkFits(r)

AccountRows ==
  /\ setups \in {0, 1} /\ admins \subseteq Admins /\ person \in PersonRow /\ vendor \in VendorStatuses
  /\ links \in Seq(LinkRow) /\ letIn \in BOOLEAN /\ undisturbed \subseteq Topics
  /\ decisions \in 0..MaxDecisions
  /\ person.status = "absent" => vendor = "none"
  /\ person.status # "absent" => setups = 1
Undoubted == "person" \in undisturbed =>
  /\ person.active /\ person.status = "active" => letIn
  /\ person.status # "absent" => (~person.active <=> person.status = "stopped")
LinksTrue ==
  /\ \A l \in 1..Len(links) : links[l].uses <= 1 /\ (~links[l].consumed => links[l].uses = 0)
  /\ "links" \in undisturbed =>
       \A l, m \in 1..Len(links) : ~links[l].consumed /\ ~links[m].consumed => l = m
AccountsInv == AccountRows /\ AdministratorLeft /\ Undoubted /\ LinksTrue /\ QueriesFit

--------------------
(* A request begins: it fits if what it read does, and the others fit as before. *)
LEMMA AccessBegan ==
  ASSUME AccountsInv, NEW r \in Requests, NEW kind \in QueryKinds, NEW topic \in Topics, NEW data,
         BeginRequest(r, kind, topic, data)
  PROVE  LET q == [kind |-> kind, topic |-> topic, data |-> data, person |-> person,
                   vendor |-> vendor, lapped |-> FALSE]
         IN  /\ request[r] = NoRequest /\ request'[r] = q
             /\ request' = [s \in Requests |-> request'[s]]
             /\ Begun' = Begun \cup {r} /\ r \notin Begun
             /\ \A s \in Begun : request'[s] = request[s]
             /\ UNCHANGED <<setups, admins, person, vendor, links, letIn, undisturbed>>
             /\ decisions' \in 0..MaxDecisions
<1> DEFINE q == [kind |-> kind, topic |-> topic, data |-> data, person |-> person,
                 vendor |-> vendor, lapped |-> FALSE]
<1>1. /\ request[r] = NoRequest /\ request' = [request EXCEPT ![r] = q]
      /\ decisions < MaxDecisions /\ decisions' = decisions + 1
      /\ UNCHANGED <<setups, admins, person, vendor, links, letIn, undisturbed>>
  BY DEF BeginRequest
<1>2. q # NoRequest BY DEF NoRequest, QueryKinds
<1> HIDE DEF q
<1>3. request'[r] = q /\ request' = [s \in Requests |-> request'[s]]
      /\ \A s \in Requests \ {r} : request'[s] = request[s]
  BY <1>1 DEF AccountsInv, QueriesFit
<1>4. r \notin Begun /\ Begun' = Begun \cup {r} /\ \A s \in Begun : request'[s] = request[s]
  BY <1>1, <1>2, <1>3 DEF Begun
<1>5. decisions' \in 0..MaxDecisions
  <2>1. decisions \in 0..MaxDecisions /\ MaxDecisions \in Nat
    BY AccountsAssumption DEF AccountsInv, AccountRows
  <2>2. decisions < MaxDecisions /\ decisions' = decisions + 1 BY <1>1
  <2> QED BY <2>1, <2>2
<1> QED BY <1>1, <1>3, <1>4, <1>5 DEF q

LEMMA BeganFits ==
  ASSUME AccountsInv, NEW r \in Requests, NEW kind \in QueryKinds, NEW topic \in Topics, NEW data,
         BeginRequest(r, kind, topic, data),
         topic = IF kind \in {"setup", "enable", "disable"} THEN "admins"
                 ELSE IF kind \in {"link", "confirm"} THEN "links" ELSE "person",
         kind = "setup" => data \in Admins /\ setups = 0 /\ SetupFree,
         kind \in {"enable", "disable"} => data \in Admins /\ setups > 0,
         kind = "disable" => \E b \in admins : b # data,
         topic = "person" => person.status # "absent",
         kind = "vendor" => data \in VendorStatuses \ {"none", "pending"},
         kind = "account" => data \in {"on", "off"} \cup AccountStatuses,
         kind = "link" => data = OlderLinks,
         kind = "confirm" => \E l \in 1..Len(links) : LinkFree(r, l) /\ ~links[l].consumed /\ data = {l}
  PROVE  AccountsInv'
<1> DEFINE q == [kind |-> kind, topic |-> topic, data |-> data, person |-> person,
                 vendor |-> vendor, lapped |-> FALSE]
<1>1. /\ request[r] = NoRequest /\ request'[r] = q
      /\ request' = [s \in Requests |-> request'[s]]
      /\ Begun' = Begun \cup {r} /\ r \notin Begun
      /\ \A s \in Begun : request'[s] = request[s]
      /\ UNCHANGED <<setups, admins, person, vendor, links, letIn, undisturbed>>
      /\ decisions' \in 0..MaxDecisions
  BY AccessBegan
<1>2. /\ q.kind = kind /\ q.topic = topic /\ q.data = data /\ q.person = person
      /\ q.vendor = vendor /\ q.lapped = FALSE
  OBVIOUS
<1>3. QueryRow(q) BY DEF QueryRow, AccountsInv, AccountRows
<1> HIDE DEF q
<1>4. \A s \in Begun : /\ QueryRow(request[s]) /\ AdminFits(s) /\ PersonFits(s) /\ LinkFits(s)
  BY DEF AccountsInv, QueriesFit
<1>5. \A s \in Begun' : QueryRow(request'[s]) BY <1>1, <1>3, <1>4
<1>6. \A s \in Begun' : AdminFits(s)' BY <1>1, <1>2, <1>4 DEF AdminFits, SetupFree
<1>7. \A s \in Begun' : PersonFits(s)' BY <1>1, <1>2, <1>4 DEF PersonFits
<1>8. \A s \in Begun' : LinkFits(s)'
  <2>1. kind = "link" => data \subseteq 1..Len(links) /\ \A l \in 1..Len(links) : ~links[l].consumed => l \in data
    BY DEF OlderLinks
  <2>2. kind = "confirm" =>
          /\ data \subseteq 1..Len(links) /\ \A l \in data : ~links[l].consumed
          /\ \A s \in Begun : request[s].kind = "confirm" => request[s].data \cap data = {}
    BY <1>1 DEF LinkFree
  <2>3. topic = "links" => kind \in {"link", "confirm"} BY DEF QueryKinds
  <2> QED BY <1>1, <1>2, <1>4, <2>1, <2>2, <2>3 DEF LinkFits
<1>9. QueriesFit' BY <1>1, <1>5, <1>6, <1>7, <1>8 DEF QueriesFit
<1> QED BY <1>1, <1>9 DEF AccountsInv, AccountRows, AdministratorLeft, Undoubted, LinksTrue

(* A request commits: what others have read about the same is no longer so. *)
LEMMA Ended ==
  ASSUME AccountsInv, NEW r \in Begun, EndRequest(r)
  PROVE  /\ Begun' = Begun \ {r} /\ request' = [s \in Requests |-> request'[s]]
         /\ \A s \in Begun \ {r} :
              /\ QueryRow(request'[s])
              /\ request'[s].kind = request[s].kind /\ request'[s].topic = request[s].topic
              /\ request'[s].data = request[s].data /\ request'[s].person = request[s].person
              /\ request'[s].vendor = request[s].vendor
              /\ request'[s].lapped <=> request[s].lapped \/ request[s].topic = request[r].topic
         /\ undisturbed' = IF request[r].lapped THEN undisturbed \ {request[r].topic} ELSE undisturbed
         /\ decisions' = decisions
<1>1. /\ request' = [q \in Requests |->
                      CASE q = r -> NoRequest
                        [] q \in Begun \ {r} /\ request[q].topic = request[r].topic
                             -> [request[q] EXCEPT !.lapped = TRUE]
                        [] OTHER -> request[q]]
      /\ undisturbed' = IF request[r].lapped THEN undisturbed \ {request[r].topic} ELSE undisturbed
      /\ decisions' = decisions
  BY DEF EndRequest
<1>2. \A s \in Begun : s \in Requests /\ QueryRow(request[s]) BY DEF Begun, AccountsInv, QueriesFit
<1>3. request'[r] = NoRequest BY <1>1, <1>2
<1>4. \A s \in Requests \ Begun : request'[s] = NoRequest
  <2> TAKE s \in Requests \ Begun
  <2>1. s # r /\ ~(s \in Begun \ {r} /\ request[s].topic = request[r].topic) /\ request[s] = NoRequest
    BY DEF Begun
  <2> QED BY <1>1, <2>1
<1>5. \A s \in Begun \ {r} :
        /\ QueryRow(request'[s])
        /\ request'[s].kind = request[s].kind /\ request'[s].topic = request[s].topic
        /\ request'[s].data = request[s].data /\ request'[s].person = request[s].person
        /\ request'[s].vendor = request[s].vendor
        /\ request'[s].lapped <=> request[s].lapped \/ request[s].topic = request[r].topic
  <2> TAKE s \in Begun \ {r}
  <2> DEFINE q == request[s]
             told == [q EXCEPT !.lapped = TRUE]
  <2>1. QueryRow(q) /\ s \in Requests /\ s # r BY <1>2
  <2>2. QueryRow(told) /\ told.kind = q.kind /\ told.topic = q.topic /\ told.data = q.data
        /\ told.person = q.person /\ told.vendor = q.vendor /\ told.lapped = TRUE
    <3> HIDE DEF q
    <3> DEFINE S == [kind: QueryKinds, topic: Topics, data: {q.data}, person: PersonRow,
                     vendor: VendorStatuses, lapped: BOOLEAN]
    <3>1. q \in S BY <2>1 DEF QueryRow
    <3>2. told \in S /\ told.kind = q.kind /\ told.topic = q.topic /\ told.data = q.data
          /\ told.person = q.person /\ told.vendor = q.vendor /\ told.lapped = TRUE
      BY <3>1
    <3> QED BY <2>1, <3>2 DEF QueryRow
  <2> HIDE DEF told
  <2>3. CASE q.topic = request[r].topic
    <3>1. request'[s] = told BY <1>1, <2>1, <2>3 DEF told
    <3> QED BY <2>2, <2>3, <3>1
  <2>4. CASE q.topic # request[r].topic
    <3>1. request'[s] = q BY <1>1, <2>1, <2>4
    <3> QED BY <2>1, <2>4, <3>1
  <2> QED BY <2>3, <2>4
<1>6. Begun' = Begun \ {r}
  <2>1. \A s \in Begun \ {r} : request'[s] # NoRequest
    <3> TAKE s \in Begun \ {r}
    <3>1. request'[s].kind \in QueryKinds BY <1>5 DEF QueryRow
    <3> QED BY <3>1 DEF NoRequest, QueryKinds
  <2>2. Begun' = {s \in Requests : request'[s] # NoRequest} BY DEF Begun
  <2> QED BY <1>2, <1>3, <1>4, <2>1, <2>2
<1>7. request' = [s \in Requests |-> request'[s]] BY <1>1
<1> QED BY <1>1, <1>5, <1>6, <1>7

(* What a request that commits leaves of the others, whatever it writes. *)
LEMMA EndedFits ==
  ASSUME AccountsInv, NEW r \in Begun, EndRequest(r), AccountRows', Undoubted', AdministratorLeft', LinksTrue',
         \A s \in Begun \ {r} : AdminFits(s)' /\ PersonFits(s)' /\ LinkFits(s)'
  PROVE  AccountsInv'
<1>1. /\ Begun' = Begun \ {r} /\ request' = [s \in Requests |-> request'[s]]
      /\ \A s \in Begun \ {r} : QueryRow(request'[s])
  BY Ended
<1>2. QueriesFit' BY <1>1 DEF QueriesFit
<1> QED BY <1>2 DEF AccountsInv

(* The first setup commits: there is an administrator, and nobody else has read that there is none. *)
LEMMA CommitSetupFits ==
  ASSUME AccountsInv, NEW r \in Requests, CommitSetup(r)
  PROVE  AccountsInv'
<1>1. request[r].kind = "setup" /\ EndRequest(r) /\ setups' = setups + 1
      /\ admins' = admins \cup {request[r].data}
      /\ UNCHANGED <<person, vendor, links, letIn>>
  BY DEF CommitSetup
<1>2. r \in Begun BY <1>1 DEF Begun, NoRequest
<1>3. QueryRow(request[r]) /\ AdminFits(r) BY <1>2 DEF AccountsInv, QueriesFit
<1>4. request[r].topic = "admins" /\ request[r].data \in Admins /\ setups = 0
      /\ \A s \in Begun \ {r} : request[s].kind # "setup"
  BY <1>1, <1>3 DEF QueryRow, AdminFits
<1>5. \A s \in Begun : QueryRow(request[s]) /\ AdminFits(s) /\ PersonFits(s) /\ LinkFits(s)
  BY DEF AccountsInv, QueriesFit
<1>6. /\ Begun' = Begun \ {r}
      /\ \A s \in Begun \ {r} :
              /\ request'[s].kind = request[s].kind /\ request'[s].topic = request[s].topic
              /\ request'[s].data = request[s].data /\ request'[s].person = request[s].person
              /\ request'[s].vendor = request[s].vendor
              /\ request'[s].lapped <=> request[s].lapped \/ request[s].topic = "admins"
      /\ undisturbed' = IF request[r].lapped THEN undisturbed \ {"admins"} ELSE undisturbed
      /\ decisions' = decisions
  BY <1>1, <1>2, <1>4, Ended
<1>7. AccountRows' /\ Undoubted' /\ AdministratorLeft' /\ LinksTrue'
  BY <1>1, <1>4, <1>6 DEF AccountsInv, AccountRows, Undoubted, AdministratorLeft, LinksTrue
<1>8. \A s \in Begun \ {r} : AdminFits(s)' BY <1>1, <1>4, <1>5, <1>6 DEF AdminFits
<1>9. \A s \in Begun \ {r} : PersonFits(s)' BY <1>1, <1>4, <1>5, <1>6 DEF PersonFits
<1>10. \A s \in Begun \ {r} : LinkFits(s)' BY <1>1, <1>4, <1>5, <1>6 DEF LinkFits, QueryRow
<1> QED BY <1>1, <1>2, <1>7, <1>8, <1>9, <1>10, EndedFits

(* An administrator is disabled, or enabled: unless the request was overtaken, the other one *)
(* that it found is still there. *)
LEMMA CommitAdminFits ==
  ASSUME AccountsInv, NEW r \in Requests, CommitAdmin(r)
  PROVE  AccountsInv'
<1>1. request[r].kind \in {"disable", "enable"} /\ EndRequest(r)
      /\ admins' = (IF request[r].kind = "disable" THEN admins \ {request[r].data}
                    ELSE admins \cup {request[r].data})
      /\ UNCHANGED <<setups, person, vendor, links, letIn>>
  BY DEF CommitAdmin
<1>2. r \in Begun BY <1>1 DEF Begun, NoRequest
<1>3. QueryRow(request[r]) /\ AdminFits(r) BY <1>2 DEF AccountsInv, QueriesFit
<1>4. request[r].topic = "admins" /\ request[r].data \in Admins /\ setups > 0
      /\ (request[r].kind = "disable" /\ ~request[r].lapped => \E b \in admins : b # request[r].data)
  BY <1>1, <1>3 DEF QueryRow, AdminFits
<1>5. \A s \in Begun : QueryRow(request[s]) /\ AdminFits(s) /\ PersonFits(s) /\ LinkFits(s)
  BY DEF AccountsInv, QueriesFit
<1>6. /\ Begun' = Begun \ {r}
      /\ \A s \in Begun \ {r} :
              /\ request'[s].kind = request[s].kind /\ request'[s].topic = request[s].topic
              /\ request'[s].data = request[s].data /\ request'[s].person = request[s].person
              /\ request'[s].vendor = request[s].vendor
              /\ request'[s].lapped <=> request[s].lapped \/ request[s].topic = "admins"
      /\ undisturbed' = IF request[r].lapped THEN undisturbed \ {"admins"} ELSE undisturbed
      /\ decisions' = decisions
  BY <1>1, <1>2, <1>4, Ended
<1>7. AccountRows' /\ Undoubted' /\ LinksTrue'
  BY <1>1, <1>4, <1>6 DEF AccountsInv, AccountRows, Undoubted, LinksTrue
<1>8. AdministratorLeft' BY <1>1, <1>4, <1>6 DEF AdministratorLeft
<1>9. \A s \in Begun \ {r} : AdminFits(s)' BY <1>1, <1>4, <1>5, <1>6 DEF AdminFits, QueryRow
<1>10. \A s \in Begun \ {r} : PersonFits(s)' BY <1>1, <1>4, <1>5, <1>6 DEF PersonFits
<1>11. \A s \in Begun \ {r} : LinkFits(s)' BY <1>1, <1>4, <1>5, <1>6 DEF LinkFits, QueryRow
<1> QED BY <1>1, <1>2, <1>7, <1>8, <1>9, <1>10, <1>11, EndedFits

(* What a request makes of an account and a profile are statuses that they can have. *)
LEMMA PersonAfterTyped ==
  ASSUME NEW q, QueryRow(q), q.kind \in {"approve", "reject", "vendor", "account"},
         q.kind = "vendor" => q.data \in VendorStatuses \ {"none", "pending"},
         q.kind = "account" => q.data \in {"on", "off"} \cup AccountStatuses
  PROVE  /\ PersonAfter(q).active \in BOOLEAN
         /\ PersonAfter(q).status \in AccountStatuses \/ PersonAfter(q).status = q.person.status
         /\ VendorAfter(q) \in VendorStatuses
<1>1. q.person.status \in AccountStatuses \cup {"absent"} /\ q.person.active \in BOOLEAN
      /\ q.vendor \in VendorStatuses
  BY DEF QueryRow, PersonRow
<1>2. q.person = [status |-> q.person.status, active |-> q.person.active] BY DEF QueryRow, PersonRow
<1>3. CASE q.kind = "approve"
  BY <1>1, <1>3 DEF PersonAfter, VendorAfter, AccountStatuses, VendorStatuses
<1>4. CASE q.kind = "reject"
  BY <1>1, <1>4 DEF PersonAfter, VendorAfter, AccountStatuses, VendorStatuses
<1>5. CASE q.kind = "account"
  <2>1. PersonAfter(q) = Changed(q.person, q.data) /\ VendorAfter(q) = q.vendor
    BY <1>5 DEF PersonAfter, VendorAfter
  <2>2. /\ Changed(q.person, q.data).active \in BOOLEAN
        /\ Changed(q.person, q.data).status \in AccountStatuses
           \/ Changed(q.person, q.data).status = q.person.status
    BY <1>1, <1>5 DEF Changed, AccountStatuses
  <2> QED BY <1>1, <2>1, <2>2
<1>6. CASE q.kind = "vendor"
  <2>1. VendorAfter(q) = q.data BY <1>6 DEF VendorAfter
  <2>2. PersonAfter(q) = IF LetInWith(q.person, q.vendor, q.data)
                         THEN [q.person EXCEPT !.status = "active"] ELSE q.person
    BY <1>6 DEF PersonAfter
  <2>3. LET new == [q.person EXCEPT !.status = "active"]
        IN new.status = "active" /\ new.active = q.person.active
    BY <1>2
  <2> QED BY <1>1, <1>6, <2>1, <2>2, <2>3 DEF AccountStatuses
<1> QED BY <1>3, <1>4, <1>5, <1>6

(* A decision about the person commits: of the rows it writes only what it changed, which, if *)
(* it was not overtaken, is what it read. *)
LEMMA CommitPersonFits ==
  ASSUME AccountsInv, NEW r \in Requests, CommitPerson(r)
  PROVE  AccountsInv'
<1> DEFINE q == request[r]
           new == PersonAfter(q)
<1>1. /\ q.kind \in {"approve", "reject", "vendor", "account"} /\ EndRequest(r)
      /\ person' = [status |-> Written(new.status, q.person.status, person.status),
                    active |-> Written(new.active, q.person.active, person.active)]
      /\ vendor' = Written(VendorAfter(q), q.vendor, vendor)
      /\ letIn' = CASE q.kind = "approve" \/ (q.kind = "account" /\ q.data \in {"on", "active"}) -> TRUE
                      [] q.kind = "reject" \/ (q.kind = "account" /\ q.data \notin {"on", "active"}) -> FALSE
                      [] OTHER -> letIn \/ (q.person.status = "pending" /\ q.vendor = "pending" /\ q.data = "active")
      /\ UNCHANGED <<setups, admins, links>>
  BY DEF CommitPerson
<1>2. r \in Begun BY <1>1 DEF Begun, NoRequest
<1>3. QueryRow(q) /\ PersonFits(r) BY <1>2 DEF AccountsInv, QueriesFit
<1>4. /\ q.topic = "person" /\ person.status # "absent"
      /\ ~q.lapped => q.person = person /\ q.vendor = vendor
      /\ q.kind = "vendor" => q.data \in VendorStatuses \ {"none", "pending"}
      /\ q.kind = "account" => q.data \in {"on", "off"} \cup AccountStatuses
  BY <1>1, <1>3 DEF QueryRow, PersonFits
<1>5. \A s \in Begun : QueryRow(request[s]) /\ AdminFits(s) /\ PersonFits(s) /\ LinkFits(s)
  BY DEF AccountsInv, QueriesFit
<1>6. /\ Begun' = Begun \ {r}
      /\ \A s \in Begun \ {r} :
              /\ request'[s].kind = request[s].kind /\ request'[s].topic = request[s].topic
              /\ request'[s].data = request[s].data /\ request'[s].person = request[s].person
              /\ request'[s].vendor = request[s].vendor
              /\ request'[s].lapped <=> request[s].lapped \/ request[s].topic = "person"
      /\ undisturbed' = IF q.lapped THEN undisturbed \ {"person"} ELSE undisturbed
      /\ decisions' = decisions
  BY <1>1, <1>2, <1>4, Ended
<1>7. /\ new.active \in BOOLEAN
      /\ new.status \in AccountStatuses \/ new.status = q.person.status
      /\ VendorAfter(q) \in VendorStatuses
  BY <1>1, <1>3, <1>4, PersonAfterTyped
<1>8. /\ person.status \in AccountStatuses /\ person.active \in BOOLEAN /\ vendor \in VendorStatuses
      /\ person = [status |-> person.status, active |-> person.active]
      /\ letIn \in BOOLEAN /\ setups = 1
  BY <1>4 DEF AccountsInv, AccountRows, PersonRow
<1>9. /\ person'.status = Written(new.status, q.person.status, person.status)
      /\ person'.active = Written(new.active, q.person.active, person.active)
      /\ person' \in [status: AccountStatuses, active: BOOLEAN]
  <2> HIDE DEF q, new
  <2>1. /\ Written(new.status, q.person.status, person.status) \in AccountStatuses
        /\ Written(new.active, q.person.active, person.active) \in BOOLEAN
    BY <1>7, <1>8 DEF Written
  <2> QED BY <1>1, <2>1
<1>10. vendor' \in VendorStatuses /\ letIn' \in BOOLEAN
  <2> HIDE DEF q, new
  <2>1. vendor' \in VendorStatuses BY <1>1, <1>7, <1>8 DEF Written
  <2> QED BY <1>1, <1>8, <2>1
<1>11. AccountRows'
  <2>1. /\ setups' = 1 /\ person' \in PersonRow /\ person'.status # "absent" /\ undisturbed' \subseteq Topics
        /\ admins' \subseteq Admins /\ links' \in Seq(LinkRow) /\ decisions' \in 0..MaxDecisions
    BY <1>1, <1>6, <1>8, <1>9 DEF AccountsInv, AccountRows, PersonRow, AccountStatuses
  <2> QED BY <1>10, <2>1 DEF AccountRows
<1>12. AdministratorLeft' /\ LinksTrue' BY <1>1, <1>6 DEF AccountsInv, AdministratorLeft, LinksTrue
<1>13. Undoubted'
  <2> SUFFICES ASSUME "person" \in undisturbed'
               PROVE  /\ person'.active /\ person'.status = "active" => letIn'
                      /\ person'.status # "absent" => (~person'.active <=> person'.status = "stopped")
    BY DEF Undoubted
  <2>1. "person" \in undisturbed /\ ~q.lapped /\ q.person = person /\ q.vendor = vendor
    BY <1>4, <1>6
  <2>2. /\ person.active /\ person.status = "active" => letIn
        /\ ~person.active <=> person.status = "stopped"
    BY <1>4, <2>1 DEF AccountsInv, Undoubted
  <2>3. person'.status = new.status /\ person'.active = new.active
    <3> HIDE DEF q, new
    <3> QED BY <1>9, <2>1 DEF Written
  <2>4. CASE q.kind = "approve"
    <3>1. new.status = "active" /\ new.active = TRUE BY <2>4 DEF PersonAfter
    <3>2. letIn' = TRUE BY <1>1, <2>4
    <3> QED BY <2>3, <3>1, <3>2
  <2>5. CASE q.kind = "reject"
    <3>1. new.status = "stopped" /\ new.active = FALSE BY <2>5 DEF PersonAfter
    <3> QED BY <2>3, <3>1
  <2>6. CASE q.kind = "account"
    <3>1. new = Changed(person, q.data) BY <2>1, <2>6 DEF PersonAfter
    <3>2. letIn' <=> q.data \in {"on", "active"}
      <4>1. CASE q.data \in {"on", "active"}
        <5>1. letIn' = TRUE BY <1>1, <2>6, <4>1
        <5> QED BY <4>1, <5>1
      <4>2. CASE q.data \notin {"on", "active"}
        <5>1. letIn' = FALSE BY <1>1, <2>6, <4>2
        <5> QED BY <4>2, <5>1
      <4> QED BY <4>1, <4>2
    <3>3. CASE q.data = "on"
      <4>1. new.active = TRUE /\ new.status = IF person.status = "stopped" THEN "active" ELSE person.status
        BY <3>1, <3>3 DEF Changed
      <4> QED BY <2>3, <3>2, <3>3, <4>1
    <3>4. CASE q.data = "off"
      <4>1. new.active = FALSE /\ new.status = "stopped" BY <3>1, <3>4 DEF Changed
      <4> QED BY <2>3, <4>1
    <3>5. CASE q.data \notin {"on", "off"}
      <4> DEFINE in == q.data # "stopped"
      <4>1. q.data # "on" /\ q.data # "off" BY <3>5
      <4>2. Changed(person, q.data) = [status |-> q.data, active |-> in] BY <4>1, Zenon DEF Changed
      <4> HIDE DEF in, q
      <4>3. new.status = q.data /\ new.active = in BY <3>1, <4>2
      <4>4. new.status = q.data /\ (new.active <=> q.data # "stopped") BY <4>3 DEF in
      <4> QED BY <2>3, <3>2, <4>4 DEF q
    <3> QED BY <3>3, <3>4, <3>5
  <2>7. CASE q.kind = "vendor"
    <3>1. new = IF LetInWith(person, vendor, q.data) THEN [person EXCEPT !.status = "active"] ELSE person
      BY <2>1, <2>7 DEF PersonAfter
    <3>2. letIn' = (letIn \/ (person.status = "pending" /\ vendor = "pending" /\ q.data = "active"))
      BY <1>1, <2>1, <2>7
    <3>3. CASE LetInWith(person, vendor, q.data)
      <4>1. LET p == [person EXCEPT !.status = "active"] IN p.status = "active" /\ p.active = person.active
        BY <1>8
      <4>2. new.status = "active" /\ new.active = person.active BY <3>1, <3>3, <4>1
      <4>3. person.status = "pending" /\ letIn' BY <3>2, <3>3 DEF LetInWith
      <4> QED BY <2>2, <2>3, <4>2, <4>3
    <3>4. CASE ~LetInWith(person, vendor, q.data)
      <4>1. new = person BY <3>1, <3>4
      <4> QED BY <2>2, <2>3, <3>2, <4>1
    <3> QED BY <3>3, <3>4
  <2> QED BY <1>1, <2>4, <2>5, <2>6, <2>7
<1> HIDE DEF q, new
<1>14. \A s \in Begun \ {r} : AdminFits(s)' BY <1>1, <1>5, <1>6 DEF AdminFits, QueryRow
<1>15. \A s \in Begun \ {r} : PersonFits(s)' BY <1>5, <1>6, <1>9 DEF PersonFits, AccountStatuses
<1>16. \A s \in Begun \ {r} : LinkFits(s)' BY <1>1, <1>5, <1>6 DEF LinkFits, QueryRow
<1> QED BY <1>1, <1>2, <1>11, <1>12, <1>13, <1>14, <1>15, <1>16, EndedFits

(* A link is consumed, or created: it held the link, or those before it, until now. *)
LEMMA CommitLinkFits ==
  ASSUME AccountsInv, NEW r \in Requests, CommitLink(r)
  PROVE  AccountsInv'
<1> DEFINE q == request[r]
           consumed == [l \in 1..Len(links) |->
                         IF l \in q.data
                         THEN [consumed |-> TRUE, uses |-> links[l].uses + IF q.kind = "confirm" THEN 1 ELSE 0]
                         ELSE links[l]]
<1>1. /\ q.kind \in {"link", "confirm"} /\ EndRequest(r)
      /\ q.kind = "link" => \A l \in q.data : LinkFree(r, l)
      /\ links' = IF q.kind = "link" THEN Append(consumed, [consumed |-> FALSE, uses |-> 0]) ELSE consumed
      /\ UNCHANGED <<setups, admins, person, vendor, letIn>>
  BY DEF CommitLink
<1>2. r \in Begun BY <1>1 DEF Begun, NoRequest
<1>3. QueryRow(q) /\ LinkFits(r) BY <1>2 DEF AccountsInv, QueriesFit
<1>4. /\ q.topic = "links" /\ q.data \subseteq 1..Len(links)
      /\ q.kind = "link" /\ ~q.lapped => \A l \in 1..Len(links) : ~links[l].consumed => l \in q.data
      /\ q.kind = "confirm" => /\ \A l \in q.data : ~links[l].consumed
                               /\ \A s \in Begun \ {r} : request[s].kind = "confirm"
                                                         => request[s].data \cap q.data = {}
  BY <1>1, <1>3 DEF QueryRow, LinkFits
<1>5. \A s \in Begun : QueryRow(request[s]) /\ AdminFits(s) /\ PersonFits(s) /\ LinkFits(s)
  BY DEF AccountsInv, QueriesFit
<1>6. /\ Begun' = Begun \ {r}
      /\ \A s \in Begun \ {r} :
              /\ request'[s].kind = request[s].kind /\ request'[s].topic = request[s].topic
              /\ request'[s].data = request[s].data /\ request'[s].person = request[s].person
              /\ request'[s].vendor = request[s].vendor
              /\ request'[s].lapped <=> request[s].lapped \/ request[s].topic = "links"
      /\ undisturbed' = IF q.lapped THEN undisturbed \ {"links"} ELSE undisturbed
      /\ decisions' = decisions
  BY <1>1, <1>2, <1>4, Ended
<1>7. links \in Seq(LinkRow) /\ Len(links) \in Nat /\ \A l \in 1..Len(links) : links[l] \in LinkRow
  BY ElementOfSeq, LenProperties DEF AccountsInv, AccountRows
<1> DEFINE n == Len(links)
<1>8. /\ consumed \in Seq(LinkRow) /\ Len(consumed) = n
      /\ \A l \in 1..n : l \notin q.data => consumed[l] = links[l]
      /\ \A l \in q.data : consumed[l].consumed = TRUE
                           /\ consumed[l].uses = links[l].uses + IF q.kind = "confirm" THEN 1 ELSE 0
  <2>1. \A l \in 1..n : links[l].uses \in Nat BY <1>7 DEF LinkRow
  <2>2. \A l \in 1..n : links[l].uses + (IF q.kind = "confirm" THEN 1 ELSE 0) \in Nat BY <2>1
  <2> HIDE DEF q
  <2>3. consumed \in [1..n -> LinkRow] BY <1>7, <2>2 DEF LinkRow
  <2>4. consumed \in Seq(LinkRow) /\ Len(consumed) = n BY <1>7, <2>3
  <2> QED BY <1>4, <2>4
<1>9. \A l \in 1..n : links[l].uses <= 1 /\ (~links[l].consumed => links[l].uses = 0)
  BY DEF AccountsInv, LinksTrue
<1> HIDE DEF consumed
<1>10. \A l \in 1..n : consumed[l].uses <= 1 /\ (~consumed[l].consumed => consumed[l].uses = 0)
  <2> HIDE DEF q
  <2> SUFFICES ASSUME NEW l \in 1..n
               PROVE  consumed[l].uses <= 1 /\ (~consumed[l].consumed => consumed[l].uses = 0)
    OBVIOUS
  <2>1. links[l].uses <= 1 /\ (~links[l].consumed => links[l].uses = 0) /\ links[l].uses \in Nat
    BY <1>7, <1>9 DEF LinkRow
  <2>2. CASE l \in q.data
    <3>1. consumed[l].consumed = TRUE
          /\ consumed[l].uses = links[l].uses + IF q.kind = "confirm" THEN 1 ELSE 0
      BY <1>8, <2>2
    <3>2. q.kind = "confirm" => links[l].uses = 0 BY <1>4, <2>1, <2>2 DEF q
    <3> QED BY <2>1, <3>1, <3>2
  <2>3. CASE l \notin q.data BY <1>8, <2>1, <2>3
  <2> QED BY <2>2, <2>3
<1>11. /\ \A l, m \in 1..n : "links" \in undisturbed' /\ ~consumed[l].consumed /\ ~consumed[m].consumed => l = m
       /\ q.kind = "link" /\ "links" \in undisturbed' => \A l \in 1..n : consumed[l].consumed
  <2>1. "links" \in undisturbed =>
          \A l, m \in 1..n : ~links[l].consumed /\ ~links[m].consumed => l = m
    BY DEF AccountsInv, LinksTrue
  <2> HIDE DEF q
  <2>2. \A l \in 1..n : ~consumed[l].consumed => l \notin q.data /\ ~links[l].consumed BY <1>8
  <2> QED BY <1>4, <1>6, <2>1, <2>2 DEF q
<1>12. /\ links' \in Seq(LinkRow) /\ Len(links') \in Nat /\ Len(links') >= n
       /\ \A l \in 1..n : links'[l] = consumed[l]
       /\ q.kind = "confirm" => Len(links') = n
       /\ q.kind = "link" => Len(links') = n + 1 /\ links'[n + 1] = [consumed |-> FALSE, uses |-> 0]
  <2>1. CASE q.kind = "link"
    <3> DEFINE fresh == [consumed |-> FALSE, uses |-> 0]
    <3>1. fresh \in LinkRow BY DEF LinkRow
    <3>2. links' = Append(consumed, fresh) BY <1>1, <2>1
    <3> HIDE DEF fresh, q
    <3>3. /\ Append(consumed, fresh) \in Seq(LinkRow) /\ Len(Append(consumed, fresh)) = n + 1
          /\ Append(consumed, fresh)[n + 1] = fresh
          /\ \A l \in 1..n : Append(consumed, fresh)[l] = consumed[l]
      BY <1>7, <1>8, <3>1, AppendProperties
    <3> QED BY <1>7, <2>1, <3>2, <3>3 DEF fresh
  <2>2. CASE q.kind = "confirm"
    <3>1. links' = consumed BY <1>1, <2>2
    <3> HIDE DEF q
    <3> QED BY <1>7, <1>8, <2>2, <3>1
  <2> QED BY <1>1, <2>1, <2>2
<1> HIDE DEF q
<1>13. LinksTrue'
  <2>1. CASE q.kind = "confirm" BY <1>10, <1>11, <1>12, <2>1 DEF LinksTrue
  <2>2. CASE q.kind = "link"
    <3> DEFINE f == links'[n + 1]
    <3>1. f.consumed = FALSE /\ f.uses = 0 BY <1>12, <2>2
    <3>2. \A l \in 1..Len(links') : l \in 1..n \/ l = n + 1 BY <1>7, <1>12, <2>2
    <3>3. \A l \in 1..Len(links') : links'[l].uses <= 1 /\ (~links'[l].consumed => links'[l].uses = 0)
      BY <1>10, <1>12, <3>1, <3>2
    <3>4. "links" \in undisturbed' => \A l \in 1..Len(links') : ~links'[l].consumed => l = n + 1
      BY <1>11, <1>12, <2>2, <3>2
    <3> QED BY <3>3, <3>4 DEF LinksTrue
  <2> QED BY <1>1, <2>1, <2>2 DEF q
<1>14. AccountRows' BY <1>1, <1>6, <1>12 DEF AccountsInv, AccountRows
<1>15. AdministratorLeft' /\ Undoubted' BY <1>1, <1>6 DEF AccountsInv, AdministratorLeft, Undoubted
<1>16. \A s \in Begun \ {r} : AdminFits(s)' BY <1>1, <1>5, <1>6 DEF AdminFits, QueryRow
<1>17. \A s \in Begun \ {r} : PersonFits(s)' BY <1>1, <1>5, <1>6 DEF PersonFits, QueryRow
<1>18. \A s \in Begun \ {r} : LinkFits(s)'
  <2> SUFFICES ASSUME NEW s \in Begun \ {r} PROVE LinkFits(s)' OBVIOUS
  <2>1. QueryRow(request[s]) /\ LinkFits(s) BY <1>5
  <2>2. request[s].topic = "links" => request[s].data \subseteq 1..Len(links')
    BY <1>7, <1>12, <2>1 DEF LinkFits
  <2>3. request[s].kind = "link" => request'[s].lapped BY <1>6, <2>1 DEF QueryRow
  <2>4. request[s].kind = "confirm" =>
          /\ request[s].data \subseteq 1..n /\ \A l \in request[s].data : ~links[l].consumed
          /\ request[s].data \cap q.data = {}
    <3> SUFFICES ASSUME request[s].kind = "confirm"
                 PROVE  /\ request[s].data \subseteq 1..n /\ \A l \in request[s].data : ~links[l].consumed
                        /\ request[s].data \cap q.data = {}
      OBVIOUS
    <3>1. request[s].data \subseteq 1..n /\ \A l \in request[s].data : ~links[l].consumed
      BY <2>1 DEF LinkFits, QueryRow
    <3>2. CASE q.kind = "confirm" BY <1>4, <3>1, <3>2 DEF q
    <3>3. CASE q.kind = "link"
      <4>1. \A l \in q.data : l \notin request[s].data BY <1>1, <3>3 DEF LinkFree, q
      <4> QED BY <3>1, <4>1
    <3> QED BY <1>1, <3>1, <3>2, <3>3 DEF q
  <2>5. request[s].kind = "confirm" => \A l \in request[s].data : ~links'[l].consumed
    BY <1>8, <1>12, <2>4
  <2>6. request[s].kind = "confirm" =>
          \A t \in Begun' \ {s} : request'[t].kind = "confirm" => request'[t].data \cap request[s].data = {}
    BY <1>6, <2>1 DEF LinkFits
  <2> QED BY <1>6, <2>2, <2>3, <2>5, <2>6 DEF LinkFits
<1> QED BY <1>1, <1>2, <1>13, <1>14, <1>15, <1>16, <1>17, <1>18, EndedFits

(* The person registers: nobody has read his account, as there was none. *)
LEMMA RegisterFits ==
  ASSUME AccountsInv, Register
  PROVE  AccountsInv'
<1>1. /\ setups > 0 /\ person.status = "absent" /\ person' = [status |-> "pending", active |-> TRUE]
      /\ vendor' \in {"none", "pending"}
      /\ UNCHANGED <<setups, admins, links, request, letIn, undisturbed, decisions>>
  BY DEF Register
<1>2. \A s \in Begun : QueryRow(request[s]) /\ AdminFits(s) /\ PersonFits(s) /\ LinkFits(s)
  BY DEF AccountsInv, QueriesFit
<1>3. person'.status = "pending" /\ person'.active = TRUE /\ person' \in PersonRow
  BY <1>1 DEF PersonRow, AccountStatuses
<1>4. AccountRows' BY <1>1, <1>3 DEF AccountsInv, AccountRows, VendorStatuses
<1>5. AdministratorLeft' /\ Undoubted' /\ LinksTrue'
  BY <1>1, <1>3 DEF AccountsInv, AdministratorLeft, Undoubted, LinksTrue
<1>6. Begun' = Begun BY <1>1 DEF Begun
<1>7. \A s \in Begun' : PersonFits(s)' BY <1>1, <1>2, <1>3, <1>6 DEF PersonFits
<1>8. \A s \in Begun' : QueryRow(request'[s]) /\ AdminFits(s)' /\ LinkFits(s)'
  BY <1>1, <1>2, <1>6 DEF AdminFits, LinkFits
<1>9. QueriesFit' BY <1>1, <1>7, <1>8 DEF QueriesFit, AccountsInv
<1> QED BY <1>4, <1>5, <1>9 DEF AccountsInv

(* A request is rolled back: the others have read what still is. *)
LEMMA FailRequestFits ==
  ASSUME AccountsInv, NEW r \in Requests, FailRequest(r)
  PROVE  AccountsInv'
<1>1. r \in Begun /\ request' = [request EXCEPT ![r] = NoRequest]
      /\ UNCHANGED <<setups, admins, person, vendor, links, letIn, undisturbed, decisions>>
  BY DEF FailRequest
<1>2. \A s \in Begun : QueryRow(request[s]) /\ AdminFits(s) /\ PersonFits(s) /\ LinkFits(s)
  BY DEF AccountsInv, QueriesFit
<1>3. request'[r] = NoRequest /\ request' = [s \in Requests |-> request'[s]]
      /\ \A s \in Requests \ {r} : request'[s] = request[s]
  BY <1>1 DEF AccountsInv, QueriesFit
<1>4. Begun' = Begun \ {r} BY <1>3 DEF Begun
<1>5. \A s \in Begun' : /\ QueryRow(request'[s]) /\ AdminFits(s)' /\ PersonFits(s)' /\ LinkFits(s)'
  <2>1. \A s \in Begun' : s \in Begun /\ request'[s] = request[s] BY <1>3, <1>4 DEF Begun
  <2>2. \A s \in Begun' : AdminFits(s)' BY <1>1, <1>2, <1>4, <2>1 DEF AdminFits
  <2>3. \A s \in Begun' : PersonFits(s)' BY <1>1, <1>2, <1>4, <2>1 DEF PersonFits
  <2>4. \A s \in Begun' : LinkFits(s)' BY <1>1, <1>2, <1>4, <2>1 DEF LinkFits
  <2> QED BY <1>2, <2>1, <2>2, <2>3, <2>4
<1>6. QueriesFit' BY <1>3, <1>5 DEF QueriesFit
<1> QED BY <1>1, <1>6 DEF AccountsInv, AccountRows, AdministratorLeft, Undoubted, LinksTrue

LEMMA AccountsStart == AccountsInit => AccountsInv
<1> SUFFICES ASSUME AccountsInit PROVE AccountsInv OBVIOUS
<1>1. /\ setups = 0 /\ admins = {} /\ links = <<>>
      /\ person = [status |-> "absent", active |-> FALSE] /\ vendor = "none"
      /\ request = [r \in Requests |-> NoRequest]
      /\ letIn = FALSE /\ undisturbed = Topics /\ decisions = 0
  BY DEF AccountsInit
<1>2. links \in Seq(LinkRow) /\ Len(links) = 0 BY <1>1, EmptySeq
<1>3. person \in PersonRow /\ person.status = "absent" BY <1>1 DEF PersonRow
<1>4. Begun = {} /\ request = [r \in Requests |-> request[r]] BY <1>1 DEF Begun
<1>5. AccountRows
  <2>1. decisions \in 0..MaxDecisions BY <1>1, AccountsAssumption
  <2>2. setups \in {0, 1} /\ admins \subseteq Admins /\ vendor \in VendorStatuses
        /\ letIn \in BOOLEAN /\ undisturbed \subseteq Topics
    BY <1>1 DEF VendorStatuses
  <2>3. person.status = "absent" /\ vendor = "none" BY <1>1
  <2> QED BY <1>2, <1>3, <2>1, <2>2, <2>3 DEF AccountRows
<1>6. Undoubted /\ LinksTrue /\ AdministratorLeft
  BY <1>1, <1>2 DEF Undoubted, LinksTrue, AdministratorLeft
<1>7. QueriesFit BY <1>4 DEF QueriesFit
<1> QED BY <1>5, <1>6, <1>7 DEF AccountsInv

(* The only administrator is not the one of two that is disabled. *)
LEMMA AnotherOne ==
  ASSUME NEW S, NEW a \in S, Cardinality(S) > 1
  PROVE  \E b \in S : b # a
<1> SUFFICES ASSUME \A b \in S : b = a PROVE FALSE OBVIOUS
<1>1. S = {a} OBVIOUS
<1>2. Cardinality(S) = 1 BY <1>1, FS_Singleton
<1> QED BY <1>2

(* Every step about the accounts keeps the invariant. *)
LEMMA AccountsStep ==
  ASSUME AccountsInv, [AccountsNext]_accountVars
  PROVE  AccountsInv'
<1>0. CASE UNCHANGED accountVars
  <2>1. UNCHANGED <<setups, admins, person, vendor, links, request, letIn, undisturbed, decisions>>
    BY <1>0 DEF accountVars
  <2> QED
    BY <2>1 DEF AccountsInv, AccountRows, AdministratorLeft, Undoubted, LinksTrue, QueriesFit, Begun,
                AdminFits, PersonFits, LinkFits
<1>1. CASE Register BY <1>1, RegisterFits
<1>2. ASSUME NEW r \in Requests, BeginSetup(r) PROVE AccountsInv'
  <2>1. PICK a \in Admins : BeginRequest(r, "setup", "admins", a) BY <1>2 DEF BeginSetup
  <2>2. setups = 0 /\ SetupFree BY <1>2 DEF BeginSetup
  <2> QED BY <2>1, <2>2, BeganFits DEF QueryKinds, Topics
<1>3. ASSUME NEW r \in Requests, BeginAdmin(r) PROVE AccountsInv'
  <2>1. PICK a \in Admins :
          /\ setups > 0 /\ (a \in admins => MayDisable(a))
          /\ BeginRequest(r, IF a \in admins THEN "disable" ELSE "enable", "admins", a)
    BY <1>3 DEF BeginAdmin
  <2>2. CASE a \in admins
    <3>1. \E b \in admins : b # a BY <2>1, <2>2, AnotherOne DEF MayDisable
    <3>2. BeginRequest(r, "disable", "admins", a) BY <2>1, <2>2
    <3> QED BY <2>1, <3>1, <3>2, BeganFits DEF QueryKinds, Topics
  <2>3. CASE a \notin admins
    <3>1. BeginRequest(r, "enable", "admins", a) BY <2>1, <2>3
    <3> QED BY <2>1, <3>1, BeganFits DEF QueryKinds, Topics
  <2> QED BY <2>2, <2>3
<1>4. ASSUME NEW r \in Requests, BeginRegistration(r) PROVE AccountsInv'
  <2>1. PICK kind \in {"approve", "reject"} : BeginRequest(r, kind, "person", kind)
    BY <1>4 DEF BeginRegistration
  <2>2. person.status # "absent" BY <1>4 DEF BeginRegistration
  <2>3. CASE kind = "approve" BY <2>1, <2>2, <2>3, BeganFits DEF QueryKinds, Topics
  <2>4. CASE kind = "reject" BY <2>1, <2>2, <2>4, BeganFits DEF QueryKinds, Topics
  <2> QED BY <2>3, <2>4
<1>5. ASSUME NEW r \in Requests, BeginVendor(r) PROVE AccountsInv'
  <2>1. PICK to \in VendorStatuses \ {"none", "pending"} : BeginRequest(r, "vendor", "person", to)
    BY <1>5 DEF BeginVendor
  <2>2. person.status # "absent" BY <1>5 DEF BeginVendor, AccountsInv, AccountRows
  <2> QED BY <2>1, <2>2, BeganFits DEF QueryKinds, Topics
<1>6. ASSUME NEW r \in Requests, BeginPerson(r) PROVE AccountsInv'
  <2>1. PICK to \in {"on", "off"} \cup AccountStatuses : BeginRequest(r, "account", "person", to)
    BY <1>6 DEF BeginPerson
  <2>2. person.status # "absent" BY <1>6 DEF BeginPerson
  <2> QED BY <2>1, <2>2, BeganFits DEF QueryKinds, Topics
<1>7. ASSUME NEW r \in Requests, BeginLink(r) PROVE AccountsInv'
  <2>1. BeginRequest(r, "link", "links", OlderLinks) BY <1>7 DEF BeginLink
  <2> QED BY <2>1, BeganFits DEF QueryKinds, Topics
<1>8. ASSUME NEW r \in Requests, BeginConfirm(r) PROVE AccountsInv'
  <2>1. PICK l \in 1..Len(links) : LinkFree(r, l) /\ ~links[l].consumed /\ BeginRequest(r, "confirm", "links", {l})
    BY <1>8 DEF BeginConfirm
  <2> DEFINE data == {l}
  <2>2. \E m \in 1..Len(links) : LinkFree(r, m) /\ ~links[m].consumed /\ data = {m} BY <2>1
  <2>3. BeginRequest(r, "confirm", "links", data) BY <2>1
  <2> HIDE DEF data
  <2> QED BY <2>2, <2>3, BeganFits DEF QueryKinds, Topics
<1>9. ASSUME NEW r \in Requests,
             CommitSetup(r) \/ CommitAdmin(r) \/ CommitPerson(r) \/ CommitLink(r) \/ FailRequest(r)
      PROVE  AccountsInv'
  BY <1>9, CommitSetupFits, CommitAdminFits, CommitPersonFits, CommitLinkFits, FailRequestFits
<1> QED BY <1>0, <1>1, <1>2, <1>3, <1>4, <1>5, <1>6, <1>7, <1>8, <1>9 DEF AccountsNext

(* Whatever the invariant says of the rows, those who may sign in were let in. *)
LEMMA AccountsInvSound == AccountsInv => AccountsTypeOK /\ AccountsSound
<1> SUFFICES ASSUME AccountsInv PROVE AccountsTypeOK /\ AccountsSound OBVIOUS
<1>1. AccountsTypeOK BY DEF AccountsInv, AccountRows, AccountsTypeOK
<1>2. SetUpOnce /\ AdministratorLeft BY DEF AccountsInv, AccountRows, SetUpOnce
<1>3. LetInByDecision /\ FlagsAgree
  BY DEF AccountsInv, Undoubted, LetInByDecision, FlagsAgree, LoginAllowed
<1>4. LinkOnce
  <2>1. \A l \in 1..Len(links) : links[l].uses <= 1 BY DEF AccountsInv, LinksTrue
  <2> DEFINE U == {l \in 1..Len(links) : ~links[l].consumed}
  <2>2. "links" \in undisturbed => U = {} \/ \E l \in U : U = {l} BY DEF AccountsInv, LinksTrue
  <2>3. "links" \in undisturbed => Cardinality(U) <= 1
    <3> HIDE DEF U
    <3>1. U = {} => Cardinality(U) = 0 BY FS_EmptySet, FS_Singleton
    <3>2. \A l \in U : U = {l} => Cardinality(U) = 1 BY FS_Singleton
    <3> QED BY <2>2, <3>1, <3>2
  <2> QED BY <2>1, <2>3 DEF LinkOnce
<1> QED BY <1>1, <1>2, <1>3, <1>4 DEF AccountsSound

(* Accounts: the first setup is completed once, an administrator is left, who may sign in *)
(* was let in by the last decision, the two columns agree, and a link sets a password once; *)
(* but for the overlaps that each part names (user_services). *)
THEOREM AccountsTrue == AccountsSpec => [](AccountsTypeOK /\ AccountsSound)
<1>1. AccountsInv /\ [AccountsNext]_accountVars => AccountsInv' BY AccountsStep
<1> QED BY <1>1, AccountsStart, AccountsInvSound, PTL DEF AccountsSpec

--------------------
\* Vendor users
\* The rows of users and vendors, and what the histories are about; absent users have no ties.
UserStatuses == {"absent", "pending", "active", "stopped"}
UserRoles == {"Vendor", "staff", "Administrator"}
UserRow == [status: UserStatuses, roles: SUBSET UserRoles]
AccessRows ==
  /\ ties \subseteq Tie /\ IsFiniteSet(ties)
  /\ outlets \in [Outlets -> {"absent", "pending", "active", "paused", "stopped"}]
  /\ users \in [Persons -> UserRow]
  /\ offered \in [permitted: SUBSET {"orders"}, standard: BOOLEAN]
  /\ stripped \subseteq Persons /\ halted \subseteq Outlets
TiedOnce ==
  /\ \A t, r \in ties : t.user = r.user /\ t.outlet = r.outlet => t = r
  /\ \A u \in Persons : users[u].status = "absent" => TiesOf(u) = {} /\ u \notin stripped
AccessInv == AccessRows /\ TiedOnce /\ LeftInPeace /\ RoleStaysOff /\ StoppedStays

\* A user's ties after the repair.
MendedOf(u) == {t \in MendedTies : t.user = u}

\* What a request about others does to a user: nothing, or the repair.
Spared(u) == /\ users'[u].status = users[u].status
             /\ \/ TiesOf(u)' = TiesOf(u) /\ users'[u].roles = users[u].roles
                \/ /\ TiesOf(u)' = MendedOf(u)
                   /\ users'[u].roles = IF u \in Regained THEN users[u].roles \cup {"Vendor"}
                                        ELSE users[u].roles

--------------------
(* A set of one element. *)
LEMMA OneOf ==
  ASSUME NEW S, IsFiniteSet(S)
  PROVE  /\ Cardinality(S) = 1 <=> \E t : S = {t}
         /\ S = {} \/ (\E t : S = {t}) \/ Cardinality(S) > 1
<1>1. Cardinality(S) \in Nat BY FS_CardinalityType
<1>2. (Cardinality(S) = 1 <=> \E t : S = {t}) /\ (Cardinality(S) = 0 <=> S = {})
  BY FS_Singleton, FS_EmptySet
<1> DEFINE single == \E t : S = {t}
<1>3. (Cardinality(S) = 1 <=> single) /\ (Cardinality(S) = 0 <=> S = {}) BY <1>2
<1> HIDE DEF single
<1>4. (Cardinality(S) = 1 <=> single) /\ (S = {} \/ single \/ Cardinality(S) > 1) BY <1>1, <1>3
<1> QED BY <1>4 DEF single

LEMMA OneOutlet == \A x : Cardinality({x}) = 1 /\ TheOutlet({x}) = x.outlet
<1> TAKE x
<1>1. (CHOOSE t \in {x} : TRUE) = x OBVIOUS
<1> QED BY <1>1, FS_Singleton DEF TheOutlet

LEMMA TiesFinite ==
  ASSUME AccessRows, NEW u
  PROVE  /\ IsFiniteSet(TiesOf(u)) /\ IsFiniteSet(VendorTies(u))
         /\ IsFiniteSet(Primary(TiesOf(u))) /\ IsFiniteSet(Primary(VendorTies(u)))
         /\ VendorTies(u) \subseteq TiesOf(u) /\ Primary(VendorTies(u)) \subseteq Primary(TiesOf(u))
         /\ \A t \in TiesOf(u) : t \in Tie /\ t.user = u
<1>1. /\ TiesOf(u) \subseteq ties /\ VendorTies(u) \subseteq TiesOf(u)
      /\ Primary(TiesOf(u)) \subseteq TiesOf(u) /\ Primary(VendorTies(u)) \subseteq Primary(TiesOf(u))
      /\ \A t \in TiesOf(u) : t \in ties /\ t.user = u
  BY DEF TiesOf, VendorTies, Primary
<1>2. IsFiniteSet(ties) /\ ties \subseteq Tie BY DEF AccessRows
<1> QED BY <1>1, <1>2, FS_Subset

(* The repair leaves a user's ties as they were, but that a single one as a vendor is primary. *)
LEMMA Repaired ==
  ASSUME AccessRows, NEW u
  PROVE  \/ /\ MendedOf(u) = TiesOf(u)
         \/ \E t, m \in Tie :
              /\ VendorTies(u) = {t} /\ ~t.primary
              /\ m = [t EXCEPT !.primary = TRUE] /\ m.primary = TRUE
              /\ m.outlet = t.outlet /\ m.user = u /\ m.asVendor
              /\ MendedOf(u) = (TiesOf(u) \ {t}) \cup {m}
<1>0. ties \subseteq Tie BY DEF AccessRows
<1>1. \A t \in Tie : LET m == [t EXCEPT !.primary = TRUE]
                     IN  /\ m \in Tie /\ m.primary = TRUE /\ m.outlet = t.outlet /\ m.user = t.user
                         /\ m.asVendor = t.asVendor
                         /\ t.primary => m = t
  BY DEF Tie
<1>2. MendedTies = {Mended[t] : t \in ties} BY DEF MendedTies
<1>3. \A t \in ties : Mended[t] = IF VendorTies(t.user) = {t} THEN [t EXCEPT !.primary = TRUE] ELSE t
  BY DEF Mended
<1>4. \A t \in ties : Mended[t].user = t.user BY <1>0, <1>1, <1>3
<1>5. MendedOf(u) = {Mended[t] : t \in TiesOf(u)} BY <1>2, <1>4 DEF MendedOf, TiesOf
<1>6. \A t \in TiesOf(u) : t \in Tie /\ t.user = u /\ t \in ties BY <1>0 DEF TiesOf
<1>7. CASE \E t \in TiesOf(u) : VendorTies(u) = {t} /\ ~t.primary
  <2>1. PICK t \in TiesOf(u) : VendorTies(u) = {t} /\ ~t.primary BY <1>7
  <2> DEFINE m == [t EXCEPT !.primary = TRUE]
  <2>2. m \in Tie /\ m.primary = TRUE /\ m.outlet = t.outlet /\ m.user = u /\ m.asVendor
    <3>1. t.asVendor BY <2>1 DEF VendorTies
    <3> QED BY <1>1, <1>6, <3>1
  <2>3. Mended[t] = m BY <1>3, <1>6, <2>1
  <2>4. \A r \in TiesOf(u) \ {t} : Mended[r] = r BY <1>3, <1>6, <2>1
  <2> HIDE DEF m
  <2>5. MendedOf(u) = (TiesOf(u) \ {t}) \cup {m} BY <1>5, <2>3, <2>4
  <2> QED BY <1>6, <2>1, <2>2, <2>5 DEF m
<1>8. CASE \A t \in TiesOf(u) : VendorTies(u) = {t} => t.primary
  <2>1. \A t \in TiesOf(u) : Mended[t] = t BY <1>1, <1>3, <1>6, <1>8
  <2> QED BY <1>5, <2>1
<1> QED BY <1>7, <1>8

(* Whoever has one primary tie as a vendor has it after the repair, and gets the role. *)
LEMMA RepairedOne ==
  ASSUME AccessRows, NEW u \in Persons
  PROVE  /\ u \in Regained <=> Cardinality(Primary({t \in MendedOf(u) : t.asVendor})) = 1
         /\ Cardinality(Primary(VendorTies(u))) = 1 => u \in Regained /\ MendedOf(u) = TiesOf(u)
         /\ u \in Regained => Cardinality(VendorTies(u)) = 1 \/ Cardinality(Primary(VendorTies(u))) = 1
<1>1. {t \in MendedTies : t.user = u /\ t.asVendor} = {t \in MendedOf(u) : t.asVendor}
  BY DEF MendedOf
<1>2. u \in Regained <=> Cardinality(Primary({t \in MendedOf(u) : t.asVendor})) = 1
  BY <1>1 DEF Regained
<1>3. VendorTies(u) = {t \in TiesOf(u) : t.asVendor} BY DEF VendorTies
<1>4. CASE MendedOf(u) = TiesOf(u) BY <1>2, <1>3, <1>4
<1>5. CASE \E t \in Tie : VendorTies(u) = {t} /\ ~t.primary
  <2>1. PICK t \in Tie : VendorTies(u) = {t} /\ ~t.primary BY <1>5
  <2>2. Cardinality(VendorTies(u)) = 1 BY <2>1, OneOutlet
  <2>3. Primary(VendorTies(u)) = {} BY <2>1 DEF Primary
  <2>4. Cardinality(Primary(VendorTies(u))) = 0 BY <2>3, FS_EmptySet
  <2> QED BY <1>2, <2>2, <2>4
<1> QED BY <1>2, <1>4, <1>5, Repaired

(* The vendor by whose status a user is let in and the one he acts for are one, if there are *)
(* both: the primary tie as a vendor is then the only primary one. *)
LEMMA SameOutlet ==
  ASSUME AccessRows, NEW u, LoginOutlets(u) # {}, VendorFor(u) # {}
  PROVE  \E t \in VendorTies(u) : /\ LoginOutlets(u) = {t.outlet} /\ VendorFor(u) = {t.outlet}
                                  /\ t.outlet \in Outlets
<1>1. Cardinality(Primary(VendorTies(u))) = 1 BY DEF VendorFor
<1>2. PICK t : Primary(VendorTies(u)) = {t} BY <1>1, OneOf, TiesFinite
<1>3. t \in VendorTies(u) /\ t.outlet \in Outlets BY <1>2, TiesFinite DEF Primary, Tie
<1>4. t \in Primary(TiesOf(u)) BY <1>2, TiesFinite
<1>5. Cardinality(Primary(TiesOf(u))) = 1 BY <1>4 DEF LoginOutlets
<1>6. Primary(TiesOf(u)) = {t} BY <1>4, <1>5, OneOf, TiesFinite
<1>7. LoginOutlets(u) = {t.outlet} /\ VendorFor(u) = {t.outlet}
  BY <1>1, <1>2, <1>5, <1>6, OneOutlet DEF LoginOutlets, VendorFor
<1> QED BY <1>3, <1>7

(* A vendor a user is let in by is one. *)
LEMMA LoginOutletsTyped ==
  ASSUME AccessRows, NEW u
  PROVE  LoginOutlets(u) \subseteq Outlets
<1>1. CASE Cardinality(Primary(TiesOf(u))) = 1
  <2>1. PICK t : Primary(TiesOf(u)) = {t} BY <1>1, OneOf, TiesFinite
  <2>2. t.outlet \in Outlets BY <2>1, TiesFinite DEF Primary, Tie
  <2> QED BY <1>1, <2>1, <2>2, OneOutlet DEF LoginOutlets
<1>2. CASE Cardinality(Primary(TiesOf(u))) # 1 /\ Cardinality(TiesOf(u)) = 1
  <2>1. PICK t : TiesOf(u) = {t} BY <1>2, OneOf, TiesFinite
  <2>2. t.outlet \in Outlets BY <2>1, TiesFinite DEF Tie
  <2> QED BY <1>2, <2>1, <2>2, OneOutlet DEF LoginOutlets
<1> QED BY <1>1, <1>2 DEF LoginOutlets

\* ... and it depends on his ties alone.
LoginBy(some) ==
  IF Cardinality(Primary(some)) = 1 THEN {TheOutlet(Primary(some))}
  ELSE IF Primary(some) = {} /\ Cardinality(some) = 1 THEN {TheOutlet(some)}
  ELSE {}
LEMMA LoginByOne ==
  ASSUME NEW u
  PROVE  /\ \A t : TiesOf(u) = {t} => LoginOutlets(u) = {t.outlet}
         /\ \A t : TiesOf(u)' = {t} => LoginOutlets(u)' = {t.outlet}
<1>1. \A t : LoginBy({t}) = {t.outlet}
  <2> TAKE t
  <2>1. Primary({t}) = {t} \/ Primary({t}) = {} BY DEF Primary
  <2>2. Cardinality({}) = 0 /\ Cardinality({t}) = 1 /\ TheOutlet({t}) = t.outlet
    BY FS_EmptySet, OneOutlet
  <2> QED BY <2>1, <2>2 DEF LoginBy
<1>2. LoginOutlets(u) = LoginBy(TiesOf(u)) /\ LoginOutlets(u)' = LoginBy(TiesOf(u)')
  BY DEF LoginOutlets, LoginBy
<1> QED BY <1>1, <1>2

\* What may befall a user whom a request is not about.
Bearable(what, some, closed) ==
  LET asVendor == {t \in some : t.asVendor}
  IN  /\ what = "begins" \/ (what = "locked out" /\ (closed \/ Cardinality(some) > 1))
      /\ Cardinality(asVendor) = 1 \/ Cardinality(Primary(asVendor)) = 1

(* Nothing befalls a user whose rows are as they were. *)
LEMMA UntouchedFares ==
  ASSUME AccessRows, NEW subjects, NEW u \in Persons,
         \A s \in Outlets \ subjects : outlets'[s] = outlets[s],
         users'[u].status = users[u].status, users'[u].roles = users[u].roles,
         TiesOf(u)' = TiesOf(u),
         NEW what \in {"begins", "ceases", "locked out"}, Befell(u, subjects, what)
  PROVE  what = "begins" /\ Cardinality(Primary(VendorTies(u))) = 1
<1>1. VendorTies(u)' = VendorTies(u) /\ LoginOutlets(u)' = LoginOutlets(u) /\ VendorFor(u)' = VendorFor(u)
  <2>1. VendorTies(u)' = VendorTies(u) BY DEF VendorTies
  <2>2. LoginOutlets(u)' = LoginOutlets(u) BY DEF LoginOutlets
  <2> QED BY <2>1, <2>2 DEF VendorFor
<1>2. LoginOutlets(u) \subseteq Outlets BY LoginOutletsTyped
<1>3. CASE what = "begins"
  <2>1. Acts(u)' # {} BY <1>3 DEF Befell
  <2>2. VendorFor(u)' # {} BY <2>1 DEF Acts
  <2> QED BY <1>1, <1>3, <2>2 DEF VendorFor
<1>4. CASE what = "locked out"
  <2>1. LoginAllowedFor(u) /\ ~LoginAllowedFor(u)' /\ LoginOutlets(u) \cap subjects = {}
    BY <1>4 DEF Befell
  <2>2. \A s \in LoginOutlets(u) : outlets'[s] = outlets[s] BY <1>2, <2>1
  <2> QED BY <1>1, <2>1, <2>2 DEF LoginAllowedFor
<1>5. CASE what = "ceases"
  <2>1. Acts(u) # {} /\ Acts(u)' = {} /\ Acts(u) \cap subjects = {} BY <1>5 DEF Befell
  <2>2. LoginAllowedFor(u) /\ "Vendor" \in users[u].roles /\ Acts(u) = {s \in VendorFor(u) : outlets[s] = "active"}
    BY <2>1 DEF Acts
  <2>3. PICK o \in Acts(u) : o \in VendorFor(u) /\ outlets[o] = "active" /\ o \notin subjects
    BY <2>1, <2>2
  <2>4. LoginOutlets(u) # {} => LoginOutlets(u) = {o} /\ o \in Outlets
    <3> SUFFICES ASSUME LoginOutlets(u) # {} PROVE LoginOutlets(u) = {o} /\ o \in Outlets OBVIOUS
    <3>1. PICK t \in VendorTies(u) : /\ LoginOutlets(u) = {t.outlet} /\ VendorFor(u) = {t.outlet}
                                     /\ t.outlet \in Outlets
      BY <2>3, SameOutlet
    <3> QED BY <2>3, <3>1
  <2>5. o \in Outlets
    <3>1. Cardinality(Primary(VendorTies(u))) = 1 /\ o = TheOutlet(Primary(VendorTies(u)))
      BY <2>3 DEF VendorFor
    <3>2. PICK t : Primary(VendorTies(u)) = {t} BY <3>1, OneOf, TiesFinite
    <3>3. o = t.outlet BY <3>1, <3>2, OneOutlet
    <3>4. t \in Tie BY <3>2, TiesFinite DEF Primary
    <3> QED BY <3>3, <3>4 DEF Tie
  <2>6. outlets'[o] = "active" BY <2>3, <2>5
  <2>7. LoginAllowedFor(u)' BY <1>1, <2>2, <2>4, <2>6 DEF LoginAllowedFor
  <2>8. o \in Acts(u)' BY <1>1, <2>2, <2>3, <2>6, <2>7 DEF Acts
  <2> QED BY <2>1, <2>8
<1> QED BY <1>3, <1>4, <1>5

(* What befalls a user by a request about others is bearable. *)
LEMMA SparedFares ==
  ASSUME AccessRows, NEW subjects, NEW u \in Persons,
         \A s \in Outlets \ subjects : outlets'[s] = outlets[s], Spared(u),
         NEW what \in {"begins", "ceases", "locked out"}, Befell(u, subjects, what)
  PROVE  Bearable(what, TiesOf(u), \E t \in TiesOf(u) : outlets[t.outlet] # "active")
<1> DEFINE closed == \E t \in TiesOf(u) : outlets[t.outlet] # "active"
<1>1. VendorTies(u) = {t \in TiesOf(u) : t.asVendor} BY DEF VendorTies
<1>2. CASE TiesOf(u)' = TiesOf(u) /\ users'[u].roles = users[u].roles
  <2>1. what = "begins" /\ Cardinality(Primary(VendorTies(u))) = 1
    BY <1>2, UntouchedFares DEF Spared
  <2> QED BY <1>1, <2>1 DEF Bearable
<1>3. CASE ~(TiesOf(u)' = TiesOf(u) /\ users'[u].roles = users[u].roles)
  <2>1. /\ users'[u].status = users[u].status /\ TiesOf(u)' = MendedOf(u)
        /\ users'[u].roles = IF u \in Regained THEN users[u].roles \cup {"Vendor"} ELSE users[u].roles
    BY <1>3 DEF Spared
  <2>2. Cardinality(VendorTies(u)) = 1 \/ Cardinality(Primary(VendorTies(u))) = 1
    <3>1. CASE u \in Regained BY <3>1, RepairedOne
    <3>2. CASE u \notin Regained
      <4>1. MendedOf(u) # TiesOf(u) BY <1>3, <2>1, <3>2
      <4>2. PICK t \in Tie : VendorTies(u) = {t} BY <4>1, Repaired
      <4> QED BY <4>2, OneOutlet
    <3> QED BY <3>1, <3>2
  <2>3. users'[u].roles \subseteq users[u].roles \cup {"Vendor"} /\ users[u].roles \subseteq users'[u].roles
    BY <2>1
  <2>4. CASE what = "begins" BY <1>1, <2>2, <2>4 DEF Bearable
  <2>5. what # "ceases"
    <3> SUFFICES ASSUME what = "ceases" PROVE FALSE OBVIOUS
    <3>1. Acts(u) # {} BY DEF Befell
    <3>2. "Vendor" \in users[u].roles /\ VendorFor(u) # {} BY <3>1 DEF Acts
    <3>3. MendedOf(u) = TiesOf(u) BY <3>2, RepairedOne DEF VendorFor
    <3> QED BY <1>3, <2>1, <2>3, <3>2, <3>3
  <2>6. CASE what = "locked out"
    <3>1. LoginAllowedFor(u) /\ ~LoginAllowedFor(u)' /\ LoginOutlets(u) \cap subjects = {}
      BY <2>6 DEF Befell
    <3>2. closed \/ Cardinality(TiesOf(u)) > 1
      <4> SUFFICES ASSUME ~(Cardinality(TiesOf(u)) > 1) PROVE closed OBVIOUS
      <4>1. PICK t : t \in VendorTies(u)
        <5>1. (\E t : VendorTies(u) = {t}) \/ (\E t : Primary(VendorTies(u)) = {t})
          BY <2>2, OneOf, TiesFinite
        <5> QED BY <5>1 DEF Primary
      <4>2. TiesOf(u) = {t} /\ t \in Tie
        <5>1. IsFiniteSet(TiesOf(u)) /\ t \in TiesOf(u) /\ t \in Tie BY <4>1, TiesFinite
        <5>2. TiesOf(u) = {} \/ \E v : TiesOf(u) = {v} BY <5>1, OneOf
        <5> QED BY <5>1, <5>2
      <4>3. LoginOutlets(u) = {t.outlet} BY <4>2, LoginByOne
      <4>4. LoginOutlets(u)' = {t.outlet}
        <5>1. PICK m : MendedOf(u) = {m} /\ m.outlet = t.outlet
          <6>1. CASE MendedOf(u) = TiesOf(u) BY <4>2, <6>1
          <6>2. CASE MendedOf(u) # TiesOf(u)
            <7>1. PICK r, n \in Tie :
                    /\ VendorTies(u) = {r} /\ ~r.primary
                    /\ n = [r EXCEPT !.primary = TRUE] /\ n.primary = TRUE
                    /\ n.outlet = r.outlet /\ n.user = u /\ n.asVendor
                    /\ MendedOf(u) = (TiesOf(u) \ {r}) \cup {n}
              BY <6>2, Repaired
            <7>2. r = t BY <4>1, <7>1
            <7> QED BY <4>2, <7>1, <7>2
          <6> QED BY <6>1, <6>2
        <5>2. TiesOf(u)' = {m} BY <2>1, <5>1
        <5>3. \A v : TiesOf(u)' = {v} => LoginOutlets(u)' = {v.outlet} BY LoginByOne
        <5>4. LoginOutlets(u)' = {m.outlet} BY <5>2, <5>3, Zenon
        <5> QED BY <5>1, <5>4
      <4>5. outlets'[t.outlet] = outlets[t.outlet] BY <3>1, <4>2, <4>3 DEF Tie
      <4>6. outlets'[t.outlet] # "active" BY <2>1, <2>3, <3>1, <4>4 DEF LoginAllowedFor
      <4> QED BY <4>2, <4>5, <4>6
    <3> HIDE DEF closed
    <3>3. Bearable(what, TiesOf(u), closed) BY <1>1, <2>2, <2>6, <3>2 DEF Bearable
    <3> QED BY <3>3 DEF closed
  <2> QED BY <2>4, <2>5, <2>6
<1> QED BY <1>2, <1>3

(* A request about some users and vendors leaves the others in peace. *)
LEMMA AboutFits ==
  ASSUME AccessInv, NEW subjects, About(subjects),
         \A s \in Outlets \ subjects : outlets'[s] = outlets[s],
         \A u \in Persons \ subjects : Spared(u)
  PROVE  LeftInPeace'
<1>1. PICK fates : /\ fates = {p \in (Persons \ subjects) \X {"begins", "ceases", "locked out"} :
                                 Befell(p[1], subjects, p[2])}
                   /\ swept' = swept \cup {SweptNow(p[1], p[2]) : p \in fates}
  BY DEF About
<1>2. ASSUME NEW w \in swept'
      PROVE  Bearable(w.what, w.ties, w.closed)
  <2>1. CASE w \in swept BY <2>1 DEF AccessInv, LeftInPeace, Bearable
  <2>2. CASE w \notin swept
    <3>1. PICK p \in fates : w = SweptNow(p[1], p[2]) BY <1>1, <1>2, <2>2
    <3>2. /\ p[1] \in Persons \ subjects /\ p[2] \in {"begins", "ceases", "locked out"}
          /\ Befell(p[1], subjects, p[2])
      BY <1>1, <3>1
    <3> DEFINE closed == \E t \in TiesOf(p[1]) : outlets[t.outlet] # "active"
    <3>3. Bearable(p[2], TiesOf(p[1]), closed) BY <3>2, SparedFares DEF AccessInv
    <3>4. w = [what |-> p[2], ties |-> TiesOf(p[1]), closed |-> closed] BY <3>1 DEF SweptNow
    <3> HIDE DEF closed
    <3>5. w.what = p[2] /\ w.ties = TiesOf(p[1]) /\ w.closed = closed BY <3>4
    <3> QED BY <3>3, <3>5
  <2> QED BY <2>1, <2>2
<1> QED BY <1>2 DEF LeftInPeace, Bearable

(* The repair keeps the rows of the ties what they were about. *)
LEMMA MendedFits ==
  ASSUME AccessRows, TiedOnce
  PROVE  /\ MendedTies \subseteq Tie /\ IsFiniteSet(MendedTies)
         /\ \A m, n \in MendedTies : m.user = n.user /\ m.outlet = n.outlet => m = n
         /\ \A m \in MendedTies : \E t \in ties : t.user = m.user /\ t.outlet = m.outlet
<1>1. \A t \in Tie : LET m == [t EXCEPT !.primary = TRUE]
                     IN  m \in Tie /\ m.outlet = t.outlet /\ m.user = t.user
  BY DEF Tie
<1>2. /\ MendedTies = {Mended[t] : t \in ties} /\ ties \subseteq Tie /\ IsFiniteSet(ties)
      /\ \A t \in ties : Mended[t] = IF VendorTies(t.user) = {t} THEN [t EXCEPT !.primary = TRUE] ELSE t
  BY DEF MendedTies, Mended, AccessRows
<1>3. \A t \in ties : Mended[t] \in Tie /\ Mended[t].user = t.user /\ Mended[t].outlet = t.outlet
  BY <1>1, <1>2
<1>4. IsFiniteSet(MendedTies)
  <2>1. Mended \in Surjection(ties, MendedTies)
    <3>1. Mended = [t \in ties |-> Mended[t]] BY DEF Mended
    <3>2. \A t \in ties : Mended[t] \in MendedTies BY <1>2
    <3>3. Mended \in [ties -> MendedTies] BY <3>1, <3>2
    <3>4. \A m \in MendedTies : \E t \in ties : Mended[t] = m BY <1>2
    <3> QED BY <3>3, <3>4 DEF Surjection
  <2> QED BY <1>2, <2>1, FS_Surjection
<1>5. \A m, n \in MendedTies : m.user = n.user /\ m.outlet = n.outlet => m = n
  <2> TAKE m, n \in MendedTies
  <2>1. PICK t \in ties : m = Mended[t] BY <1>2
  <2>2. PICK r \in ties : n = Mended[r] BY <1>2
  <2>3. m.user = n.user /\ m.outlet = n.outlet => t = r BY <1>3, <2>1, <2>2 DEF TiedOnce
  <2> QED BY <2>1, <2>2, <2>3
<1> QED BY <1>2, <1>3, <1>4, <1>5

\* A tie is added, or none, to the ties that there were or to the repaired ones.
TiesNext(base, more) ==
  /\ base \in {ties, MendedTies} /\ more \subseteq Tie /\ ties' = base \cup more
  /\ more = {} \/ \E n : more = {n}
  /\ \A n \in more : \A t \in TiesOf(n.user) : t.outlet # n.outlet

LEMMA TiesFit ==
  ASSUME AccessRows, TiedOnce, NEW base, NEW more, TiesNext(base, more)
  PROVE  /\ ties' \subseteq Tie /\ IsFiniteSet(ties')
         /\ \A t, r \in ties' : t.user = r.user /\ t.outlet = r.outlet => t = r
         /\ \A u : u \notin {n.user : n \in more} =>
              /\ TiesOf(u)' = IF base = ties THEN TiesOf(u) ELSE MendedOf(u)
              /\ TiesOf(u) = {} => TiesOf(u)' = {}
<1>1. base \in {ties, MendedTies} /\ more \subseteq Tie /\ ties' = base \cup more BY DEF TiesNext
<1>2. /\ base \subseteq Tie /\ IsFiniteSet(base)
      /\ \A m, n \in base : m.user = n.user /\ m.outlet = n.outlet => m = n
      /\ \A m \in base : \E t \in ties : t.user = m.user /\ t.outlet = m.outlet
  BY <1>1, MendedFits DEF AccessRows, TiedOnce
<1>3. IsFiniteSet(ties')
  <2>1. CASE more = {}
    <3>1. ties' = base BY <1>1, <2>1
    <3> QED BY <1>2, <3>1
  <2>2. CASE \E n : more = {n}
    <3>1. PICK n : more = {n} BY <2>2
    <3>2. IsFiniteSet(base \cup {n}) BY <1>2, FS_AddElement
    <3> QED BY <1>1, <3>1, <3>2
  <2> QED BY <2>1, <2>2 DEF TiesNext
<1>4. \A n \in more, m \in base : ~(m.user = n.user /\ m.outlet = n.outlet)
  BY <1>2 DEF TiesNext, TiesOf
<1>5. \A t, r \in more : t = r BY DEF TiesNext
<1>6. \A t, r \in ties' : t.user = r.user /\ t.outlet = r.outlet => t = r
  <2> TAKE t, r \in ties'
  <2>1. (t \in base \/ t \in more) /\ (r \in base \/ r \in more) BY <1>1
  <2> QED BY <1>2, <1>4, <1>5, <2>1
<1>7. ASSUME NEW u, u \notin {n.user : n \in more}
      PROVE  /\ TiesOf(u)' = IF base = ties THEN TiesOf(u) ELSE MendedOf(u)
             /\ TiesOf(u) = {} => TiesOf(u)' = {}
  <2>1. TiesOf(u)' = {t \in base : t.user = u} BY <1>1, <1>7 DEF TiesOf
  <2>2. TiesOf(u)' = IF base = ties THEN TiesOf(u) ELSE MendedOf(u)
    BY <1>1, <2>1 DEF TiesOf, MendedOf
  <2>3. TiesOf(u) = {} => TiesOf(u)' = {} BY <1>2, <2>1 DEF TiesOf
  <2> QED BY <2>2, <2>3
<1> QED BY <1>1, <1>2, <1>3, <1>6, <1>7

LEMMA WithRoleFits ==
  ASSUME AccessRows
  PROVE  /\ WithRole(users) \in [Persons -> UserRow]
         /\ \A u \in Persons :
              /\ WithRole(users)[u].status = users[u].status
              /\ WithRole(users)[u].roles = IF u \in Regained THEN users[u].roles \cup {"Vendor"}
                                            ELSE users[u].roles
<1>1. \A u \in Persons : users[u] \in UserRow BY DEF AccessRows
<1>2. \A q \in UserRow : LET n == [q EXCEPT !.roles = q.roles \cup {"Vendor"}]
                         IN  n \in UserRow /\ n.status = q.status /\ n.roles = q.roles \cup {"Vendor"}
  BY DEF UserRow, UserRoles
<1>3. \A u \in Persons : WithRole(users)[u]
                         = IF u \in Regained THEN [users[u] EXCEPT !.roles = users[u].roles \cup {"Vendor"}] ELSE users[u]
  BY DEF WithRole
<1>4. \A u \in Persons :
        /\ WithRole(users)[u] \in UserRow
        /\ WithRole(users)[u].status = users[u].status
        /\ WithRole(users)[u].roles = IF u \in Regained THEN users[u].roles \cup {"Vendor"}
                                      ELSE users[u].roles
  BY <1>1, <1>2, <1>3
<1>5. WithRole(users) = [u \in Persons |-> WithRole(users)[u]] BY DEF WithRole
<1> QED BY <1>4, <1>5

\* He had the role before, and has the ties as a vendor that he had.
RoleAsBefore(u) == "Vendor" \in users[u].roles /\ VendorTies(u)' = VendorTies(u)

(* Who was deprived of the role has it again by the repair only. *)
LEMMA RoleKept ==
  ASSUME AccessRows, RoleStaysOff,
         \A u \in stripped' : "Vendor" \in users'[u].roles
                              => u \in stripped \cap Persons /\ (Spared(u) \/ RoleAsBefore(u))
  PROVE  RoleStaysOff'
<1> SUFFICES ASSUME NEW u \in stripped', "Vendor" \in users'[u].roles
             PROVE  Cardinality(Primary(VendorTies(u)')) = 1
  BY DEF RoleStaysOff
<1>1. u \in stripped /\ u \in Persons /\ (Spared(u) \/ RoleAsBefore(u)) OBVIOUS
<1>2. VendorTies(u)' = {t \in TiesOf(u)' : t.asVendor} /\ VendorTies(u) = {t \in TiesOf(u) : t.asVendor}
  BY DEF VendorTies
<1>3. "Vendor" \in users[u].roles => Cardinality(Primary(VendorTies(u))) = 1
  BY <1>1 DEF RoleStaysOff
<1>4. CASE TiesOf(u)' = TiesOf(u) /\ users'[u].roles = users[u].roles BY <1>2, <1>3, <1>4
<1>5. CASE /\ TiesOf(u)' = MendedOf(u)
           /\ users'[u].roles = IF u \in Regained THEN users[u].roles \cup {"Vendor"} ELSE users[u].roles
  <2>1. u \in Regained BY <1>1, <1>3, <1>5, RepairedOne
  <2> QED BY <1>2, <1>5, <2>1, RepairedOne
<1>6. CASE RoleAsBefore(u) BY <1>3, <1>6 DEF RoleAsBefore
<1> QED BY <1>1, <1>4, <1>5, <1>6 DEF Spared

(* A step keeps the invariant if it keeps the rows and spares the others. *)
LEMMA AccessKept ==
  ASSUME AccessInv, NEW subjects, About(subjects), AccessRows', TiedOnce', StoppedStays',
         \A s \in Outlets \ subjects : outlets'[s] = outlets[s],
         \A u \in Persons \ subjects : Spared(u),
         \A u \in stripped' : "Vendor" \in users'[u].roles => u \in stripped /\ (Spared(u) \/ RoleAsBefore(u))
  PROVE  AccessInv'
<1>1. LeftInPeace' BY AboutFits
<1>2. RoleStaysOff' BY RoleKept DEF AccessInv, AccessRows
<1> QED BY <1>1, <1>2 DEF AccessInv

LEMMA UserRows ==
  /\ \A q \in UserRow, status \in UserStatuses :
       LET n == [q EXCEPT !.status = status]
       IN  n \in UserRow /\ n.status = status /\ n.roles = q.roles
  /\ \A q \in UserRow, roles \in SUBSET UserRoles :
       LET n == [q EXCEPT !.roles = roles]
       IN  n \in UserRow /\ n.status = q.status /\ n.roles = roles
  /\ \A status \in UserStatuses, roles \in SUBSET UserRoles :
       LET n == NewUser(status, roles)
       IN  n \in UserRow /\ n.status = status /\ n.roles = roles
BY DEF UserRow, NewUser

LEMMA NewTies ==
  ASSUME NEW s \in Outlets, NEW u \in Persons, NEW asVendor \in BOOLEAN, NEW primary \in BOOLEAN
  PROVE  LET n == NewTie(s, u, asVendor, primary) IN n \in Tie /\ n.outlet = s /\ n.user = u
BY DEF Tie, NewTie

LEMMA ProfileTyped ==
  ASSUME AccessRows, NEW u
  PROVE  ProfileOf(u) \subseteq Outlets
<1>1. \A t \in VendorTies(u) : t.outlet \in Outlets BY TiesFinite DEF Tie
<1>2. CASE Cardinality(Primary(VendorTies(u))) = 1
  <2>1. PICK t : Primary(VendorTies(u)) = {t} BY <1>2, OneOf, TiesFinite
  <2>2. ProfileOf(u) = {t.outlet} BY <1>2, <2>1, OneOutlet DEF ProfileOf
  <2> QED BY <1>1, <2>1, <2>2 DEF Primary
<1>3. CASE Cardinality(Primary(VendorTies(u))) # 1 BY <1>1, <1>3 DEF ProfileOf
<1> QED BY <1>2, <1>3

(* A vendor registers: the ties of the others are repaired on the way. *)
LEMMA OpenShopFits == AccessInv /\ OpenShop => AccessInv'
<1> SUFFICES ASSUME AccessInv, OpenShop PROVE AccessInv' OBVIOUS
<1>1. PICK u \in Persons, s \in Outlets, status \in {"pending", "active"} :
        /\ users[u].status = "absent" /\ outlets[s] = "absent"
        /\ outlets' = [outlets EXCEPT ![s] = status]
        /\ users' = [WithRole(users) EXCEPT ![u] = NewUser(status, {"Vendor"})]
        /\ ties' = MendedTies \cup {NewTie(s, u, TRUE, TRUE)}
        /\ UNCHANGED <<offered, stripped, trimmed, halted>>
        /\ About({u, s})
  BY DEF OpenShop
<1>2. AccessRows /\ TiedOnce /\ TiesOf(u) = {} /\ u \notin stripped BY <1>1 DEF AccessInv, TiedOnce
<1> DEFINE n == NewTie(s, u, TRUE, TRUE)
           q == NewUser(status, {"Vendor"})
<1>3. n \in Tie /\ n.outlet = s /\ n.user = u /\ q \in UserRow /\ q.status = status
  <2>1. n \in Tie /\ n.outlet = s /\ n.user = u BY NewTies
  <2>2. status \in UserStatuses /\ {"Vendor"} \in SUBSET UserRoles BY DEF UserStatuses, UserRoles
  <2>3. q \in UserRow /\ q.status = status BY <2>2, UserRows
  <2> QED BY <2>1, <2>3
<1> HIDE DEF n, q
<1>4. TiesNext(MendedTies, {n}) BY <1>1, <1>2, <1>3 DEF TiesNext, n
<1>5. /\ users' \in [Persons -> UserRow] /\ users'[u].status # "absent"
      /\ \A p \in Persons \ {u} :
           /\ users'[p].status = users[p].status
           /\ users'[p].roles = IF p \in Regained THEN users[p].roles \cup {"Vendor"} ELSE users[p].roles
  <2>1. users' = [WithRole(users) EXCEPT ![u] = q] /\ status # "absent" BY <1>1 DEF q
  <2> QED BY <1>2, <1>3, <2>1, WithRoleFits
<1>6. \A p \in Persons \ {u} : Spared(p) /\ (TiesOf(p) = {} => TiesOf(p)' = {})
  <2> TAKE p \in Persons \ {u}
  <2>1. p \notin {m.user : m \in {n}} BY <1>3
  <2>2. TiesOf(p)' = (IF MendedTies = ties THEN TiesOf(p) ELSE MendedOf(p)) /\ (TiesOf(p) = {} => TiesOf(p)' = {})
    BY <1>2, <1>4, <2>1, TiesFit
  <2>3. TiesOf(p)' = MendedOf(p) BY <2>2 DEF TiesOf, MendedOf
  <2> QED BY <1>5, <2>2, <2>3 DEF Spared
<1>7. /\ outlets' \in [Outlets -> {"absent", "pending", "active", "paused", "stopped"}]
      /\ \A o \in Outlets \ {s} : outlets'[o] = outlets[o]
      /\ s \notin halted
  BY <1>1 DEF AccessInv, AccessRows, StoppedStays
<1>8. AccessRows' BY <1>1, <1>2, <1>4, <1>5, <1>7, TiesFit DEF AccessRows
<1>9. TiedOnce'
  <2>1. \A t, r \in ties' : t.user = r.user /\ t.outlet = r.outlet => t = r BY <1>2, <1>4, TiesFit
  <2>2. \A p \in Persons : users'[p].status = "absent" => TiesOf(p)' = {} /\ p \notin stripped'
    BY <1>1, <1>2, <1>5, <1>6 DEF TiedOnce
  <2> QED BY <2>1, <2>2 DEF TiedOnce
<1>10. StoppedStays' BY <1>1, <1>2, <1>7 DEF AccessInv, StoppedStays, AccessRows
<1> QED BY <1>1, <1>2, <1>6, <1>7, <1>8, <1>9, <1>10, AccessKept DEF AccessRows

(* Somebody joins the staff, or a vendor is created without a user. *)
LEMMA JoinFits == AccessInv /\ (JoinStaff \/ CreateOutlet) => AccessInv'
<1>1. ASSUME AccessInv, JoinStaff PROVE AccessInv'
  <2>1. PICK u \in Persons :
          /\ users[u].status = "absent"
          /\ users' = [users EXCEPT ![u] = NewUser("pending", {})]
          /\ UNCHANGED <<outlets, ties, offered, stripped, trimmed, halted>>
          /\ About({u})
    BY <1>1 DEF JoinStaff
  <2>2. AccessRows /\ TiedOnce /\ u \notin stripped BY <1>1, <2>1 DEF AccessInv, TiedOnce
  <2> DEFINE q == NewUser("pending", {})
  <2>3. q \in UserRow /\ q.status = "pending" BY UserRows DEF UserStatuses, UserRoles
  <2> HIDE DEF q
  <2>4. /\ users' \in [Persons -> UserRow] /\ users'[u].status # "absent"
        /\ \A p \in Persons \ {u} : users'[p] = users[p]
    BY <2>1, <2>2, <2>3 DEF AccessRows, q
  <2>5. \A p : TiesOf(p)' = TiesOf(p) BY <2>1 DEF TiesOf
  <2>6. \A p \in Persons \ {u} : Spared(p) BY <2>4, <2>5 DEF Spared
  <2>7. AccessRows' /\ TiedOnce' /\ StoppedStays'
    BY <1>1, <2>1, <2>2, <2>4, <2>5 DEF AccessInv, AccessRows, TiedOnce, StoppedStays
  <2> QED BY <1>1, <2>1, <2>2, <2>6, <2>7, AccessKept DEF AccessRows
<1>2. ASSUME AccessInv, CreateOutlet PROVE AccessInv'
  <2>1. PICK s \in Outlets :
          /\ outlets[s] = "absent" /\ outlets' = [outlets EXCEPT ![s] = "active"]
          /\ UNCHANGED <<users, ties, offered, stripped, trimmed, halted>>
          /\ About({s})
    BY <1>2 DEF CreateOutlet
  <2>2. /\ outlets' \in [Outlets -> {"absent", "pending", "active", "paused", "stopped"}]
        /\ \A o \in Outlets \ {s} : outlets'[o] = outlets[o]
        /\ s \notin halted
    BY <1>2, <2>1 DEF AccessInv, AccessRows, StoppedStays
  <2>3. \A p : TiesOf(p)' = TiesOf(p) BY <2>1 DEF TiesOf
  <2>4. \A p \in Persons : Spared(p) BY <2>1, <2>3 DEF Spared
  <2>5. AccessRows' /\ TiedOnce' /\ StoppedStays'
    BY <1>2, <2>1, <2>2, <2>3 DEF AccessInv, AccessRows, TiedOnce, StoppedStays
  <2> QED BY <1>2, <2>1, <2>2, <2>4, <2>5, AccessKept DEF AccessInv, AccessRows
<1> QED BY <1>1, <1>2

(* A user is tied to a vendor; as one of its vendors, after the repair. *)
LEMMA AddTieFits == AccessInv /\ AddTie => AccessInv'
<1> SUFFICES ASSUME AccessInv, AddTie PROVE AccessInv' OBVIOUS
<1>1. PICK s \in Outlets, u \in Persons, asVendor \in BOOLEAN, primary \in BOOLEAN :
        /\ outlets[s] # "absent" /\ users[u].status # "absent"
        /\ \A t \in TiesOf(u) : t.outlet # s
        /\ ties' = (IF asVendor THEN MendedTies ELSE ties) \cup {NewTie(s, u, asVendor, primary)}
        /\ users' = IF asVendor THEN [WithRole(users) EXCEPT ![u].roles = @ \cup {"Vendor"}] ELSE users
        /\ stripped' = IF asVendor THEN stripped \ {u} ELSE stripped
        /\ UNCHANGED <<outlets, offered, trimmed, halted>>
        /\ About({u, s})
  BY DEF AddTie
<1>2. AccessRows /\ TiedOnce /\ users \in [Persons -> UserRow] BY DEF AccessInv, AccessRows
<1> DEFINE n == NewTie(s, u, asVendor, primary)
           base == IF asVendor THEN MendedTies ELSE ties
<1>3. n \in Tie /\ n.outlet = s /\ n.user = u BY NewTies
<1>4. base \in {ties, MendedTies} /\ ties' = base \cup {n} BY <1>1
<1> HIDE DEF n
<1>5. TiesNext(base, {n}) BY <1>1, <1>3, <1>4 DEF TiesNext
<1>6. /\ users' \in [Persons -> UserRow] /\ users'[u].status = users[u].status
      /\ \A p \in Persons \ {u} :
           /\ users'[p].status = users[p].status
           /\ asVendor => users'[p].roles = IF p \in Regained THEN users[p].roles \cup {"Vendor"}
                                            ELSE users[p].roles
           /\ ~asVendor => users'[p].roles = users[p].roles
  <2>1. CASE asVendor
    <3> DEFINE q == WithRole(users)[u]
               roles == q.roles \cup {"Vendor"}
               m == [q EXCEPT !.roles = roles]
    <3>1. WithRole(users) \in [Persons -> UserRow] /\ q \in UserRow /\ q.status = users[u].status
      BY <1>2, WithRoleFits
    <3>2. roles \in SUBSET UserRoles BY <3>1 DEF UserRow, UserRoles
    <3>3. users' = [WithRole(users) EXCEPT ![u] = m] BY <1>1, <2>1
    <3> HIDE DEF q, roles
    <3>4. m \in UserRow /\ m.status = users[u].status BY <3>1, <3>2, UserRows
    <3> HIDE DEF m
    <3> QED BY <1>2, <2>1, <3>1, <3>3, <3>4, WithRoleFits
  <2>2. CASE ~asVendor BY <1>1, <1>2, <2>2
  <2> QED BY <2>1, <2>2
<1>7. \A p \in Persons \ {u} : Spared(p) /\ (TiesOf(p) = {} => TiesOf(p)' = {})
  <2> TAKE p \in Persons \ {u}
  <2>1. p \notin {m.user : m \in {n}} BY <1>3
  <2>2. TiesOf(p)' = (IF base = ties THEN TiesOf(p) ELSE MendedOf(p)) /\ (TiesOf(p) = {} => TiesOf(p)' = {})
    BY <1>2, <1>5, <2>1, TiesFit
  <2>3. CASE asVendor
    <3>1. TiesOf(p)' = MendedOf(p) BY <2>2, <2>3 DEF TiesOf, MendedOf
    <3> QED BY <1>6, <2>2, <2>3, <3>1 DEF Spared
  <2>4. CASE ~asVendor BY <1>6, <2>2, <2>4 DEF Spared
  <2> QED BY <2>3, <2>4
<1>8. AccessRows'
  <2>1. ties' \subseteq Tie /\ IsFiniteSet(ties') BY <1>2, <1>5, TiesFit
  <2>2. stripped' \subseteq stripped BY <1>1
  <2> QED BY <1>1, <1>2, <1>6, <2>1, <2>2 DEF AccessRows
<1>9. TiedOnce'
  <2>1. \A t, r \in ties' : t.user = r.user /\ t.outlet = r.outlet => t = r BY <1>2, <1>5, TiesFit
  <2>2. \A p \in Persons : users'[p].status = "absent" => TiesOf(p)' = {} /\ p \notin stripped'
    BY <1>1, <1>2, <1>6, <1>7 DEF TiedOnce
  <2> QED BY <2>1, <2>2 DEF TiedOnce
<1>10. StoppedStays' BY <1>1 DEF AccessInv, StoppedStays
<1>11. \A p \in stripped' : "Vendor" \in users'[p].roles => p \in stripped /\ (Spared(p) \/ RoleAsBefore(p))
  <2> SUFFICES ASSUME NEW p \in stripped', "Vendor" \in users'[p].roles PROVE p \in stripped /\ (Spared(p) \/ RoleAsBefore(p))
    OBVIOUS
  <2>1. p \in stripped /\ p \in Persons BY <1>1, <1>2 DEF AccessRows
  <2>2. CASE p # u BY <1>7, <2>1, <2>2
  <2>3. CASE p = u
    <3>1. ~asVendor BY <1>1, <2>3
    <3>2. users'[u] = users[u] /\ ties' = ties \cup {n} BY <1>1, <3>1 DEF n
    <3>3. n.asVendor = FALSE BY <3>1 DEF n, NewTie
    <3>4. VendorTies(u)' = VendorTies(u) BY <3>2, <3>3 DEF VendorTies, TiesOf
    <3> QED BY <2>1, <2>3, <3>2, <3>4 DEF RoleAsBefore
  <2> QED BY <2>2, <2>3
<1> QED BY <1>1, <1>2, <1>7, <1>8, <1>9, <1>10, <1>11, AccessKept

(* A request that leaves the ties alone keeps the invariant. *)
LEMMA SameTies ==
  ASSUME AccessInv, NEW subjects, About(subjects), UNCHANGED ties,
         users' \in [Persons -> UserRow],
         \A p \in Persons : users'[p].status = "absent" => users[p].status = "absent" /\ p \notin stripped',
         \A p \in Persons \ subjects : users'[p] = users[p],
         outlets' \in [Outlets -> {"absent", "pending", "active", "paused", "stopped"}],
         \A s \in Outlets \ subjects : outlets'[s] = outlets[s],
         offered' \in [permitted: SUBSET {"orders"}, standard: BOOLEAN],
         stripped' \subseteq Persons, halted' \subseteq Outlets, StoppedStays',
         \A p \in stripped' : "Vendor" \in users'[p].roles => p \in stripped /\ "Vendor" \in users[p].roles
  PROVE  AccessInv'
<1>1. \A u : TiesOf(u)' = TiesOf(u) /\ VendorTies(u)' = VendorTies(u) BY DEF TiesOf, VendorTies
<1>2. \A p \in Persons \ subjects : Spared(p) BY <1>1 DEF Spared
<1>3. AccessRows' /\ TiedOnce' BY <1>1 DEF AccessInv, AccessRows, TiedOnce
<1>4. \A p \in stripped' : "Vendor" \in users'[p].roles => p \in stripped /\ (Spared(p) \/ RoleAsBefore(p))
  BY <1>1 DEF RoleAsBefore
<1> QED BY <1>2, <1>3, <1>4, AccessKept

(* A registration is approved, or rejected. *)
LEMMA ApproveFits ==
  ASSUME AccessInv, NEW u \in Persons, NEW roles \in {{}, {"staff"}, {"Administrator"}},
         Approve(u, roles)
  PROVE  AccessInv'
<1>1. AccessRows /\ TiedOnce /\ users \in [Persons -> UserRow] /\ ProfileOf(u) \subseteq Outlets
  BY ProfileTyped DEF AccessInv, AccessRows
<1>2. users[u].status = "pending" /\ About({u} \cup ProfileOf(u)) /\ UNCHANGED <<offered, trimmed>>
      /\ halted' = halted \ ProfileOf(u)
      /\ stripped' = IF ProfileOf(u) = {} THEN stripped ELSE stripped \ {u}
  BY DEF Approve
<1>3. CASE ProfileOf(u) = {}
  <2> DEFINE q == NewUser("active", roles)
  <2>1. users' = [users EXCEPT ![u] = q] /\ UNCHANGED <<outlets, ties>> BY <1>3 DEF Approve
  <2>2. "active" \in UserStatuses /\ roles \in SUBSET UserRoles BY DEF UserStatuses, UserRoles
  <2>3. q \in UserRow /\ q.status = "active" /\ q.roles = roles BY <2>2, UserRows
  <2> HIDE DEF q
  <2>4. /\ users' \in [Persons -> UserRow] /\ users'[u] = q
        /\ \A p \in Persons \ {u} : users'[p] = users[p]
    BY <1>1, <2>1, <2>3
  <2>5. \A p \in Persons : users'[p].status = "absent" => users[p].status = "absent" /\ p \notin stripped'
    BY <1>1, <1>2, <1>3, <2>3, <2>4 DEF TiedOnce
  <2>6. "Vendor" \notin users'[u].roles BY <2>3, <2>4
  <2>7. StoppedStays' BY <1>2, <2>1 DEF AccessInv, StoppedStays
  <2>8. stripped' = stripped /\ halted' \subseteq halted BY <1>2, <1>3
  <2> QED BY <1>1, <1>2, <1>3, <2>1, <2>4, <2>5, <2>6, <2>7, <2>8, SameTies DEF AccessRows
<1>4. CASE ProfileOf(u) # {}
  <2> DEFINE all == roles \cup {"Vendor"}
             q == NewUser("active", all)
  <2>1. /\ users' = [WithRole(users) EXCEPT ![u] = q]
        /\ outlets' = [s \in Outlets |-> IF s \in ProfileOf(u) THEN "active" ELSE outlets[s]]
        /\ ties' = MendedTies
    BY <1>4 DEF Approve
  <2>2. "active" \in UserStatuses /\ all \in SUBSET UserRoles BY DEF UserStatuses, UserRoles
  <2> HIDE DEF all
  <2>3. q \in UserRow /\ q.status = "active" BY <2>2, UserRows
  <2> HIDE DEF q
  <2>4. /\ users' \in [Persons -> UserRow] /\ users'[u].status # "absent"
        /\ \A p \in Persons \ {u} :
             /\ users'[p].status = users[p].status
             /\ users'[p].roles = IF p \in Regained THEN users[p].roles \cup {"Vendor"} ELSE users[p].roles
    BY <1>1, <2>1, <2>3, WithRoleFits
  <2>5. \A p : TiesOf(p)' = MendedOf(p) BY <2>1 DEF TiesOf, MendedOf
  <2>6. TiesNext(MendedTies, {}) BY <2>1 DEF TiesNext
  <2>7. \A p \in Persons \ {u} : Spared(p) BY <2>4, <2>5 DEF Spared
  <2>8. /\ outlets' \in [Outlets -> {"absent", "pending", "active", "paused", "stopped"}]
        /\ \A s \in Outlets \ ProfileOf(u) : outlets'[s] = outlets[s]
    BY <1>1, <2>1 DEF AccessRows
  <2>9. stripped' = stripped \ {u} /\ halted' \subseteq halted /\ stripped \subseteq Persons
    BY <1>1, <1>2, <1>4 DEF AccessRows
  <2>10. AccessRows'
    <3>1. ties' \subseteq Tie /\ IsFiniteSet(ties') BY <1>1, <2>6, TiesFit
    <3> QED BY <1>1, <1>2, <2>4, <2>8, <2>9, <3>1 DEF AccessRows
  <2>11. TiedOnce'
    <3>1. \A t, r \in ties' : t.user = r.user /\ t.outlet = r.outlet => t = r BY <1>1, <2>6, TiesFit
    <3>2. \A p : TiesOf(p) = {} => TiesOf(p)' = {}
      <4> TAKE p
      <4>1. p \notin {n.user : n \in {}} OBVIOUS
      <4> QED BY <1>1, <2>6, <4>1, TiesFit
    <3>3. \A p \in Persons : users'[p].status = "absent" => TiesOf(p)' = {} /\ p \notin stripped'
      BY <1>1, <2>4, <2>9, <3>2 DEF TiedOnce
    <3> QED BY <3>1, <3>3 DEF TiedOnce
  <2>12. StoppedStays' BY <1>1, <1>2, <2>8, <2>9 DEF AccessInv, StoppedStays, AccessRows
  <2>13. \A p \in stripped' : p \in stripped /\ Spared(p) BY <2>7, <2>9
  <2> QED BY <1>2, <2>7, <2>8, <2>10, <2>11, <2>12, <2>13, AccessKept
<1> QED BY <1>3, <1>4

LEMMA RejectFits == AccessInv /\ RejectUser => AccessInv'
<1> SUFFICES ASSUME AccessInv, RejectUser PROVE AccessInv' OBVIOUS
<1>1. PICK u \in Persons :
        /\ users[u].status = "pending"
        /\ users' = [users EXCEPT ![u].status = "stopped"]
        /\ outlets' = [s \in Outlets |-> IF s \in ProfileOf(u) THEN "stopped" ELSE outlets[s]]
        /\ halted' = halted \cup ProfileOf(u)
        /\ UNCHANGED <<ties, offered, stripped, trimmed>>
        /\ About({u} \cup ProfileOf(u))
  BY DEF RejectUser
<1>2. AccessRows /\ TiedOnce /\ users \in [Persons -> UserRow] /\ ProfileOf(u) \subseteq Outlets
  BY ProfileTyped DEF AccessInv, AccessRows
<1> DEFINE q == [users[u] EXCEPT !.status = "stopped"]
<1>3. q \in UserRow /\ q.status = "stopped" /\ q.roles = users[u].roles
  <2>1. users[u] \in UserRow /\ "stopped" \in UserStatuses BY <1>2 DEF UserStatuses
  <2> QED BY <2>1, UserRows
<1>4. users' = [users EXCEPT ![u] = q] BY <1>1
<1> HIDE DEF q
<1>5. /\ users' \in [Persons -> UserRow] /\ users'[u] = q
      /\ \A p \in Persons \ {u} : users'[p] = users[p]
  BY <1>2, <1>3, <1>4
<1>6. \A p \in Persons : users'[p].status = "absent" => users[p].status = "absent" /\ p \notin stripped'
  BY <1>1, <1>2, <1>3, <1>5 DEF TiedOnce
<1>7. /\ outlets' \in [Outlets -> {"absent", "pending", "active", "paused", "stopped"}]
      /\ \A s \in Outlets \ ProfileOf(u) : outlets'[s] = outlets[s]
      /\ \A s \in ProfileOf(u) : outlets'[s] = "stopped"
  BY <1>1, <1>2 DEF AccessRows
<1>8. StoppedStays' /\ halted' \subseteq Outlets
  BY <1>1, <1>2, <1>7 DEF AccessInv, StoppedStays, AccessRows
<1>9. \A p \in Persons : users'[p].roles = users[p].roles BY <1>3, <1>5
<1>10. stripped' = stripped /\ stripped \subseteq Persons
       /\ offered' \in [permitted: SUBSET {"orders"}, standard: BOOLEAN]
  BY <1>1, <1>2 DEF AccessRows
<1>11. \A p \in stripped' : "Vendor" \in users'[p].roles => p \in stripped /\ "Vendor" \in users[p].roles
  BY <1>9, <1>10
<1> QED BY <1>1, <1>5, <1>6, <1>7, <1>8, <1>10, <1>11, SameTies

(* A vendor's status is changed, and those who wait with it are let in. *)
LEMMA ChangeStatusFits ==
  ASSUME AccessInv, NEW s \in Outlets, NEW status \in {"active", "stopped"}, ChangeStatus(s, status)
  PROVE  AccessInv'
<1> DEFINE in == {u \in Affected(s) : status = "active" /\ outlets[s] = "pending"
                                       /\ users[u].status = "pending"}
<1>1. /\ outlets' = [outlets EXCEPT ![s] = status]
      /\ users' = [u \in Persons |-> IF u \in in THEN [users[u] EXCEPT !.status = "active"] ELSE users[u]]
      /\ halted' = IF status = "active" THEN halted \ {s} ELSE halted \cup {s}
      /\ UNCHANGED <<ties, offered, stripped, trimmed>>
      /\ About({s} \cup in)
  BY DEF ChangeStatus
<1>2. AccessRows /\ TiedOnce /\ users \in [Persons -> UserRow] BY DEF AccessInv, AccessRows
<1>3. \A u \in in : users[u].status = "pending" OBVIOUS
<1> HIDE DEF in
<1>4. \A u \in Persons : LET n == [users[u] EXCEPT !.status = "active"]
                         IN  n \in UserRow /\ n.status = "active" /\ n.roles = users[u].roles
  <2>1. "active" \in UserStatuses /\ \A u \in Persons : users[u] \in UserRow
    BY <1>2 DEF UserStatuses
  <2> QED BY <2>1, UserRows
<1>5. \A u \in Persons : /\ users'[u] \in UserRow /\ users'[u].roles = users[u].roles
                         /\ users'[u].status = IF u \in in THEN "active" ELSE users[u].status
                         /\ u \notin in => users'[u] = users[u]
  BY <1>1, <1>2, <1>4
<1>6. users' \in [Persons -> UserRow]
  <2>1. users' = [u \in Persons |-> users'[u]] BY <1>1
  <2> QED BY <1>5, <2>1
<1>7. \A p \in Persons : users'[p].status = "absent" => users[p].status = "absent" /\ p \notin stripped'
  BY <1>1, <1>2, <1>5 DEF TiedOnce
<1>8. /\ outlets' \in [Outlets -> {"absent", "pending", "active", "paused", "stopped"}]
      /\ \A o \in Outlets \ {s} : outlets'[o] = outlets[o]
      /\ outlets'[s] = status
  BY <1>1, <1>2 DEF AccessRows
<1>9. StoppedStays' /\ halted' \subseteq Outlets
  BY <1>1, <1>2, <1>8 DEF AccessInv, StoppedStays, AccessRows
<1>10. stripped' = stripped /\ stripped \subseteq Persons
       /\ offered' \in [permitted: SUBSET {"orders"}, standard: BOOLEAN]
  BY <1>1, <1>2 DEF AccessRows
<1>11. \A p \in stripped' : "Vendor" \in users'[p].roles => p \in stripped /\ "Vendor" \in users[p].roles
  BY <1>5, <1>10
<1> QED BY <1>1, <1>5, <1>6, <1>7, <1>8, <1>9, <1>10, <1>11, SameTies

(* An administrator gives or takes the role, or changes what it is permitted; a sign-in *)
(* restores that. *)
LEMMA SetRolesFits == AccessInv /\ SetRoles => AccessInv'
<1> SUFFICES ASSUME AccessInv, SetRoles PROVE AccessInv' OBVIOUS
<1>1. PICK u \in Persons, role \in SUBSET {"Vendor"} :
        LET roles == (users[u].roles \ {"Vendor"}) \cup role IN
        /\ users[u].status # "absent" /\ roles # users[u].roles
        /\ users' = [users EXCEPT ![u].roles = roles]
        /\ stripped' = IF "Vendor" \in roles THEN stripped \ {u}
                       ELSE IF "Vendor" \in users[u].roles THEN stripped \cup {u} ELSE stripped
        /\ UNCHANGED <<outlets, ties, offered, trimmed, halted>>
        /\ About({u})
  BY DEF SetRoles
<1> DEFINE roles == (users[u].roles \ {"Vendor"}) \cup role
           q == [users[u] EXCEPT !.roles = roles]
<1>2. AccessRows /\ TiedOnce /\ users \in [Persons -> UserRow] BY DEF AccessInv, AccessRows
<1>3. roles \in SUBSET UserRoles /\ users[u] \in UserRow BY <1>2 DEF UserRow, UserRoles
<1>4. users' = [users EXCEPT ![u] = q] BY <1>1
<1>5. stripped' = (IF "Vendor" \in roles THEN stripped \ {u}
                  ELSE IF "Vendor" \in users[u].roles THEN stripped \cup {u} ELSE stripped)
  BY <1>1
<1> HIDE DEF roles
<1>6. q \in UserRow /\ q.status = users[u].status /\ q.roles = roles BY <1>3, UserRows
<1> HIDE DEF q
<1>7. /\ users' \in [Persons -> UserRow] /\ users'[u] = q
      /\ \A p \in Persons \ {u} : users'[p] = users[p]
  BY <1>2, <1>4, <1>6
<1>8. stripped' \subseteq stripped \cup {u} /\ stripped \subseteq Persons
  BY <1>2, <1>5 DEF AccessRows
<1>9. \A p \in Persons : users'[p].status = "absent" => users[p].status = "absent" /\ p \notin stripped'
  BY <1>1, <1>2, <1>6, <1>7, <1>8 DEF TiedOnce
<1>10. StoppedStays' BY <1>1 DEF AccessInv, StoppedStays
<1>11. \A p \in stripped' : "Vendor" \in users'[p].roles => p \in stripped /\ "Vendor" \in users[p].roles
  <2> TAKE p \in stripped'
  <2>1. CASE p = u BY <1>5, <1>6, <1>7, <2>1
  <2>2. CASE p # u BY <1>7, <1>8, <2>2
  <2> QED BY <2>1, <2>2
<1>12. About({u}) /\ UNCHANGED <<outlets, ties, offered, trimmed, halted>> BY <1>1
<1>13. /\ offered' \in [permitted: SUBSET {"orders"}, standard: BOOLEAN]
       /\ outlets' \in [Outlets -> {"absent", "pending", "active", "paused", "stopped"}]
       /\ halted' \subseteq Outlets /\ stripped' \subseteq Persons
       /\ \A s \in Outlets \ {u} : outlets'[s] = outlets[s]
  BY <1>2, <1>8, <1>12 DEF AccessRows
<1> QED BY <1>7, <1>9, <1>10, <1>11, <1>12, <1>13, SameTies

LEMMA RoleEditFits == AccessInv /\ (EditRole \/ SignInSeeds) => AccessInv'
<1> SUFFICES ASSUME AccessInv, EditRole \/ SignInSeeds PROVE AccessInv' OBVIOUS
<1>1. About({}) /\ UNCHANGED <<outlets, users, ties, stripped, halted>> BY DEF EditRole, SignInSeeds
<1>2. AccessRows /\ TiedOnce BY DEF AccessInv
<1>3. /\ offered' \in [permitted: SUBSET {"orders"}, standard: BOOLEAN]
      /\ trimmed' \cap offered'.permitted # {} => offered'.standard
  <2>1. CASE EditRole
    <3>1. PICK permitted \in SUBSET {"orders"}, standard \in BOOLEAN :
            /\ offered' = [permitted |-> permitted, standard |-> standard]
            /\ trimmed' = {"orders"} \ permitted
      BY <2>1 DEF EditRole
    <3> QED BY <3>1
  <2>2. CASE SignInSeeds
    <3>1. offered.standard /\ offered' = [offered EXCEPT !.permitted = {"orders"}]
      BY <2>2 DEF SignInSeeds
    <3>2. offered \in [permitted: SUBSET {"orders"}, standard: BOOLEAN] BY <1>2 DEF AccessRows
    <3> QED BY <3>1, <3>2
  <2> QED BY <2>1, <2>2
<1>4. StoppedStays' BY <1>1, <1>3 DEF AccessInv, StoppedStays
<1> QED BY <1>1, <1>2, <1>3, <1>4, SameTies DEF AccessInv, AccessRows, TiedOnce

LEMMA AccessStep ==
  ASSUME AccessInv, [VendorAccessNext]_accessVars
  PROVE  AccessInv'
<1>0. CASE UNCHANGED accessVars
  <2>1. UNCHANGED <<outlets, users, ties, offered, stripped, trimmed, halted, swept>>
    BY <1>0 DEF accessVars
  <2> QED
    BY <2>1 DEF AccessInv, AccessRows, TiedOnce, LeftInPeace, RoleStaysOff, StoppedStays, TiesOf,
                VendorTies
<1>1. CASE ApproveUser BY <1>1, ApproveFits DEF ApproveUser
<1>2. CASE ChangeOutlet BY <1>2, ChangeStatusFits DEF ChangeOutlet
<1>3. CASE ApproveVendor
  <2>1. PICK s \in Outlets : IF Waiting(s) # {} THEN \E u \in Waiting(s) : Approve(u, {})
                             ELSE outlets[s] # "active" /\ ChangeStatus(s, "active")
    BY <1>3 DEF ApproveVendor
  <2>2. CASE Waiting(s) # {}
    <3>1. PICK u \in Waiting(s) : Approve(u, {}) BY <2>1, <2>2
    <3>2. u \in Persons BY DEF Waiting
    <3> QED BY <3>1, <3>2, ApproveFits
  <2>3. CASE Waiting(s) = {} BY <2>1, <2>3, ChangeStatusFits
  <2> QED BY <2>2, <2>3
<1> QED
  BY <1>0, <1>1, <1>2, <1>3, OpenShopFits, JoinFits, AddTieFits, RejectFits, SetRolesFits, RoleEditFits
     DEF VendorAccessNext

LEMMA AccessStart == VendorAccessInit => AccessInv
<1> SUFFICES ASSUME VendorAccessInit PROVE AccessInv OBVIOUS
<1>1. /\ outlets = [s \in Outlets |-> "absent"]
      /\ users = [u \in Persons |-> [status |-> "absent", roles |-> {}]]
      /\ ties = {} /\ offered = [permitted |-> {"orders"}, standard |-> TRUE]
      /\ stripped = {} /\ trimmed = {} /\ halted = {} /\ swept = {}
  BY DEF VendorAccessInit
<1>2. users \in [Persons -> UserRow] BY <1>1 DEF UserRow, UserStatuses
<1>3. IsFiniteSet(ties) /\ ties \subseteq Tie BY <1>1, FS_EmptySet
<1>4. AccessRows BY <1>1, <1>2, <1>3 DEF AccessRows
<1>5. TiedOnce /\ LeftInPeace /\ RoleStaysOff /\ StoppedStays
  BY <1>1 DEF TiedOnce, LeftInPeace, RoleStaysOff, StoppedStays, TiesOf
<1> QED BY <1>4, <1>5 DEF AccessInv

(* Of one primary tie as a vendor, both rules make the same vendor. *)
LEMMA AccessInvSound == AccessInv => VendorAccessTypeOK /\ VendorAccessSound
<1> SUFFICES ASSUME AccessInv PROVE VendorAccessTypeOK /\ VendorAccessSound OBVIOUS
<1>1. VendorAccessTypeOK BY DEF AccessInv, AccessRows, TiedOnce, VendorAccessTypeOK
<1>2. LetInForWhatHeActsFor
  <2> SUFFICES ASSUME NEW u \in Persons, LoginAllowedFor(u), Acts(u) # {},
                      "Administrator" \notin users[u].roles
               PROVE  Acts(u) = LoginOutlets(u)
    BY DEF LetInForWhatHeActsFor
  <2>1. "Vendor" \in users[u].roles /\ Acts(u) = {s \in VendorFor(u) : outlets[s] = "active"}
    BY DEF Acts
  <2>2. LoginOutlets(u) # {} BY <2>1 DEF LoginAllowedFor
  <2>3. PICK t \in VendorTies(u) : LoginOutlets(u) = {t.outlet} /\ VendorFor(u) = {t.outlet}
    BY <2>1, <2>2, SameOutlet DEF AccessInv
  <2> QED BY <2>1, <2>3
<1> QED BY <1>1, <1>2 DEF AccessInv, VendorAccessSound

(* Vendor users: by a request about others nobody loses a vendor he acts for, and the role *)
(* taken from a user, and the stop of a vendor, hold but for the repairs and approvals that *)
(* the parts name (marketplace_services, user_services). *)
THEOREM VendorAccessTrue == VendorAccessSpec => [](VendorAccessTypeOK /\ VendorAccessSound)
<1>1. AccessInv /\ [VendorAccessNext]_accessVars => AccessInv' BY AccessStep
<1> QED BY <1>1, AccessStart, AccessInvSound, PTL DEF VendorAccessSpec

--------------------
\* DesktopShell: the window, the client and the tasks agree.

\* A task there is; one that began before the last signing in or out.
Busily(k) == tasks[k] # NoTask
Stale(k) == Busily(k) /\ tasks[k].born # epoch

ShellTypes ==
  /\ screen \in Somebody /\ holder \in Somebody /\ epoch \in 1..MaxEpochs
  /\ busy \in [Kinds -> BOOLEAN] /\ tasks \in [Kinds -> Task \cup {NoTask}]
  /\ timers \in 0..MaxTimers /\ wanted \in {"in", "out"} /\ overtaken \subseteq Kinds
  /\ \A k \in Kinds : Busily(k) => tasks[k].born <= epoch

\* A task that signs in or out is the only one, and keeps others from beginning; what is
\* busy without a task was overtaken.
TasksFit ==
  /\ busy["auth"] <=> Busily("auth")
  /\ ~Stale("auth")
  /\ \A k \in Kinds : Stale(k) => k \in overtaken
  /\ BusyEnds

\* While no refresh runs across a signing in or out: during a signing in the window shows
\* nobody, no refresh that still counts runs beside it, and who a task loaded is who the client
\* holds, if anybody.
SignInAlone ==
  /\ Busily("auth") => (Busily("refresh") => Stale("refresh"))
  /\ Busily("auth") /\ tasks["auth"].job \in {"login", "restore"} => screen = Nobody
  /\ \A k \in {"auth", "refresh"} :
        Busily(k) /\ tasks[k].step = "done" /\ ~Stale(k) => holder \in {tasks[k].who, Nobody}
  /\ screen # Nobody /\ holder # Nobody => screen = holder

\* Who signed out is gone from the window, and from the client when the task is done.
SignedOutFor ==
  /\ screen = Nobody
  /\ Busily("auth") => /\ tasks["auth"].job = "logout"
                       /\ tasks["auth"].step = "asked" \/ holder = Nobody
                       /\ tasks["auth"].step \in {"asked", "done"}
  /\ ~Busily("auth") => holder = Nobody
  /\ Busily("refresh") => Stale("refresh")

ShellInv == /\ ShellTypes /\ TasksFit
            /\ ~crossed => SignInAlone
            /\ wanted = "out" /\ ~crossed /\ ~ignored => SignedOutFor

LEMMA ShellSound == ShellInv => DesktopSound
<1> SUFFICES ASSUME ShellInv PROVE DesktopSound OBVIOUS
<1>1. ScreenMatchesClient BY DEF ShellInv, SignInAlone, ScreenMatchesClient
<1>2. SignedOutStays BY DEF ShellInv, SignedOutFor, SignedOutStays
<1>3. BusyEnds BY DEF ShellInv, TasksFit
<1> QED BY <1>1, <1>2, <1>3 DEF DesktopSound

LEMMA ShellStart == DesktopInit => ShellInv
<1> SUFFICES ASSUME DesktopInit PROVE ShellInv OBVIOUS
<1>1. PICK p \in Somebody : tasks = [k \in Kinds |-> IF k # "auth" THEN NoTask ELSE
                           [step |-> "asked", job |-> "restore", who |-> p, born |-> 1]]
  BY DEF DesktopInit
<1>2. Nobody \in Somebody /\ 1 \in 1..MaxEpochs /\ 1 \in 0..MaxEpochs /\ 0 \in 0..MaxTimers
  BY DesktopAssumption DEF Somebody
<1>3. /\ tasks \in [Kinds -> Task \cup {NoTask}] /\ \A k \in Kinds : Busily(k) <=> k = "auth"
      /\ tasks["auth"].step = "asked" /\ tasks["auth"].job = "restore" /\ tasks["auth"].born = 1
  BY <1>1, <1>2 DEF Kinds, Task, Steps, NoTask, Busily
<1>4. ShellTypes
  <2>1. busy \in [Kinds -> BOOLEAN] BY DEF DesktopInit, Kinds
  <2>2. \A k \in Kinds : Busily(k) => tasks[k].born <= epoch BY <1>2, <1>3 DEF DesktopInit
  <2> QED BY <1>2, <1>3, <2>1, <2>2 DEF DesktopInit, ShellTypes
<1>5. TasksFit BY <1>2, <1>3 DEF DesktopInit, TasksFit, Kinds, Stale, BusyEnds, Busily
<1>6. SignInAlone BY <1>2, <1>3 DEF DesktopInit, SignInAlone, Kinds, Stale
<1> QED BY <1>4, <1>5, <1>6 DEF ShellInv, DesktopInit

--------------------
\* The task of a kind goes on: it stays the one it was.
Moves(kind) ==
  /\ kind \in Kinds /\ Busily(kind) /\ tasks' \in [Kinds -> Task \cup {NoTask}]
  /\ tasks'[kind] # NoTask /\ tasks'[kind].job = tasks[kind].job
  /\ tasks'[kind].born = tasks[kind].born
  /\ \A j \in Kinds \ {kind} : tasks'[j] = tasks[j]
  /\ UNCHANGED <<epoch, busy, timers, wanted, ignored, overtaken>>

(* A task is at another step, or of another person, and still the same. *)
LEMMA TaskMoves ==
  ASSUME ShellTypes, NEW kind \in Kinds, Busily(kind), NEW step \in Steps, NEW who \in Somebody,
         UNCHANGED <<epoch, busy, timers, wanted, ignored, overtaken>>,
         \/ tasks' = Stepped(kind, step) /\ who = tasks[kind].who
         \/ tasks' = [tasks EXCEPT ![kind].step = step, ![kind].who = who]
  PROVE  Moves(kind) /\ tasks'[kind].step = step /\ tasks'[kind].who = who
<1>1. tasks[kind] \in Task BY DEF ShellTypes, Busily
<1>2. tasks' = [tasks EXCEPT ![kind] = [tasks[kind] EXCEPT !.step = step, !.who = who]]
  BY <1>1 DEF Stepped, Task, ShellTypes
<1>3. /\ [tasks[kind] EXCEPT !.step = step, !.who = who] \in Task
      /\ [tasks[kind] EXCEPT !.step = step, !.who = who].step = step
      /\ [tasks[kind] EXCEPT !.step = step, !.who = who].who = who
      /\ [tasks[kind] EXCEPT !.step = step, !.who = who].job = tasks[kind].job
      /\ [tasks[kind] EXCEPT !.step = step, !.who = who].born = tasks[kind].born
  BY <1>1 DEF Task
<1>4. step # "none" BY DEF Steps
<1> QED BY <1>2, <1>3, <1>4 DEF Moves, ShellTypes, NoTask, Stepped

(* What that leaves true. *)
LEMMA MovesFit ==
  ASSUME ShellInv, NEW kind, Moves(kind), screen' \in Somebody, holder' \in Somebody
  PROVE  /\ ShellTypes' /\ TasksFit'
         /\ \A k \in Kinds : (Busily(k)' <=> Busily(k)) /\ (Stale(k)' <=> Stale(k))
<1>1. \A k \in Kinds : (Busily(k)' <=> Busily(k)) /\ (Stale(k)' <=> Stale(k))
                       /\ (Busily(k) => tasks'[k].born = tasks[k].born)
  BY DEF Moves, Busily, Stale
<1>2. ShellTypes' BY <1>1 DEF ShellInv, ShellTypes, Moves
<1>3. BusyEnds' BY <1>1 DEF ShellInv, TasksFit, BusyEnds, Moves, Busily
<1>4. TasksFit' BY <1>1, <1>3 DEF ShellInv, TasksFit, Moves, Kinds
<1> QED BY <1>1, <1>2, <1>4

(* A task goes on and the client keeps its session, or forgets it. *)
LEMMA MovesQuietly ==
  ASSUME ShellInv, NEW kind, Moves(kind), UNCHANGED screen, holder' \in {holder, Nobody},
         ~crossed' => ~crossed,
         tasks'[kind].step = "done" /\ kind # "page" => holder' \in {tasks'[kind].who, Nobody},
         kind = "auth" /\ tasks[kind].job = "logout" =>
            tasks'[kind].step = "done" /\ holder' = Nobody
  PROVE  ShellInv'
<1>1. holder' \in Somebody /\ screen' \in Somebody BY DEF ShellInv, ShellTypes, Somebody
<1>2. /\ ShellTypes' /\ TasksFit'
      /\ \A k \in Kinds : (Busily(k)' <=> Busily(k)) /\ (Stale(k)' <=> Stale(k))
  BY <1>1, MovesFit
<1>k. {"auth", "refresh"} \subseteq Kinds /\ kind \in Kinds BY DEF Kinds, Moves
<1>3. ASSUME SignInAlone PROVE SignInAlone'
  <2>1. ASSUME NEW k \in {"auth", "refresh"}, Busily(k), tasks'[k].step = "done", ~Stale(k)
        PROVE  holder' \in {tasks'[k].who, Nobody}
    <3>1. CASE k = kind BY <3>1, <2>1
    <3>2. CASE k # kind
      <4>1. tasks'[k] = tasks[k] BY <3>2, <1>k, <2>1 DEF Moves
      <4> QED BY <4>1, <1>3, <2>1 DEF SignInAlone
    <3> QED BY <3>1, <3>2
  <2>2. tasks'["auth"].job = tasks["auth"].job BY <1>k DEF Moves
  <2>3. Busily("auth")' => (Busily("refresh")' => Stale("refresh")')
    BY <1>2, <1>3, <1>k DEF SignInAlone
  <2>4. Busily("auth")' /\ tasks'["auth"].job \in {"login", "restore"} => screen' = Nobody
    BY <1>2, <1>3, <1>k, <2>2 DEF SignInAlone
  <2>5. \A k \in {"auth", "refresh"} :
           Busily(k)' /\ tasks'[k].step = "done" /\ ~Stale(k)' => holder' \in {tasks'[k].who, Nobody}
    BY <1>2, <1>k, <2>1
  <2>6. screen' # Nobody /\ holder' # Nobody => screen' = holder' BY <1>3 DEF SignInAlone
  <2> QED BY <2>3, <2>4, <2>5, <2>6 DEF SignInAlone
<1>4. ASSUME SignedOutFor PROVE SignedOutFor'
  <2>1. (Busily("auth")' <=> Busily("auth")) /\ (Busily("refresh")' => Stale("refresh")')
    BY <1>2, <1>4, <1>k DEF SignedOutFor
  <2>2. tasks'["auth"].job = tasks["auth"].job BY <1>k DEF Moves
  <2>3. ASSUME Busily("auth")
        PROVE  /\ tasks'["auth"].step = "asked" \/ holder' = Nobody
               /\ tasks'["auth"].step \in {"asked", "done"}
    <3>1. CASE kind = "auth" BY <3>1, <2>3, <1>4 DEF SignedOutFor
    <3>2. CASE kind # "auth"
      <4>1. tasks'["auth"] = tasks["auth"] BY <3>2, <1>k DEF Moves
      <4> QED BY <4>1, <2>3, <1>4 DEF SignedOutFor
    <3> QED BY <3>1, <3>2
  <2> QED BY <1>4, <2>1, <2>2, <2>3 DEF SignedOutFor
<1>5. wanted' = wanted /\ (ignored' <=> ignored) BY DEF Moves
<1> QED BY <1>2, <1>3, <1>4, <1>5 DEF ShellInv

--------------------
\* A task of a kind begins, in the epoch that is or the next one.
BeginsTask(kind) ==
  /\ kind \in Kinds /\ tasks' \in [Kinds -> Task \cup {NoTask}]
  /\ tasks'[kind] # NoTask /\ tasks'[kind].born = epoch' /\ tasks'[kind].step = "asked"
  /\ \A j \in Kinds \ {kind} : tasks'[j] = tasks[j]

LEMMA TaskBegins ==
  ASSUME ShellTypes, NEW kind \in Kinds, NEW who \in Somebody, epoch' \in 1..MaxEpochs,
         NEW job \in {"login", "restore", "logout", "password", "refresh", "page"},
         tasks' = Began(kind, job, who)
  PROVE  BeginsTask(kind) /\ tasks'[kind].job = job /\ tasks'[kind].who = who
<1> DEFINE t == [step |-> "asked", job |-> job, who |-> who, born |-> epoch']
<1>1. epoch' \in 0..MaxEpochs OBVIOUS
<1>2. t \in Task BY <1>1 DEF Task, Steps
<1>3. tasks' = [tasks EXCEPT ![kind] = t] BY DEF Began
<1>4. t # NoTask BY DEF NoTask
<1> QED BY <1>2, <1>3, <1>4 DEF BeginsTask, ShellTypes

(* A task that signs in or out begins: what else runs is of an earlier epoch. *)
LEMMA AuthBegins ==
  ASSUME ShellInv, MayBeginAuth, NEW who \in Somebody, NEW job \in {"login", "logout", "password"},
         BeginAuth(job, who), screen' \in Somebody, holder' = holder, timers' = timers,
         wanted' \in {"in", "out"}
  PROVE  /\ ShellTypes' /\ TasksFit' /\ Busily("auth")' /\ (Busily("refresh")' => Stale("refresh")')
         /\ tasks'["auth"].job = job /\ tasks'["auth"].step = "asked"
<1>1. epoch' = epoch + 1 /\ epoch' \in 1..MaxEpochs /\ epoch \in 1..MaxEpochs
  BY DesktopAssumption DEF ShellInv, ShellTypes, MayBeginAuth, BeginAuth
<1>k. Kinds = {"auth", "refresh", "page"} BY DEF Kinds
<1>2. BeginsTask("auth") /\ tasks'["auth"].job = job
  BY <1>1, <1>k, TaskBegins DEF ShellInv, BeginAuth
<1>3. /\ \A k \in Kinds \ {"auth"} : /\ (Busily(k)' <=> Busily(k)) /\ (Stale(k)' <=> Busily(k))
                                     /\ (Busily(k) => tasks'[k].born <= epoch')
      /\ Busily("auth")' /\ ~Stale("auth")' /\ tasks'["auth"].born <= epoch'
  <2>1. ASSUME NEW k \in Kinds \ {"auth"}
        PROVE  /\ (Busily(k)' <=> Busily(k)) /\ (Stale(k)' <=> Busily(k))
               /\ (Busily(k) => tasks'[k].born <= epoch')
    <3>1. tasks'[k] = tasks[k] BY <1>2 DEF BeginsTask
    <3>2. Busily(k) => tasks[k].born \in 0..MaxEpochs /\ tasks[k].born <= epoch
      BY DEF ShellInv, ShellTypes, Busily, Task
    <3> QED BY <1>1, <3>1, <3>2 DEF Busily, Stale
  <2> QED BY <2>1, <1>1, <1>2 DEF BeginsTask, Busily, Stale
<1>4. busy' = [busy EXCEPT !["auth"] = TRUE] /\ busy' \in [Kinds -> BOOLEAN]
      /\ overtaken' = overtaken \cup {k \in Kinds \ {"auth"} : Busily(k)}
  BY DEF BeginAuth, ShellInv, ShellTypes, Busily
<1>5. ShellTypes'
  <2>1. \A k \in Kinds : Busily(k)' => tasks'[k].born <= epoch' BY <1>3
  <2> QED BY <1>1, <1>2, <1>4, <2>1 DEF ShellInv, ShellTypes, BeginsTask, Somebody
<1>6. TasksFit'
  <2>1. BusyEnds' BY <1>k, <1>3, <1>4 DEF ShellInv, ShellTypes, TasksFit, BusyEnds, Busily
  <2>2. busy'["auth"] BY <1>k, <1>4 DEF ShellInv, ShellTypes
  <2>3. \A k \in Kinds : Stale(k)' => k \in overtaken' BY <1>3, <1>4
  <2> QED BY <2>1, <2>2, <2>3, <1>3 DEF TasksFit
<1> QED BY <1>2, <1>3, <1>5, <1>6, <1>k DEF BeginsTask

LEMMA LoginStep ==
  ASSUME ShellInv, ClickLogin
  PROVE  ShellInv'
<1>1. PICK p \in People : screen = Nobody /\ MayBeginAuth /\ BeginAuth("login", p) BY DEF ClickLogin
<1>2. /\ ShellTypes' /\ TasksFit' /\ Busily("auth")' /\ (Busily("refresh")' => Stale("refresh")')
      /\ tasks'["auth"].job = "login" /\ tasks'["auth"].step = "asked"
  BY <1>1, AuthBegins DEF ClickLogin, ShellInv, ShellTypes, Somebody
<1>3. SignInAlone'
  <2>1. screen' = Nobody BY <1>1 DEF ClickLogin
  <2>2. ~(Busily("refresh")' /\ ~Stale("refresh")') BY <1>2
  <2> QED BY <1>2, <2>1, <2>2 DEF SignInAlone
<1> QED BY <1>2, <1>3 DEF ShellInv, ClickLogin

LEMMA PasswordStep ==
  ASSUME ShellInv, ClickChangePassword
  PROVE  ShellInv'
<1>1. /\ ShellTypes' /\ TasksFit' /\ Busily("auth")' /\ (Busily("refresh")' => Stale("refresh")')
      /\ tasks'["auth"].job = "password" /\ tasks'["auth"].step = "asked"
  BY AuthBegins DEF ClickChangePassword, ShellInv, ShellTypes, Somebody
<1>2. ASSUME SignInAlone PROVE SignInAlone' BY <1>1, <1>2 DEF SignInAlone, ClickChangePassword
<1>3. ~SignedOutFor /\ (crossed' <=> crossed) /\ (ignored' <=> ignored) /\ wanted' = wanted
  BY DEF SignedOutFor, ClickChangePassword
<1> QED BY <1>1, <1>2, <1>3 DEF ShellInv

LEMMA LogoutStep ==
  ASSUME ShellInv, ClickLogout
  PROVE  ShellInv'
<1>1. screen' = Nobody /\ wanted' = "out" /\ holder' = holder /\ (crossed' <=> crossed) /\ Nobody \in Somebody
      /\ holder \in Somebody /\ timers' = timers
  BY DEF ClickLogout, Somebody, ShellInv, ShellTypes
<1>2. CASE MayBeginAuth
  <2>1. BeginAuth("logout", holder) /\ (ignored' <=> ignored) BY <1>2 DEF ClickLogout
  <2>2. /\ ShellTypes' /\ TasksFit' /\ Busily("auth")' /\ (Busily("refresh")' => Stale("refresh")')
        /\ tasks'["auth"].job = "logout" /\ tasks'["auth"].step = "asked"
    BY <1>1, <1>2, <2>1, AuthBegins
  <2>3. SignInAlone' /\ SignedOutFor' BY <1>1, <2>2 DEF SignInAlone, SignedOutFor
  <2> QED BY <2>2, <2>3 DEF ShellInv
<1>3. CASE ~MayBeginAuth
  <2>1. ignored' /\ UNCHANGED <<epoch, busy, tasks, overtaken>> BY <1>3 DEF ClickLogout
  <2>2. ShellTypes' /\ TasksFit'
    BY <1>1, <2>1 DEF ShellInv, ShellTypes, TasksFit, BusyEnds, Busily, Stale
  <2>3. ASSUME SignInAlone PROVE SignInAlone' BY <1>1, <2>1, <2>3 DEF SignInAlone, Busily, Stale
  <2> QED BY <1>1, <2>1, <2>2, <2>3 DEF ShellInv
<1> QED BY <1>2, <1>3

(* A refresh, or the loading of a page, begins. *)
LEMMA OtherBegins ==
  ASSUME ShellInv, NEW kind \in {"refresh", "page"}, NEW job \in {"refresh", "page"},
         tasks' = Began(kind, job, holder), epoch' = epoch, ~busy[kind], timers' \in 0..MaxTimers,
         busy' = [busy EXCEPT ![kind] = TRUE],
         UNCHANGED <<screen, holder, wanted, overtaken>>
  PROVE  /\ ShellTypes' /\ TasksFit' /\ BeginsTask(kind) /\ ~Stale(kind)'
         /\ \A k \in Kinds \ {kind} : (Busily(k)' <=> Busily(k)) /\ (Stale(k)' <=> Stale(k))
<1>k. Kinds = {"auth", "refresh", "page"} BY DEF Kinds
<1>1. BeginsTask(kind) BY <1>k, TaskBegins DEF ShellInv, ShellTypes
<1>2. \A k \in Kinds \ {kind} : (Busily(k)' <=> Busily(k)) /\ (Stale(k)' <=> Stale(k))
                                /\ tasks'[k] = tasks[k]
  BY <1>1 DEF BeginsTask, Busily, Stale
<1>3. Busily(kind)' /\ ~Stale(kind)' /\ tasks'[kind].born <= epoch'
  BY <1>1 DEF BeginsTask, Busily, Stale, ShellInv, ShellTypes
<1>4. ShellTypes'
  <2>1. \A k \in Kinds : Busily(k)' => tasks'[k].born <= epoch'
    BY <1>2, <1>3 DEF ShellInv, ShellTypes
  <2> QED BY <1>1, <2>1 DEF ShellInv, ShellTypes, BeginsTask
<1>5. \A k \in Kinds \ {kind} : busy'[k] = busy[k] BY DEF ShellInv, ShellTypes
<1>6. TasksFit'
  <2>1. BusyEnds' BY <1>2, <1>3, <1>5 DEF ShellInv, TasksFit, BusyEnds, Busily
  <2>2. \A k \in Kinds : Stale(k)' => k \in overtaken' BY <1>2, <1>3 DEF ShellInv, TasksFit
  <2> QED BY <1>k, <1>2, <1>5, <2>1, <2>2 DEF ShellInv, TasksFit
<1> QED BY <1>1, <1>2, <1>3, <1>4, <1>6

LEMMA TimerStep ==
  ASSUME ShellInv, FireTimer
  PROVE  ShellInv'
<1>0. timers' \in 0..MaxTimers BY DesktopAssumption DEF ShellInv, ShellTypes, FireTimer
<1>1. /\ ShellTypes' /\ TasksFit' /\ BeginsTask("refresh") /\ ~Stale("refresh")'
      /\ (Busily("auth")' <=> Busily("auth")) /\ (Stale("auth")' <=> Stale("auth"))
  BY <1>0, OtherBegins DEF FireTimer, Kinds
<1>2. ASSUME ~crossed' PROVE SignInAlone' /\ ~crossed /\ ~Busily("auth")
  <2>1. ~crossed /\ ~Busily("auth") /\ SignInAlone /\ screen' = screen /\ holder' = holder
    BY <1>2 DEF FireTimer, Busily, ShellInv
  <2>2. tasks'["refresh"].step = "asked" BY <1>1 DEF BeginsTask
  <2> QED BY <1>1, <2>1, <2>2 DEF SignInAlone
<1>3. ~Busily("auth") => ~SignedOutFor BY DEF SignedOutFor, FireTimer
<1>4. (ignored' <=> ignored) /\ wanted' = wanted BY DEF FireTimer
<1> QED BY <1>1, <1>2, <1>3, <1>4 DEF ShellInv

LEMMA LoadPageStep ==
  ASSUME ShellInv, LoadPage
  PROVE  ShellInv'
<1>0. timers' \in 0..MaxTimers BY DEF ShellInv, ShellTypes, LoadPage
<1>1. /\ ShellTypes' /\ TasksFit' /\ BeginsTask("page")
      /\ \A k \in {"auth", "refresh"} : (Busily(k)' <=> Busily(k)) /\ (Stale(k)' <=> Stale(k))
  BY <1>0, OtherBegins DEF LoadPage, Kinds
<1>2. \A k \in {"auth", "refresh"} : tasks'[k] = tasks[k] BY <1>1 DEF BeginsTask, Kinds
<1>3. ASSUME SignInAlone PROVE SignInAlone' BY <1>1, <1>2, <1>3 DEF SignInAlone, LoadPage
<1>4. ~SignedOutFor BY DEF SignedOutFor, LoadPage
<1>5. (ignored' <=> ignored) /\ wanted' = wanted /\ (crossed' <=> crossed) BY DEF LoadPage
<1> QED BY <1>1, <1>3, <1>4, <1>5 DEF ShellInv

--------------------
(* The session is installed: no refresh that counts runs beside it, and nobody is shown. *)
LEMMA InstallStep ==
  ASSUME ShellInv, InstallSignIn
  PROVE  ShellInv'
<1>1. Busily("auth") /\ "auth" \in Kinds /\ tasks["auth"].who \in Somebody /\ "loading" \in Steps
      /\ tasks["auth"].job \in {"login", "restore"}
  BY DEF InstallSignIn, Busily, NoTask, Kinds, ShellInv, ShellTypes, Task, Steps
<1>2. Moves("auth") /\ tasks'["auth"].step = "loading"
  BY <1>1, TaskMoves DEF InstallSignIn, ShellInv
<1>3. /\ ShellTypes' /\ TasksFit'
      /\ \A k \in Kinds : (Busily(k)' <=> Busily(k)) /\ (Stale(k)' <=> Stale(k))
  BY <1>1, <1>2, MovesFit DEF InstallSignIn, ShellInv, ShellTypes
<1>4. ASSUME SignInAlone PROVE SignInAlone'
  <2>1. screen' = Nobody /\ (Busily("refresh") => Stale("refresh"))
    BY <1>1, <1>4 DEF SignInAlone, InstallSignIn
  <2> QED BY <1>2, <1>3, <2>1 DEF SignInAlone, Kinds
<1>5. ~SignedOutFor BY <1>1 DEF SignedOutFor
<1>6. (ignored' <=> ignored) /\ wanted' = wanted /\ (crossed' <=> crossed) BY DEF InstallSignIn
<1> QED BY <1>3, <1>4, <1>5, <1>6 DEF ShellInv

(* The other steps of a task: it goes on, and the client keeps its session or forgets it. *)
LEMMA QuietSteps ==
  ASSUME ShellInv, \/ RefuseSignIn \/ ChangePassword \/ ForgetSession \/ BeginRenewal
                   \/ InstallRenewal \/ RefuseRenewal \/ LoadBundle \/ FailBundle \/ AnswerPage
  PROVE  ShellInv'
<1>k. Kinds = {"auth", "refresh", "page"} /\ holder \in Somebody /\ Nobody \in Somebody
      /\ Steps = {"asked", "renewing", "loading", "done", "failed"}
  BY DEF Kinds, ShellInv, ShellTypes, Somebody, Steps
<1>b. \A k \in Kinds : tasks[k].step # "none" =>
        /\ Busily(k) /\ tasks[k].who \in Somebody /\ tasks[k].step \in Steps
  BY DEF Busily, NoTask, ShellInv, ShellTypes, Task
<1>n. \A k \in Kinds : tasks[k].step \in Steps => Busily(k) /\ tasks[k].who \in Somebody
  BY <1>b, <1>k
<1>1. CASE RefuseSignIn
  <2>1. Moves("auth") /\ tasks'["auth"].step = "failed"
    BY <1>1, <1>k, <1>n, TaskMoves DEF RefuseSignIn, ShellInv
  <2> QED BY <1>1, <2>1, MovesQuietly DEF RefuseSignIn
<1>2. CASE ChangePassword
  <2>1. Moves("auth") /\ tasks'["auth"].step = "loading"
    BY <1>2, <1>k, <1>n, TaskMoves DEF ChangePassword, ShellInv
  <2> QED BY <1>2, <2>1, MovesQuietly DEF ChangePassword
<1>3. CASE ForgetSession
  <2>1. Moves("auth") /\ tasks'["auth"].step = "done"
    BY <1>3, <1>k, <1>n, TaskMoves DEF ForgetSession, ShellInv
  <2> QED BY <1>3, <2>1, MovesQuietly DEF ForgetSession
<1>4. CASE BeginRenewal
  <2> DEFINE s == IF holder = Nobody THEN "failed" ELSE "renewing"
  <2>1. PICK k \in {"refresh", "page"} :
           /\ tasks[k].step = "asked"
           /\ tasks' = [tasks EXCEPT ![k].step = s, ![k].who = holder]
    BY <1>4 DEF BeginRenewal
  <2>2. s \in Steps /\ s # "done" BY <1>k
  <2>4. k \in Kinds /\ Busily(k) BY <1>k, <1>n, <2>1
  <2>5. UNCHANGED <<screen, holder, epoch, busy, timers, wanted, crossed, ignored, overtaken>>
    BY <1>4 DEF BeginRenewal
  <2>3. Moves(k) /\ tasks'[k].step = s
    <3> HIDE DEF s
    <3> QED BY <1>k, <2>1, <2>2, <2>4, <2>5, TaskMoves DEF ShellInv
  <2> QED
    <3> HIDE DEF s
    <3> QED BY <2>2, <2>3, <2>5, MovesQuietly
<1>5. CASE InstallRenewal
  <2> DEFINE s(k) == IF k = "page" THEN "done" ELSE "loading"
  <2>1. PICK k \in {"refresh", "page"} :
           /\ tasks[k].step = "renewing" /\ holder' = tasks[k].who
           /\ crossed' = (crossed \/ holder # tasks[k].who)
           /\ tasks' = Stepped(k, s(k))
    BY <1>5 DEF InstallRenewal
  <2>2. s(k) \in Steps /\ (s(k) = "done" => k = "page") BY <1>k
  <2>a. k \in Kinds /\ Busily(k) /\ tasks[k].who \in Somebody BY <1>k, <1>n, <2>1
  <2>b. UNCHANGED <<screen, epoch, busy, timers, wanted, ignored, overtaken>>
    BY <1>5 DEF InstallRenewal
  <2>3. Moves(k) /\ tasks'[k].step = s(k) /\ tasks'[k].who = tasks[k].who
    <3>1. CASE k = "page" BY <3>1, <1>k, <2>1, <2>a, <2>b, TaskMoves DEF ShellInv
    <3>2. CASE k = "refresh" BY <3>2, <1>k, <2>1, <2>a, <2>b, TaskMoves DEF ShellInv
    <3> QED BY <3>1, <3>2
  <2>4. CASE crossed'
    <3>1. ShellTypes' /\ TasksFit'
      BY <1>5, <1>k, <1>n, <2>1, <2>3, MovesFit DEF InstallRenewal, ShellInv, ShellTypes
    <3> QED BY <2>4, <3>1 DEF ShellInv
  <2>5. CASE ~crossed'
    <3>1. ~crossed /\ holder' = holder BY <2>1, <2>5
    <3> HIDE DEF s
    <3> QED BY <1>5, <2>1, <2>2, <2>3, <3>1, MovesQuietly DEF InstallRenewal
  <2> QED BY <2>4, <2>5
<1>6. CASE RefuseRenewal
  <2>1. PICK k \in {"refresh", "page"} :
           tasks[k].step = "renewing" /\ holder' = Nobody /\ tasks' = Stepped(k, "failed")
    BY <1>6 DEF RefuseRenewal
  <2>2. Moves(k) /\ tasks'[k].step = "failed"
    BY <1>6, <1>k, <1>n, <2>1, TaskMoves DEF RefuseRenewal, ShellInv
  <2> QED BY <1>6, <2>1, <2>2, MovesQuietly DEF RefuseRenewal
<1>7. CASE LoadBundle
  <2>1. PICK k \in {"auth", "refresh"} :
           tasks[k].step = "loading" /\ tasks' = [tasks EXCEPT ![k].step = "done", ![k].who = holder]
    BY <1>7 DEF LoadBundle
  <2>a. k \in Kinds /\ Busily(k) BY <1>k, <1>n, <2>1
  <2>b. UNCHANGED <<screen, holder, epoch, busy, timers, wanted, crossed, ignored, overtaken>>
    BY <1>7 DEF LoadBundle
  <2>2. Moves(k) /\ tasks'[k].step = "done" /\ tasks'[k].who = holder
    <3> DEFINE s == "done"
    <3>1. /\ s \in Steps /\ holder \in Somebody /\ ShellTypes
          /\ tasks' = [tasks EXCEPT ![k].step = s, ![k].who = holder]
          /\ UNCHANGED <<epoch, busy, timers, wanted, ignored, overtaken>>
      BY <1>k, <2>1, <2>b DEF ShellInv
    <3>2. Moves(k) /\ tasks'[k].step = s /\ tasks'[k].who = holder
      <4> HIDE DEF s
      <4> QED BY <2>a, <3>1, TaskMoves
    <3> QED BY <3>2
  <2>3. CASE k = "auth" /\ tasks[k].job = "logout"
    <3>1. ShellTypes' /\ TasksFit' /\ \A j \in Kinds : (Busily(j)' <=> Busily(j)) /\ (Stale(j)' <=> Stale(j))
      BY <1>7, <1>k, <2>2, MovesFit DEF LoadBundle, ShellInv, ShellTypes
    <3>2. ~SignedOutFor BY <1>n, <1>k, <2>1, <2>3 DEF SignedOutFor
    <3>3. ASSUME SignInAlone PROVE SignInAlone'
      BY <1>7, <1>k, <2>2, <2>3, <3>1, <3>3 DEF SignInAlone, Moves, LoadBundle
    <3>4. (ignored' <=> ignored) /\ wanted' = wanted /\ (crossed' <=> crossed)
      BY <1>7 DEF LoadBundle
    <3> QED BY <3>1, <3>2, <3>3, <3>4 DEF ShellInv
  <2>4. CASE ~(k = "auth" /\ tasks[k].job = "logout") BY <2>b, <2>2, <2>4, MovesQuietly
  <2> QED BY <2>3, <2>4
<1>8. CASE FailBundle
  <2>1. PICK k \in {"auth", "refresh"} :
           /\ tasks[k].step = "loading" /\ tasks' = Stepped(k, "failed")
           /\ holder' \in {holder, Nobody}
    BY <1>8 DEF FailBundle
  <2>2. Moves(k) /\ tasks'[k].step = "failed"
    BY <1>8, <1>k, <1>n, <2>1, TaskMoves DEF FailBundle, ShellInv
  <2>3. CASE k = "auth" /\ tasks[k].job = "logout"
    <3>1. ShellTypes' /\ TasksFit' /\ \A j \in Kinds : (Busily(j)' <=> Busily(j)) /\ (Stale(j)' <=> Stale(j))
      BY <1>8, <1>k, <2>1, <2>2, MovesFit DEF FailBundle, ShellInv, ShellTypes
    <3>2. ~SignedOutFor BY <1>n, <1>k, <2>1, <2>3 DEF SignedOutFor
    <3>3. ASSUME SignInAlone PROVE SignInAlone'
      BY <1>8, <1>k, <2>1, <2>2, <2>3, <3>1, <3>3 DEF SignInAlone, Moves, FailBundle
    <3>4. (ignored' <=> ignored) /\ wanted' = wanted /\ (crossed' <=> crossed)
      BY <1>8 DEF FailBundle
    <3> QED BY <3>1, <3>2, <3>3, <3>4 DEF ShellInv
  <2>4. CASE ~(k = "auth" /\ tasks[k].job = "logout")
    BY <1>8, <2>1, <2>2, <2>4, MovesQuietly DEF FailBundle
  <2> QED BY <2>3, <2>4
<1>9. CASE AnswerPage
  <2>1. PICK step \in {"done", "failed"} :
           /\ tasks["page"].step = "asked" /\ tasks' = Stepped("page", step)
           /\ holder' \in {holder, Nobody}
    BY <1>9 DEF AnswerPage
  <2>2. Moves("page") /\ tasks'["page"].step = step
    BY <1>9, <1>k, <1>n, <2>1, TaskMoves DEF AnswerPage, ShellInv
  <2> QED BY <1>9, <2>1, <2>2, MovesQuietly DEF AnswerPage
<1> QED BY <1>1, <1>2, <1>3, <1>4, <1>5, <1>6, <1>7, <1>8, <1>9

(* The results of a task are taken, if nobody signed in or out since. *)
LEMMA DeliverStep ==
  ASSUME ShellInv, Deliver
  PROVE  ShellInv'
<1>k. Kinds = {"auth", "refresh", "page"} BY DEF Kinds
<1>1. PICK k \in Kinds :
        /\ tasks[k].step \in {"done", "failed"}
        /\ screen' = IF StillCurrent(k) THEN ScreenAfter(k) ELSE screen
        /\ busy' = IF StillCurrent(k) THEN [busy EXCEPT ![k] = FALSE] ELSE busy
        /\ tasks' = [tasks EXCEPT ![k] = NoTask]
  BY DEF Deliver
<1>2. UNCHANGED <<holder, epoch, timers, wanted, crossed, ignored, overtaken>> BY DEF Deliver
<1>3. Busily(k) /\ tasks[k] \in Task /\ (StillCurrent(k) <=> ~Stale(k))
  BY <1>1 DEF Busily, NoTask, ShellInv, ShellTypes, Stale, StillCurrent, Current
<1>4. /\ ~Busily(k)' /\ ~Stale(k)' /\ tasks'[k] = NoTask
      /\ \A j \in Kinds \ {k} : (Busily(j)' <=> Busily(j)) /\ (Stale(j)' <=> Stale(j))
                                /\ tasks'[j] = tasks[j]
  BY <1>1, <1>2 DEF Busily, Stale, ShellInv, ShellTypes
<1>5. ScreenAfter(k) \in Somebody /\ screen' \in Somebody
  BY <1>1, <1>3 DEF ScreenAfter, Accepted, ShellInv, ShellTypes, Task, Somebody
<1>6. busy' \in [Kinds -> BOOLEAN] /\ \A j \in Kinds \ {k} : busy'[j] = busy[j]
  BY <1>1 DEF ShellInv, ShellTypes
<1>7. ShellTypes'
  <2>1. tasks' \in [Kinds -> Task \cup {NoTask}] BY <1>1 DEF ShellInv, ShellTypes
  <2>2. \A j \in Kinds : Busily(j)' => tasks'[j].born <= epoch'
    BY <1>2, <1>4 DEF ShellInv, ShellTypes
  <2> QED BY <1>2, <1>5, <1>6, <2>1, <2>2 DEF ShellInv, ShellTypes
<1>8. TasksFit'
  <2>1. BusyEnds'
    <3>1. busy'[k] => k \in overtaken' BY <1>1, <1>2, <1>3 DEF ShellInv, ShellTypes, TasksFit
    <3>2. \A j \in Kinds \ {k} : busy'[j] /\ tasks'[j] = NoTask => j \in overtaken'
      BY <1>2, <1>4, <1>6 DEF ShellInv, TasksFit, BusyEnds
    <3> QED BY <3>1, <3>2 DEF BusyEnds
  <2>2. \A j \in Kinds : Stale(j)' => j \in overtaken' BY <1>2, <1>4 DEF ShellInv, TasksFit
  <2>3. (busy'["auth"] <=> Busily("auth")') /\ ~Stale("auth")'
    <3>1. CASE k = "auth" BY <1>1, <1>3, <1>4, <3>1 DEF ShellInv, ShellTypes, TasksFit
    <3>2. CASE k # "auth" BY <1>k, <1>4, <1>6, <3>2 DEF ShellInv, TasksFit
    <3> QED BY <3>1, <3>2
  <2> QED BY <2>1, <2>2, <2>3 DEF TasksFit
<1>9. ASSUME SignInAlone PROVE SignInAlone'
  <2>1. Busily("auth")' => (Busily("refresh")' => Stale("refresh")')
    BY <1>k, <1>4, <1>9 DEF SignInAlone
  <2>2. ASSUME Busily("auth")', tasks'["auth"].job \in {"login", "restore"} PROVE screen' = Nobody
    <3>1. k # "auth" /\ Busily("auth") /\ tasks["auth"].job \in {"login", "restore"}
      BY <1>k, <1>4, <2>2
    <3>2. screen = Nobody /\ (k = "refresh" => Stale(k)) BY <1>3, <1>9, <3>1 DEF SignInAlone
    <3>3. k = "page" => ScreenAfter(k) = Nobody BY <3>2 DEF ScreenAfter
    <3> QED BY <1>k, <1>1, <1>3, <3>1, <3>2, <3>3
  <2>3. ASSUME NEW j \in {"auth", "refresh"}, Busily(j)', tasks'[j].step = "done", ~Stale(j)'
        PROVE  holder' \in {tasks'[j].who, Nobody}
    BY <1>k, <1>2, <1>4, <1>9, <2>3 DEF SignInAlone
  <2>4. ASSUME screen' # Nobody, holder' # Nobody PROVE screen' = holder'
    <3>1. holder # Nobody /\ holder' = holder /\ (screen # Nobody => screen = holder)
      BY <1>2, <1>9, <2>4 DEF SignInAlone
    <3>2. CASE Stale(k) BY <1>1, <1>3, <2>4, <3>1, <3>2
    <3>3. CASE ~Stale(k)
      <4>1. screen' = ScreenAfter(k) BY <1>1, <1>3, <3>3
      <4>2. k \in {"auth", "refresh"} /\ tasks[k].step = "done" => tasks[k].who = holder
        BY <1>3, <1>9, <3>1, <3>3 DEF SignInAlone
      <4> QED BY <1>k, <1>1, <2>4, <3>1, <4>1, <4>2 DEF ScreenAfter, Accepted
    <3> QED BY <3>2, <3>3
  <2> QED BY <2>1, <2>2, <2>3, <2>4 DEF SignInAlone
<1>10. ASSUME SignedOutFor PROVE SignedOutFor'
  <2>1. screen = Nobody /\ (Busily("refresh") => Stale("refresh"))
        /\ (Busily("auth") => tasks["auth"].job = "logout")
    BY <1>10 DEF SignedOutFor
  <2>2. screen' = Nobody
    <3>1. CASE Stale(k) BY <1>1, <1>3, <2>1, <3>1
    <3>2. CASE ~Stale(k)
      <4>1. k # "refresh" /\ (k = "auth" => tasks[k].job = "logout") BY <1>3, <2>1, <3>2
      <4>2. ScreenAfter(k) = Nobody BY <1>k, <2>1, <4>1 DEF ScreenAfter
      <4> QED BY <1>1, <1>3, <3>2, <4>2
    <3> QED BY <3>1, <3>2
  <2>3. Busily("refresh")' => Stale("refresh")' BY <1>k, <1>4, <2>1
  <2>4. ~Busily("auth")' => holder' = Nobody
    <3>1. CASE k = "auth" BY <1>1, <1>2, <1>3, <1>10, <3>1 DEF SignedOutFor
    <3>2. CASE k # "auth" BY <1>k, <1>2, <1>4, <1>10, <3>2 DEF SignedOutFor
    <3> QED BY <3>1, <3>2
  <2>5. Busily("auth")' => /\ tasks'["auth"].job = "logout"
                           /\ tasks'["auth"].step = "asked" \/ holder' = Nobody
                           /\ tasks'["auth"].step \in {"asked", "done"}
    BY <1>k, <1>2, <1>4, <1>10 DEF SignedOutFor
  <2> QED BY <2>2, <2>3, <2>4, <2>5 DEF SignedOutFor
<1>11. (ignored' <=> ignored) /\ wanted' = wanted /\ (crossed' <=> crossed) BY <1>2
<1> QED BY <1>7, <1>8, <1>9, <1>10, <1>11 DEF ShellInv

LEMMA LoseStep ==
  ASSUME ShellInv, \/ LoseSession \/ UNCHANGED desktopVars
  PROVE  ShellInv'
<1>1. CASE LoseSession
  <2>1. /\ holder' = Nobody /\ screen' = Nobody /\ Nobody \in Somebody
        /\ UNCHANGED <<epoch, busy, tasks, timers, wanted, overtaken>>
        /\ (ignored' <=> ignored) /\ (crossed' <=> crossed)
    BY <1>1 DEF LoseSession, Somebody
  <2>2. ShellTypes' /\ TasksFit' BY <2>1 DEF ShellInv, ShellTypes, TasksFit, BusyEnds, Busily, Stale
  <2>3. (SignInAlone => SignInAlone') /\ (SignedOutFor => SignedOutFor')
    BY <2>1 DEF SignInAlone, SignedOutFor, Busily, Stale
  <2> QED BY <2>1, <2>2, <2>3 DEF ShellInv
<1>2. CASE UNCHANGED desktopVars
  <2>1. /\ UNCHANGED <<screen, holder, epoch, busy, tasks, timers, wanted, overtaken>>
        /\ (ignored' <=> ignored) /\ (crossed' <=> crossed)
    BY <1>2 DEF desktopVars
  <2>2. ShellTypes' /\ TasksFit' BY <2>1 DEF ShellInv, ShellTypes, TasksFit, BusyEnds, Busily, Stale
  <2>3. (SignInAlone => SignInAlone') /\ (SignedOutFor => SignedOutFor')
    BY <2>1 DEF SignInAlone, SignedOutFor, Busily, Stale
  <2> QED BY <2>1, <2>2, <2>3 DEF ShellInv
<1> QED BY <1>1, <1>2

(* Every step of the window, the timer, the tasks and the client keeps it. *)
LEMMA ShellStep == ShellInv /\ [DesktopNext]_desktopVars => ShellInv'
  BY LoginStep, LogoutStep, PasswordStep, TimerStep, LoadPageStep, InstallStep, QuietSteps,
     DeliverStep, LoseStep DEF DesktopNext

(* The window never shows one person's session while the client calls with another's, who *)
(* signed out stays signed out, and what is busy ends, but for the named exceptions *)
(* (start_auth_task, accept_session). *)
THEOREM DesktopShellTrue == DesktopSpec => []DesktopSound
<1>1. DesktopInit => ShellInv BY ShellStart
<1>2. ShellInv /\ [DesktopNext]_desktopVars => ShellInv' BY ShellStep
<1>3. ShellInv => DesktopSound BY ShellSound
<1> QED BY <1>1, <1>2, <1>3, PTL DEF DesktopSpec

--------------------
\* DesktopProducts: a save changes what was typed.

Live == {"active", "draft", "archived"}
WareRow == [status : Live \cup {"gone", "unmade"}, category : {"c", "none"}, price : 1..3,
            besides : {"more", "none"}]
PageForm == [of : PageWares \cup {0}, status : Live, category : {"c", "none"}, price : 1..3]

\* A form of a product there is has what the server has, but for what was typed and the marks.
FormAgrees(form, notes, rows, edits) ==
  form.of # 0 /\ rows[form.of].status \in Live /\ "others" \notin notes =>
     /\ form.status = rows[form.of].status \/ "status" \in edits \/ "buttons" \in notes
     /\ form.category = rows[form.of].category \/ "category" \in edits \/ "lists" \in notes
     /\ form.price = rows[form.of].price \/ "price" \in edits

FormStands(form, notes, rows) ==
  form.of = 0 \/ rows[form.of].status \in Live \/ "others" \in notes \/ "halfway" \in notes

FormFits(form, notes, rows, edits) ==
  form \in PageForm /\ FormAgrees(form, notes, rows, edits) /\ FormStands(form, notes, rows)

ProductPageInv ==
  /\ wareRows \in [PageWares -> WareRow]
  /\ typed \subseteq Fields /\ \A u \in overwritten : u.field \in Columns
  /\ FormFits(sheet, since, wareRows, typed)
  /\ SavesWhatWasTyped

LEMMA ProductPageTrue == ProductPageInv => DesktopProductsTypeOK /\ DesktopProductsSound
<1> SUFFICES ASSUME ProductPageInv PROVE DesktopProductsTypeOK /\ DesktopProductsSound OBVIOUS
<1>1. sheet \in PageForm /\ FormStands(sheet, since, wareRows) BY DEF ProductPageInv, FormFits
<1>2. sheet.of \in PageWares \cup {0} BY <1>1 DEF PageForm
<1>3. FormOfAProduct BY <1>1 DEF FormStands, FormOfAProduct, OnServer, Live
<1> QED BY <1>2, <1>3 DEF ProductPageInv, DesktopProductsTypeOK, DesktopProductsSound

LEMMA BlankFits ==
  ASSUME NEW rows, NEW edits, NEW notes
  PROVE  FormFits(Blank, notes, rows, edits)
BY DesktopProductsAssumption DEF FormFits, FormAgrees, FormStands, Blank, PageForm, Live

LEMMA ProductPageStart == DesktopProductsInit => ProductPageInv
<1> SUFFICES ASSUME DesktopProductsInit PROVE ProductPageInv OBVIOUS
<1>1. wareRows \in [PageWares -> WareRow]
  BY DesktopProductsAssumption DEF DesktopProductsInit, WareRow, Row, Gone, Live
<1>2. FormFits(sheet, since, wareRows, typed) BY BlankFits DEF DesktopProductsInit
<1> QED BY <1>1, <1>2 DEF DesktopProductsInit, ProductPageInv, SavesWhatWasTyped

(* The lists are read again: the form loses its category at most, and then it is marked. *)
LEMMA RelistFits ==
  ASSUME NEW form \in PageForm, NEW notes, Relist(form, notes),
         FormFits(form, notes, wareRows', typed')
  PROVE  FormFits(sheet', since', wareRows', typed')
<1>1. PICK c \in {form.category, "none"} :
        sheet' = [form EXCEPT !.category = c] /\ since' = notes \cup Dropped(form.category, sheet'.category)
  BY Zenon DEF Relist, InCombo
<1>2. /\ sheet' \in PageForm /\ sheet'.of = form.of /\ sheet'.status = form.status
      /\ sheet'.price = form.price /\ sheet'.category = c
  BY <1>1 DEF PageForm
<1>3. notes \subseteq since' /\ (c # form.category => "lists" \in since') BY <1>1, <1>2 DEF Dropped
<1> QED BY <1>2, <1>3 DEF FormFits, FormAgrees, FormStands

LEMMA RefillFits ==
  ASSUME NEW p \in PageWares, NEW entry \in WareRow, entry.status \in Live, wareRows'[p] = entry,
         Refill(p, entry)
  PROVE  FormFits(sheet', since', wareRows', typed')
<1> DEFINE form == Filled(p, entry)
           notes == Dropped(entry.category, InCombo(entry.category, listed))
<1>1. InCombo(entry.category, listed) \in {entry.category, "none"} BY DEF InCombo
<1>2. form \in PageForm BY <1>1 DEF Filled, PageForm, WareRow
<1>3. FormFits(form, notes, wareRows', typed')
  BY <1>1, <1>2 DEF FormFits, FormAgrees, FormStands, Filled, Dropped
<1>4. Relist(form, notes) BY DEF Refill
<1> HIDE DEF form, notes
<1> QED BY <1>2, <1>3, <1>4, RelistFits

(* A form that stays fits rows of which its own stays the same. *)
LEMMA SameRowFits ==
  ASSUME ProductPageInv, NEW rows, sheet.of # 0 => rows[sheet.of] = wareRows[sheet.of]
  PROVE  FormFits(sheet, since, rows, typed)
BY DEF ProductPageInv, FormFits, FormAgrees, FormStands

LEMMA SaveStep ==
  ASSUME ProductPageInv, Save
  PROVE  ProductPageInv'
<1> DEFINE p == sheet.of
           entry == Row(sheet.status, sheet.category, sheet.price)
<1>1. /\ p # 0 /\ OnServer(p) /\ wareRows' = [wareRows EXCEPT ![p] = entry]
      /\ overwritten' = overwritten \cup {[field |-> f, since |-> since] :
                                   f \in {f \in Columns \ typed : entry[f] # wareRows[p][f]}}
      /\ \/ Refill(p, entry) /\ typed' = {}
         \/ UNCHANGED <<listed, sheet, typed, since>>
  BY DEF Save
<1>2. /\ sheet \in PageForm /\ p \in PageWares /\ entry \in WareRow /\ entry.status \in Live
      /\ entry.status = sheet.status /\ entry.category = sheet.category /\ entry.price = sheet.price
  BY <1>1 DEF ProductPageInv, FormFits, PageForm, WareRow, Row
<1> HIDE DEF p, entry
<1>3. wareRows' \in [PageWares -> WareRow] /\ wareRows'[p] = entry BY <1>1, <1>2 DEF ProductPageInv
<1>4. FormFits(sheet', since', wareRows', typed') /\ typed' \subseteq Fields
  <2>1. CASE Refill(p, entry) /\ typed' = {} BY <1>2, <1>3, <2>1, RefillFits
  <2>2. CASE UNCHANGED <<listed, sheet, typed, since>>
    BY <1>2, <1>3, <2>2 DEF ProductPageInv, FormFits, FormAgrees, FormStands, p
  <2> QED BY <1>1, <2>1, <2>2
<1>5. ASSUME NEW f \in Columns \ typed, entry[f] # wareRows[p][f]
      PROVE  \/ "others" \in since \/ f = "besides"
             \/ f = "status" /\ "buttons" \in since
             \/ f = "category" /\ "lists" \in since
  <2>1. "others" \notin since =>
          /\ entry.status = wareRows[p].status \/ "status" \in typed \/ "buttons" \in since
          /\ entry.category = wareRows[p].category \/ "category" \in typed \/ "lists" \in since
          /\ entry.price = wareRows[p].price \/ "price" \in typed
    BY <1>1, <1>2 DEF ProductPageInv, FormFits, FormAgrees, OnServer, Live, p
  <2>2. CASE f = "status" BY <1>5, <2>1, <2>2
  <2>3. CASE f = "category" BY <1>5, <2>1, <2>3
  <2>4. CASE f = "price" BY <1>5, <2>1, <2>4
  <2> QED BY <1>5, <2>2, <2>3, <2>4 DEF Fields, Columns
<1>6. \A u \in overwritten' : \/ u \in overwritten
                              \/ \E f \in Columns \ typed : /\ entry[f] # wareRows[p][f]
                                                           /\ u = [field |-> f, since |-> since]
  BY <1>1
<1>7. SavesWhatWasTyped' /\ \A u \in overwritten' : u.field \in Columns
  BY <1>5, <1>6 DEF ProductPageInv, SavesWhatWasTyped
<1> QED BY <1>3, <1>4, <1>7 DEF ProductPageInv

LEMMA CreateStep ==
  ASSUME ProductPageInv, Create
  PROVE  ProductPageInv'
<1> DEFINE entry == Row(sheet.status, sheet.category, sheet.price)
<1>1. PICK p \in Unmade :
        /\ sheet.of = 0 /\ wareRows' = [wareRows EXCEPT ![p] = entry] /\ overwritten' = overwritten
        /\ \/ Refill(p, entry) /\ typed' = {}
           \/ since' = since \cup {"made"} /\ UNCHANGED <<listed, sheet, typed>>
  BY DEF Create
<1>2. /\ sheet \in PageForm /\ p \in PageWares /\ entry \in WareRow /\ entry.status \in Live
  BY <1>1 DEF ProductPageInv, FormFits, PageForm, WareRow, Row, Unmade
<1> HIDE DEF entry
<1>3. wareRows' \in [PageWares -> WareRow] /\ wareRows'[p] = entry BY <1>1, <1>2 DEF ProductPageInv
<1>4. FormFits(sheet', since', wareRows', typed') /\ typed' \subseteq Fields
  <2>1. CASE Refill(p, entry) /\ typed' = {} BY <1>2, <1>3, <2>1, RefillFits
  <2>2. CASE UNCHANGED <<listed, sheet, typed>>
    BY <1>1, <1>2, <2>2 DEF ProductPageInv, FormFits, FormAgrees, FormStands
  <2> QED BY <1>1, <2>1, <2>2
<1> QED BY <1>1, <1>3, <1>4 DEF ProductPageInv, SavesWhatWasTyped

LEMMA StatusesStep ==
  ASSUME ProductPageInv, SetStatuses
  PROVE  ProductPageInv'
<1>1. PICK ids \in SUBSET PageWares, status \in {"active", "draft"} :
        LET touched == {p \in ids : wareRows[p].status # status}
            notes == IF sheet.of \in touched THEN since \cup {"buttons"} ELSE since
        IN  /\ wareRows' = [p \in PageWares |-> IF p \in ids THEN [wareRows[p] EXCEPT !.status = status]
                                                   ELSE wareRows[p]]
            /\ \A p \in ids : OnServer(p)
            /\ \/ Relist(sheet, notes)
               \/ since' = notes /\ UNCHANGED <<sheet, listed>>
  BY DEF SetStatuses
<1> DEFINE touched == {p \in ids : wareRows[p].status # status}
           notes == IF sheet.of \in touched THEN since \cup {"buttons"} ELSE since
<1>2. UNCHANGED <<inUse, typed, overwritten>> BY DEF SetStatuses
<1>3. wareRows' \in [PageWares -> WareRow] BY <1>1 DEF ProductPageInv, WareRow, Live
<1>4. \A p \in PageWares : /\ wareRows'[p].category = wareRows[p].category
                           /\ wareRows'[p].price = wareRows[p].price
                           /\ (wareRows'[p].status \in Live <=> wareRows[p].status \in Live)
                           /\ p \notin touched => wareRows'[p].status = wareRows[p].status
  BY <1>1 DEF ProductPageInv, WareRow, Live, OnServer
<1>5. notes \in {since, since \cup {"buttons"}} /\ (sheet.of \in touched => "buttons" \in notes)
  OBVIOUS
<1> HIDE DEF touched, notes
<1>6. FormFits(sheet, notes, wareRows', typed')
  <2>1. sheet \in PageForm /\ sheet.of \in PageWares \cup {0}
    BY DEF ProductPageInv, FormFits, PageForm
  <2>2. FormStands(sheet, notes, wareRows')
    BY <1>4, <1>5, <2>1 DEF ProductPageInv, FormFits, FormStands
  <2>3. FormAgrees(sheet, notes, wareRows', typed')
    BY <1>2, <1>4, <1>5, <2>1 DEF ProductPageInv, FormFits, FormAgrees
  <2> QED BY <2>1, <2>2, <2>3 DEF FormFits
<1>7. FormFits(sheet', since', wareRows', typed')
  <2>1. CASE Relist(sheet, notes) BY <1>6, <2>1, RelistFits DEF FormFits
  <2>2. CASE since' = notes /\ UNCHANGED <<sheet, listed>> BY <1>6, <2>2
  <2> QED BY <1>1, <2>1, <2>2 DEF notes, touched
<1> QED BY <1>2, <1>3, <1>7 DEF ProductPageInv, SavesWhatWasTyped

LEMMA TrashStep ==
  ASSUME ProductPageInv, TrashIt
  PROVE  ProductPageInv'
<1>1. /\ sheet.of # 0 /\ OnServer(sheet.of)
      /\ wareRows' = [wareRows EXCEPT ![sheet.of].status = "archived"]
      /\ \/ Relist(Blank, {}) /\ typed' = {}
         \/ since' = since \cup {"buttons"} /\ UNCHANGED <<listed, sheet, typed>>
      /\ overwritten' = overwritten
  BY DEF TrashIt
<1>2. sheet \in PageForm /\ sheet.of \in PageWares BY <1>1 DEF ProductPageInv, FormFits, PageForm
<1>3. wareRows' \in [PageWares -> WareRow] BY <1>1, <1>2 DEF ProductPageInv, WareRow, Live
<1>4. FormFits(sheet', since', wareRows', typed') /\ typed' \subseteq Fields
  <2>1. CASE Relist(Blank, {}) /\ typed' = {}
    <3>1. Blank \in PageForm BY BlankFits DEF FormFits
    <3> QED BY <2>1, <3>1, BlankFits, RelistFits
  <2>2. CASE since' = since \cup {"buttons"} /\ UNCHANGED <<listed, sheet, typed>>
    <3>1. /\ wareRows'[sheet.of].status = "archived"
          /\ wareRows'[sheet.of].category = wareRows[sheet.of].category
          /\ wareRows'[sheet.of].price = wareRows[sheet.of].price
          /\ wareRows[sheet.of].status \in Live
      BY <1>1, <1>2 DEF ProductPageInv, WareRow, OnServer, Live
    <3> QED BY <2>2, <3>1 DEF ProductPageInv, FormFits, FormAgrees, FormStands, Live
  <2> QED BY <1>1, <2>1, <2>2
<1> QED BY <1>1, <1>3, <1>4 DEF ProductPageInv, SavesWhatWasTyped

LEMMA DeleteStep ==
  ASSUME ProductPageInv, DeleteForGood
  PROVE  ProductPageInv'
<1>1. PICK ids \in SUBSET PageWares, done \in SUBSET PageWares :
        /\ done \subseteq ids
        /\ wareRows' = [p \in PageWares |-> IF p \in done THEN Gone ELSE wareRows[p]]
        /\ \/ /\ done = ids
              /\ IF sheet.of \in ids THEN Relist(Blank, {}) /\ typed' = {}
                                     ELSE Relist(sheet, since) /\ UNCHANGED typed
           \/ /\ since' = IF sheet.of \in done THEN since \cup {"halfway"} ELSE since
              /\ UNCHANGED <<listed, sheet, typed>>
  BY DEF DeleteForGood
<1>2. overwritten' = overwritten BY DEF DeleteForGood
<1>3. wareRows' \in [PageWares -> WareRow] BY <1>1 DEF ProductPageInv, WareRow, Gone, Row
<1>4. sheet \in PageForm /\ sheet.of \in PageWares \cup {0} /\ 0 \notin PageWares
  BY DesktopProductsAssumption DEF ProductPageInv, FormFits, PageForm
<1>5. FormFits(sheet', since', wareRows', typed') /\ typed' \subseteq Fields
  <2>1. CASE sheet.of \notin done
    <3>1. sheet.of # 0 => wareRows'[sheet.of] = wareRows[sheet.of] BY <1>1, <1>4, <2>1
    <3>2. FormFits(sheet, since, wareRows', typed) BY <3>1, SameRowFits
    <3>3. CASE UNCHANGED <<sheet, since, typed>> BY <3>2, <3>3 DEF ProductPageInv
    <3>4. CASE Relist(sheet, since) /\ UNCHANGED typed
      BY <1>4, <3>2, <3>4, RelistFits DEF ProductPageInv
    <3> QED BY <1>1, <2>1, <3>3, <3>4
  <2>2. CASE sheet.of \in done
    <3>1. CASE Relist(Blank, {}) /\ typed' = {}
      <4>1. Blank \in PageForm BY BlankFits DEF FormFits
      <4> QED BY <3>1, <4>1, BlankFits, RelistFits
    <3>2. CASE since' = since \cup {"halfway"} /\ UNCHANGED <<listed, sheet, typed>>
      <4>1. wareRows'[sheet.of].status = "gone" BY <1>1, <2>2 DEF Gone, Row
      <4> QED BY <1>4, <3>2, <4>1 DEF FormFits, FormAgrees, FormStands, Live, ProductPageInv
    <3> QED BY <1>1, <2>2, <3>1, <3>2
  <2> QED BY <2>1, <2>2
<1> QED BY <1>2, <1>3, <1>5 DEF ProductPageInv, SavesWhatWasTyped

LEMMA FormSteps ==
  ASSUME ProductPageInv, RefreshPage \/ OpenWare \/ NewForm \/ TypeIn
  PROVE  ProductPageInv'
<1>0. sheet \in PageForm BY DEF ProductPageInv, FormFits
<1>1. wareRows' = wareRows /\ overwritten' = overwritten
  BY DEF RefreshPage, OpenWare, NewForm, TypeIn
<1>2. FormFits(sheet', since', wareRows', typed') /\ typed' \subseteq Fields
  <2>1. CASE RefreshPage BY <1>0, <1>1, <2>1, RelistFits DEF RefreshPage, ProductPageInv
  <2>2. CASE OpenWare
    <3>1. PICK p \in PageWares : /\ OnServer(p) /\ sheet' = Filled(p, wareRows[p]) /\ typed' = {}
                                 /\ since' = Dropped(wareRows[p].category, sheet'.category)
      BY <2>2 DEF OpenWare
    <3>2. InCombo(wareRows[p].category, listed) \in {wareRows[p].category, "none"} BY DEF InCombo
    <3>3. wareRows[p] \in WareRow BY DEF ProductPageInv
    <3>4. wareRows'[p] = wareRows[p] BY <1>1
    <3> QED
      BY <3>1, <3>2, <3>3, <3>4
         DEF FormFits, FormAgrees, FormStands, Filled, Dropped, PageForm, WareRow, OnServer, Live
  <2>3. CASE NewForm BY <2>3, BlankFits DEF NewForm
  <2>4. CASE TypeIn
    <3>1. PICK f \in Fields : /\ typed' = typed \cup {f} /\ since' = since
                              /\ \E value \in CASE f = "status" -> {"active", "draft"}
                                   [] f = "category" -> {"none"} \cup (IF listed THEN {"c"} ELSE {})
                                   [] f = "price" -> {1, 2} : sheet' = [sheet EXCEPT ![f] = value]
      BY <2>4 DEF TypeIn
    <3>2. sheet' \in PageForm /\ sheet'.of = sheet.of /\ typed' \subseteq Fields /\ typed \subseteq typed'
          /\ (sheet'.status = sheet.status \/ "status" \in typed')
          /\ (sheet'.category = sheet.category \/ "category" \in typed')
          /\ (sheet'.price = sheet.price \/ "price" \in typed')
      <4>1. CASE f = "status"
        <5>1. PICK value \in {"active", "draft"} : sheet' = [sheet EXCEPT !.status = value]
          BY <3>1, <4>1
        <5> QED BY <1>0, <3>1, <4>1, <5>1 DEF PageForm, Live, Fields, ProductPageInv
      <4>2. CASE f = "category"
        <5>1. PICK value \in {"none", "c"} : sheet' = [sheet EXCEPT !.category = value]
          BY <3>1, <4>2
        <5> QED BY <1>0, <3>1, <4>2, <5>1 DEF PageForm, Fields, ProductPageInv
      <4>3. CASE f = "price"
        <5>1. PICK value \in {1, 2} : sheet' = [sheet EXCEPT !.price = value] BY <3>1, <4>3
        <5> QED BY <1>0, <3>1, <4>3, <5>1 DEF PageForm, Fields, ProductPageInv
      <4> QED BY <3>1, <4>1, <4>2, <4>3 DEF Fields
    <3> QED BY <1>1, <3>1, <3>2 DEF ProductPageInv, FormFits, FormAgrees, FormStands
  <2> QED BY <2>1, <2>2, <2>3, <2>4
<1> QED BY <1>1, <1>2 DEF ProductPageInv, SavesWhatWasTyped

LEMMA OthersSteps ==
  ASSUME ProductPageInv, OthersEdit \/ OthersArchive \/ UNCHANGED productPageVars
  PROVE  ProductPageInv'
<1>0. sheet \in PageForm BY DEF ProductPageInv, FormFits
<1>1. CASE OthersEdit
  <2>1. PICK p \in PageWares :
          /\ OnServer(p)
          /\ \/ wareRows' = [wareRows EXCEPT ![p].price = 3]
             \/ wareRows' = [wareRows EXCEPT ![p].status = "archived"]
             \/ wareRows' = [wareRows EXCEPT ![p] = Gone]
             \/ \E c \in {"c", "none"} : wareRows' = [wareRows EXCEPT ![p].category = c]
             \/ wareRows' = [wareRows EXCEPT ![p].besides = "more"]
          /\ since' = IF sheet.of = p THEN since \cup {"others"} ELSE since
    BY <1>1 DEF OthersEdit
  <2>2. UNCHANGED <<sheet, typed, overwritten>> BY <1>1 DEF OthersEdit
  <2>3. wareRows[p] \in WareRow /\ wareRows \in [PageWares -> WareRow] BY DEF ProductPageInv
  <2>4. /\ [wareRows[p] EXCEPT !.price = 3] \in WareRow /\ Gone \in WareRow
        /\ [wareRows[p] EXCEPT !.status = "archived"] \in WareRow
        /\ [wareRows[p] EXCEPT !.besides = "more"] \in WareRow
        /\ \A c \in {"c", "none"} : [wareRows[p] EXCEPT !.category = c] \in WareRow
    BY <2>3 DEF WareRow, Gone, Row, Live
  <2>5. \E r \in WareRow : wareRows' = [wareRows EXCEPT ![p] = r] BY <2>1, <2>3, <2>4
  <2>6. wareRows' \in [PageWares -> WareRow] /\ \A q \in PageWares \ {p} : wareRows'[q] = wareRows[q]
    BY <2>3, <2>5
  <2>7. FormFits(sheet, since', wareRows', typed)
    <3>1. CASE sheet.of = p BY <1>0, <2>1, <3>1 DEF FormFits, FormAgrees, FormStands
    <3>2. CASE sheet.of # p
      <4>1. sheet.of # 0 => wareRows'[sheet.of] = wareRows[sheet.of]
        BY <1>0, <2>6, <3>2 DEF PageForm
      <4> QED BY <2>1, <3>2, <4>1, SameRowFits
    <3> QED BY <3>1, <3>2
  <2> QED BY <2>2, <2>6, <2>7 DEF ProductPageInv, SavesWhatWasTyped
<1>2. CASE OthersArchive BY <1>2 DEF OthersArchive, ProductPageInv, SavesWhatWasTyped
<1>3. CASE UNCHANGED productPageVars BY <1>3 DEF productPageVars, ProductPageInv, SavesWhatWasTyped
<1> QED BY <1>1, <1>2, <1>3

(* Every step of the page and of the others keeps it. *)
LEMMA ProductPageStep == ProductPageInv /\ [DesktopProductsNext]_productPageVars => ProductPageInv'
  BY SaveStep, CreateStep, StatusesStep, TrashStep, DeleteStep, FormSteps, OthersSteps
     DEF DesktopProductsNext

(* Of the fields of its form a save of the product page changes what the user changed, but for *)
(* what others changed, a status set by the page's buttons and a category the lists lost; and *)
(* the form is of a product there is (save_product, permanently_delete_products). *)
THEOREM DesktopProductsTrue == DesktopProductsSpec => [](DesktopProductsTypeOK /\ DesktopProductsSound)
<1>1. DesktopProductsInit => ProductPageInv BY ProductPageStart
<1>2. ProductPageInv /\ [DesktopProductsNext]_productPageVars => ProductPageInv' BY ProductPageStep
<1>3. ProductPageInv => DesktopProductsTypeOK /\ DesktopProductsSound BY ProductPageTrue
<1> QED BY <1>1, <1>2, <1>3, PTL DEF DesktopProductsSpec

--------------------
\* DesktopAdmin: users are changed as was asked, and somebody may administrate.

OfficeUsers == Operators \cup {"new"}
AnyAccount == [posts : SUBSET Posts, standing : {"active", "paused", "absent"}]
Hired(staff) == staff["new"].standing # "absent"

\* What is ticked differs from a user as it was read only by hand, but for the marks.
TicksFit(wish, was, hand, ticks) ==
  /\ wish \in AnyAccount /\ was \in AnyAccount /\ wish.standing # "absent"
  /\ ticks = {} => \A post \in Posts \ hand : post \in wish.posts <=> post \in was.posts
  /\ "cleared" \notin ticks => wish.standing = was.standing \/ "standing" \in hand

OfficeRows ==
  /\ accounts \in [OfficeUsers -> AnyAccount] /\ known \in [OfficeUsers -> AnyAccount]
  /\ usersReading.step = "read" => usersReading.users \in [OfficeUsers -> AnyAccount]
  /\ picked.who \in OfficeUsers \cup {"nobody"}

\* The new user is nowhere before it is at the server.
NewIsHired ==
  /\ Hired(known) => Hired(accounts)
  /\ usersReading.step = "read" /\ Hired(usersReading.users) => Hired(accounts)
  /\ picked.who = "new" => Hired(accounts)
  /\ order.step = "sent" /\ order.who = "new" => Hired(accounts)

FormFitsPick ==
  /\ TicksFit(ticked, picked.was, byHand, marks)
  /\ picked.who = "nobody" =>
       /\ picked = NoPick
       /\ \A post \in Posts \ byHand : post \notin ticked.posts
       /\ ticked.standing = "active" \/ "standing" \in byHand

OrderFits == order.step = "sent" =>
  order.who \in OfficeUsers /\ TicksFit(order.asked, order.was, order.hand, order.marks)

HiringFits == hiring.step = "sent" =>
  /\ hiring.asked \in AnyAccount /\ hiring.asked.standing # "absent" /\ ~Hired(accounts)
  /\ hiring.who = "nobody" => hiring.unasked = {}

OfficeInv == /\ OfficeRows /\ NewIsHired /\ FormFitsPick /\ OrderFits /\ HiringFits
             /\ ChangedAsAsked /\ HiredAsAsked /\ SomebodyIsLeft

LEMMA OfficeTrue == OfficeInv => DesktopAdminTypeOK /\ DesktopAdminSound
  BY DEF OfficeInv, OfficeRows, FormFitsPick, TicksFit, AnyAccount, DesktopAdminTypeOK,
         DesktopAdminSound

LEMMA OfficeStart == DesktopAdminInit => OfficeInv
<1> SUFFICES ASSUME DesktopAdminInit PROVE OfficeInv OBVIOUS
<1>1. accounts \in [OfficeUsers -> AnyAccount] /\ ~Hired(accounts) /\ Chief \in OfficeUsers
      /\ accounts[Chief] = Account(Posts, "active")
  BY DesktopAdminAssumption DEF DesktopAdminInit, OfficeUsers, AnyAccount, Account, Hired, Posts
<1>2. OfficeRows /\ NewIsHired
  BY <1>1 DEF DesktopAdminInit, OfficeRows, NewIsHired, NoUsers, NothingSent, NoPick, OfficeUsers
<1>3. FormFitsPick
  BY DEF DesktopAdminInit, FormFitsPick, TicksFit, AnyAccount, Account, NoPick, Posts
<1>4. OrderFits /\ HiringFits BY DEF DesktopAdminInit, OrderFits, HiringFits, NothingSent
<1>5. SomebodyIsLeft
  <2>1. Chief \in Chiefs(accounts) BY <1>1 DEF Chiefs, Account, Posts
  <2> QED BY <2>1 DEF SomebodyIsLeft
<1>6. ChangedAsAsked /\ HiredAsAsked BY DEF DesktopAdminInit, ChangedAsAsked, HiredAsAsked
<1> QED BY <1>2, <1>3, <1>4, <1>5, <1>6 DEF OfficeInv

--------------------
(* Steps of the page that neither change users at the server nor say what was asked. *)
LEMMA ReadingSteps ==
  ASSUME OfficeInv, ClickRefreshAdmin \/ AnswerUsers \/ UsersFail \/ OrderAnswered
  PROVE  OfficeInv'
<1>1. UNCHANGED <<accounts, known, picked, ticked, byHand, marks, hiring, surprises>>
  BY DEF ClickRefreshAdmin, AnswerUsers, UsersFail, OrderAnswered
<1>2. order' = order \/ order'.step # "sent"
  BY DEF ClickRefreshAdmin, AnswerUsers, UsersFail, OrderAnswered, NothingSent
<1>3. \/ usersReading' = usersReading \/ usersReading'.step # "read"
      \/ usersReading'.step = "read" /\ usersReading'.users = accounts
  BY DEF ClickRefreshAdmin, AnswerUsers, UsersFail, OrderAnswered, RereadUsers, NoUsers
<1>4. OfficeRows' BY <1>1, <1>3 DEF OfficeInv, OfficeRows
<1>5. NewIsHired' BY <1>1, <1>2, <1>3 DEF OfficeInv, NewIsHired, Hired
<1>6. FormFitsPick' /\ OrderFits' /\ HiringFits'
  BY <1>1, <1>2 DEF OfficeInv, FormFitsPick, OrderFits, HiringFits, Hired
<1>7. ChangedAsAsked' /\ HiredAsAsked' /\ SomebodyIsLeft'
  BY <1>1 DEF OfficeInv, ChangedAsAsked, HiredAsAsked, SomebodyIsLeft
<1> QED BY <1>4, <1>5, <1>6, <1>7 DEF OfficeInv

LEMMA PickSteps ==
  ASSUME OfficeInv, ShowUsers \/ PickUser \/ TickPost \/ ChooseStanding
  PROVE  OfficeInv'
<1>1. UNCHANGED <<accounts, order, hiring, surprises>>
  BY DEF ShowUsers, PickUser, TickPost, ChooseStanding
<1>2. OrderFits' /\ HiringFits' /\ ChangedAsAsked' /\ HiredAsAsked' /\ SomebodyIsLeft'
  BY <1>1 DEF OfficeInv, OrderFits, HiringFits, ChangedAsAsked, HiredAsAsked, SomebodyIsLeft, Hired
<1>3. ticked \in AnyAccount /\ picked.was \in AnyAccount /\ ticked.standing # "absent"
  BY DEF OfficeInv, FormFitsPick, TicksFit
<1>4. OfficeRows' /\ NewIsHired' /\ FormFitsPick'
  <2>1. CASE ShowUsers
    <3>1. /\ usersReading.step = "read" /\ known' = usersReading.users /\ usersReading'.step = "idle"
          /\ ticked' = [ticked EXCEPT !.posts = {}] /\ byHand' = byHand \ Posts
          /\ marks' = marks \cup {"refreshed"} /\ picked' = picked
      BY <2>1 DEF ShowUsers, NoUsers
    <3>2. OfficeRows' /\ NewIsHired' BY <1>1, <3>1 DEF OfficeInv, OfficeRows, NewIsHired, Hired
    <3>3. ticked' \in AnyAccount /\ ticked'.posts = {} /\ ticked'.standing = ticked.standing
      BY <1>3, <3>1 DEF AnyAccount
    <3>4. "standing" \in byHand => "standing" \in byHand' BY <3>1 DEF Posts
    <3> QED BY <3>1, <3>2, <3>3, <3>4 DEF OfficeInv, FormFitsPick, TicksFit
  <2>2. CASE PickUser
    <3>1. PICK u \in DOMAIN known :
            /\ known[u].standing # "absent" /\ picked' = [who |-> u, was |-> known[u]]
            /\ ticked' = known[u] /\ byHand' = {} /\ marks' = {}
      BY <2>2 DEF PickUser
    <3>2. known' = known /\ usersReading' = usersReading BY <2>2 DEF PickUser
    <3>3. u \in OfficeUsers /\ known[u] \in AnyAccount BY DEF OfficeInv, OfficeRows
    <3>4. u # "nobody" BY <3>3, DesktopAdminAssumption DEF OfficeUsers
    <3>5. OfficeRows' /\ NewIsHired'
      BY <1>1, <3>1, <3>2, <3>3 DEF OfficeInv, OfficeRows, NewIsHired, Hired
    <3>6. FormFitsPick' BY <3>1, <3>3, <3>4 DEF FormFitsPick, TicksFit
    <3> QED BY <3>5, <3>6
  <2>3. CASE TickPost
    <3>1. PICK post \in Posts :
            /\ byHand' = byHand \cup {post}
            /\ ticked' = [ticked EXCEPT !.posts = IF post \in @ THEN @ \ {post} ELSE @ \cup {post}]
      BY <2>3 DEF TickPost
    <3>2. UNCHANGED <<known, usersReading, picked, marks>> BY <2>3 DEF TickPost
    <3>3. OfficeRows' /\ NewIsHired' BY <1>1, <3>2 DEF OfficeInv, OfficeRows, NewIsHired, Hired
    <3>4. /\ ticked' \in AnyAccount /\ ticked'.standing = ticked.standing
          /\ \A p \in Posts \ byHand' : p \in ticked'.posts <=> p \in ticked.posts
      BY <1>3, <3>1 DEF AnyAccount
    <3>5. FormFitsPick' BY <1>3, <3>1, <3>2, <3>4 DEF OfficeInv, FormFitsPick, TicksFit
    <3> QED BY <3>3, <3>5
  <2>4. CASE ChooseStanding
    <3>1. PICK standing \in {"active", "paused"} :
            ticked' = [ticked EXCEPT !.standing = standing] /\ byHand' = byHand \cup {"standing"}
      BY <2>4 DEF ChooseStanding
    <3>2. UNCHANGED <<known, usersReading, picked, marks>> BY <2>4 DEF ChooseStanding
    <3>3. OfficeRows' /\ NewIsHired' BY <1>1, <3>2 DEF OfficeInv, OfficeRows, NewIsHired, Hired
    <3>4. ticked' \in AnyAccount /\ ticked'.standing = standing /\ ticked'.posts = ticked.posts
      BY <1>3, <3>1 DEF AnyAccount
    <3>5. FormFitsPick' BY <1>3, <3>1, <3>2, <3>4 DEF OfficeInv, FormFitsPick, TicksFit
    <3> QED BY <3>3, <3>5
  <2> QED BY <2>1, <2>2, <2>3, <2>4
<1> QED BY <1>2, <1>4 DEF OfficeInv

(* The page asks for a change, or for a new user. *)
LEMMA AskingSteps ==
  ASSUME OfficeInv, Apply \/ Hire
  PROVE  OfficeInv'
<1>1. UNCHANGED <<accounts, known, usersReading, picked, ticked, byHand, marks, surprises>>
  BY DEF Apply, Hire
<1>2. OfficeRows' /\ FormFitsPick' /\ ChangedAsAsked' /\ HiredAsAsked' /\ SomebodyIsLeft'
  BY <1>1 DEF OfficeInv, OfficeRows, FormFitsPick, ChangedAsAsked, HiredAsAsked, SomebodyIsLeft
<1>3. CASE Apply
  <2>1. /\ picked # NoPick /\ hiring' = hiring
        /\ order' = [step |-> "sent", who |-> picked.who, was |-> picked.was, asked |-> ticked,
                     hand |-> byHand, marks |-> marks]
    BY <1>3 DEF Apply
  <2>2. picked.who \in OfficeUsers BY <2>1 DEF OfficeInv, OfficeRows, FormFitsPick
  <2>3. OrderFits' /\ HiringFits'
    BY <1>1, <2>1, <2>2 DEF OfficeInv, OrderFits, FormFitsPick, HiringFits, Hired
  <2>4. NewIsHired' BY <1>1, <2>1 DEF OfficeInv, NewIsHired, Hired
  <2> QED BY <1>2, <2>3, <2>4 DEF OfficeInv
<1>4. CASE Hire
  <2>1. /\ accounts["new"].standing = "absent" /\ order' = order
        /\ hiring' = [step |-> "sent", asked |-> ticked,
                      unasked |-> Unasked(Account({}, "active"), ticked, byHand), who |-> picked.who]
    BY <1>4 DEF Hire
  <2>2. picked.who = "nobody" => Unasked(Account({}, "active"), ticked, byHand) = {}
    BY DEF OfficeInv, FormFitsPick, Unasked, Account
  <2>3. HiringFits' BY <1>1, <2>1, <2>2 DEF OfficeInv, FormFitsPick, TicksFit, HiringFits, Hired
  <2>4. NewIsHired' /\ OrderFits' BY <1>1, <2>1 DEF OfficeInv, NewIsHired, Hired, OrderFits
  <2> QED BY <1>2, <2>3, <2>4 DEF OfficeInv
<1> QED BY <1>3, <1>4

(* The server changes a user: of the administrators one is left, and what nobody asked for *)
(* has its reason. *)
LEMMA ServeOrderStep ==
  ASSUME OfficeInv, ServeOrder
  PROVE  OfficeInv'
<1> DEFINE u == order.who
           after == [accounts EXCEPT ![u] = order.asked]
<1>1. /\ u \in OfficeUsers /\ TicksFit(order.asked, order.was, order.hand, order.marks)
      /\ accounts \in [OfficeUsers -> AnyAccount]
  BY DEF OfficeInv, OrderFits, ServeOrder, OfficeRows
<1>2. UNCHANGED <<known, usersReading, picked, ticked, byHand, marks, hiring>> BY DEF ServeOrder
<1>3. CASE order' = NothingSent /\ UNCHANGED <<accounts, surprises>>
  <2>1. OfficeRows' /\ NewIsHired' /\ FormFitsPick' /\ OrderFits' /\ HiringFits'
    BY <1>2, <1>3 DEF OfficeInv, OfficeRows, NewIsHired, FormFitsPick, OrderFits, HiringFits, Hired,
                      NothingSent
  <2>2. ChangedAsAsked' /\ HiredAsAsked' /\ SomebodyIsLeft'
    BY <1>3 DEF OfficeInv, ChangedAsAsked, HiredAsAsked, SomebodyIsLeft
  <2> QED BY <2>1, <2>2 DEF OfficeInv
<1>4. CASE ~(order' = NothingSent /\ UNCHANGED <<accounts, surprises>>)
  <2>1. /\ order.step = "sent" /\ accounts' = after /\ order' = [order EXCEPT !.step = "done"]
        /\ surprises' = surprises \cup
             {[what |-> IF x \in Posts THEN "post" ELSE x, marks |-> order.marks,
               changed |-> order.was # accounts[u]] : x \in Unasked(accounts[u], order.asked, order.hand)}
        /\ ~(/\ "Administrator" \in accounts[u].posts /\ u \notin Chiefs(after)
             /\ Cardinality(Chiefs(accounts)) <= 1)
    BY <1>4 DEF ServeOrder
  <2>2. after \in [OfficeUsers -> AnyAccount] /\ after[u] = order.asked
        /\ \A w \in OfficeUsers \ {u} : after[w] = accounts[w]
    BY <1>1 DEF TicksFit
  <2>3. (Hired(accounts) => Hired(after)) /\ (u # "new" => (Hired(after) <=> Hired(accounts)))
        /\ (u = "new" => Hired(accounts)) /\ u = order.who
    BY <1>1, <2>1, <2>2 DEF TicksFit, Hired, OfficeUsers, OfficeInv, NewIsHired
  <2>4. order'.step # "sent" BY <2>1
  <2>5. SomebodyIsLeft'
    <3>1. PICK w : w \in Chiefs(accounts) BY DEF OfficeInv, SomebodyIsLeft
    <3>2. CASE \E v \in Chiefs(accounts) : v # u
      <4>1. PICK v \in Chiefs(accounts) : v # u BY <3>2
      <4>2. v \in Chiefs(after) BY <1>1, <2>2, <4>1 DEF Chiefs
      <4> QED BY <2>1, <4>2 DEF SomebodyIsLeft
    <3>3. CASE \A v \in Chiefs(accounts) : v = u
      <4>1. Chiefs(accounts) = {u} /\ "Administrator" \in accounts[u].posts BY <3>1, <3>3 DEF Chiefs
      <4>2. Cardinality(Chiefs(accounts)) <= 1
        <5>1. Cardinality({u}) = 1 BY FS_Singleton
        <5> QED BY <4>1, <5>1
      <4>3. u \in Chiefs(after) BY <2>1, <4>1, <4>2
      <4> QED BY <2>1, <4>3 DEF SomebodyIsLeft
    <3> QED BY <3>2, <3>3
  <2>6. ASSUME NEW s \in surprises' \ surprises
        PROVE  \/ s.what = "post" /\ (s.changed \/ s.marks # {})
               \/ s.what = "standing" /\ (s.changed \/ "cleared" \in s.marks)
    <3>1. PICK x \in Unasked(accounts[u], order.asked, order.hand) :
            s = [what |-> IF x \in Posts THEN "post" ELSE x, marks |-> order.marks,
                 changed |-> order.was # accounts[u]]
      BY <2>1
    <3>2. CASE order.was # accounts[u] BY <3>1, <3>2 DEF Unasked
    <3>3. CASE order.was = accounts[u]
      <4>1. CASE x \in Posts
        <5>1. x \in Posts \ order.hand /\ ((x \in accounts[u].posts) # (x \in order.asked.posts))
          BY <4>1, <3>1 DEF Unasked, Posts
        <5>2. order.marks # {} BY <1>1, <3>3, <5>1 DEF TicksFit
        <5> QED BY <3>1, <4>1, <5>2
      <4>2. CASE x \notin Posts
        <5>1. x = "standing" /\ "standing" \notin order.hand /\ accounts[u].standing # order.asked.standing
          BY <4>2, <3>1 DEF Unasked
        <5>2. "cleared" \in order.marks BY <1>1, <3>3, <5>1 DEF TicksFit
        <5> QED BY <3>1, <4>2, <5>1, <5>2
      <4> QED BY <4>1, <4>2
    <3> QED BY <3>2, <3>3
  <2>7. ChangedAsAsked' /\ HiredAsAsked' BY <2>6 DEF OfficeInv, ChangedAsAsked, HiredAsAsked
  <2> HIDE DEF u, after
  <2>8. OfficeRows' /\ NewIsHired'
    BY <1>2, <2>1, <2>2, <2>3, <2>4 DEF OfficeInv, OfficeRows, NewIsHired
  <2>9. FormFitsPick' /\ OrderFits' /\ HiringFits'
    BY <1>2, <2>1, <2>3, <2>4 DEF OfficeInv, FormFitsPick, OrderFits, HiringFits
  <2> QED BY <2>5, <2>7, <2>8, <2>9 DEF OfficeInv
<1> QED BY <1>3, <1>4

(* A new user is made, answered for, or a call fails. *)
LEMMA HiringSteps ==
  ASSUME OfficeInv, ServeHire \/ HireAnswered \/ CallFails
  PROVE  OfficeInv'
<1>1. CASE ServeHire
  <2>1. /\ hiring.step = "sent" /\ hiring'.step # "sent"
        /\ accounts' = [accounts EXCEPT !["new"] = hiring.asked]
        /\ surprises' = surprises \cup {[what |-> "hired", like |-> hiring.who] : x \in hiring.unasked}
        /\ UNCHANGED <<known, usersReading, picked, ticked, byHand, marks, order>>
    BY <1>1 DEF ServeHire
  <2>2. /\ hiring.asked \in AnyAccount /\ hiring.asked.standing # "absent" /\ ~Hired(accounts)
        /\ hiring.who = "nobody" => hiring.unasked = {}
    BY <2>1 DEF OfficeInv, HiringFits
  <2>3. accounts' \in [OfficeUsers -> AnyAccount] /\ Hired(accounts')
        /\ \A w \in OfficeUsers \ {"new"} : accounts'[w] = accounts[w]
    BY <2>1, <2>2 DEF OfficeInv, OfficeRows, Hired, OfficeUsers
  <2>4. SomebodyIsLeft'
    <3>1. PICK w : w \in Chiefs(accounts) BY DEF OfficeInv, SomebodyIsLeft
    <3>2. w \in OfficeUsers \ {"new"} BY <2>2, <3>1 DEF Chiefs, Hired, OfficeInv, OfficeRows
    <3>3. w \in Chiefs(accounts') BY <2>3, <3>1, <3>2 DEF Chiefs
    <3> QED BY <3>3 DEF SomebodyIsLeft
  <2>5. \A s \in surprises' \ surprises : s.what = "hired" /\ s.like # "nobody" BY <2>1, <2>2
  <2>6. ChangedAsAsked' /\ HiredAsAsked' BY <2>5 DEF OfficeInv, ChangedAsAsked, HiredAsAsked
  <2>7. OfficeRows' /\ NewIsHired' BY <2>1, <2>3 DEF OfficeInv, OfficeRows, NewIsHired
  <2>8. FormFitsPick' /\ OrderFits' /\ HiringFits'
    BY <2>1 DEF OfficeInv, FormFitsPick, OrderFits, HiringFits
  <2> QED BY <2>4, <2>6, <2>7, <2>8 DEF OfficeInv
<1>2. CASE HireAnswered
  <2>1. /\ hiring'.step # "sent" /\ ticked' = Account({}, "active") /\ byHand' = {}
        /\ marks' = marks \cup {"cleared"}
        /\ UNCHANGED <<accounts, known, picked, order, surprises>>
        /\ usersReading' = usersReading \/ usersReading'.step # "read"
    BY <1>2 DEF HireAnswered, NothingSent, RereadUsers, NoUsers
  <2>2. OfficeRows' /\ NewIsHired' /\ OrderFits' /\ HiringFits'
    BY <2>1 DEF OfficeInv, OfficeRows, NewIsHired, OrderFits, HiringFits
  <2>3. FormFitsPick' BY <2>1 DEF OfficeInv, FormFitsPick, TicksFit, Account, AnyAccount
  <2>4. ChangedAsAsked' /\ HiredAsAsked' /\ SomebodyIsLeft'
    BY <2>1 DEF OfficeInv, ChangedAsAsked, HiredAsAsked, SomebodyIsLeft
  <2> QED BY <2>2, <2>3, <2>4 DEF OfficeInv
<1>3. CASE CallFails
  <2>1. /\ UNCHANGED <<accounts, known, usersReading, picked, ticked, byHand, marks, surprises>>
        /\ order' = order \/ order'.step # "sent"
        /\ hiring' = hiring \/ hiring'.step # "sent"
    BY <1>3 DEF CallFails, NothingSent
  <2>2. OfficeRows' /\ NewIsHired' /\ OrderFits' /\ HiringFits' /\ FormFitsPick'
    BY <2>1 DEF OfficeInv, OfficeRows, NewIsHired, OrderFits, HiringFits, FormFitsPick
  <2>3. ChangedAsAsked' /\ HiredAsAsked' /\ SomebodyIsLeft'
    BY <2>1 DEF OfficeInv, ChangedAsAsked, HiredAsAsked, SomebodyIsLeft
  <2> QED BY <2>2, <2>3 DEF OfficeInv
<1> QED BY <1>1, <1>2, <1>3

LEMMA OtherOfficeSteps ==
  ASSUME OfficeInv, OthersChangeUser \/ UNCHANGED officeVars
  PROVE  OfficeInv'
<1>1. CASE OthersChangeUser
  <2>1. PICK u \in Operators :
          \/ \E posts \in SUBSET Posts : accounts' = [accounts EXCEPT ![u].posts = posts]
          \/ \E standing \in {"active", "paused"} : accounts' = [accounts EXCEPT ![u].standing = standing]
    BY <1>1 DEF OthersChangeUser
  <2>2. /\ UNCHANGED <<known, usersReading, picked, ticked, byHand, marks, order, hiring, surprises>>
        /\ Chiefs(accounts') # {}
    BY <1>1 DEF OthersChangeUser
  <2>3. accounts \in [OfficeUsers -> AnyAccount] /\ u \in OfficeUsers /\ u # "new"
    BY DesktopAdminAssumption DEF OfficeInv, OfficeRows, OfficeUsers
  <2>4. accounts' \in [OfficeUsers -> AnyAccount] /\ accounts'["new"] = accounts["new"]
    <3>1. CASE \E posts \in SUBSET Posts : accounts' = [accounts EXCEPT ![u].posts = posts]
      BY <2>3, <3>1 DEF AnyAccount, OfficeUsers
    <3>2. CASE \E standing \in {"active", "paused"} :
                 accounts' = [accounts EXCEPT ![u].standing = standing]
      BY <2>3, <3>2 DEF AnyAccount, OfficeUsers
    <3> QED BY <2>1, <3>1, <3>2
  <2>5. Hired(accounts') <=> Hired(accounts) BY <2>4 DEF Hired
  <2>6. OfficeRows' /\ NewIsHired' /\ OrderFits' /\ HiringFits' /\ FormFitsPick'
    BY <2>2, <2>4, <2>5 DEF OfficeInv, OfficeRows, NewIsHired, OrderFits, HiringFits, FormFitsPick
  <2>7. ChangedAsAsked' /\ HiredAsAsked' /\ SomebodyIsLeft'
    BY <2>2 DEF OfficeInv, ChangedAsAsked, HiredAsAsked, SomebodyIsLeft
  <2> QED BY <2>6, <2>7 DEF OfficeInv
<1>2. CASE UNCHANGED officeVars
  BY <1>2 DEF officeVars, OfficeInv, OfficeRows, NewIsHired, OrderFits, HiringFits, FormFitsPick,
              ChangedAsAsked, HiredAsAsked, SomebodyIsLeft
<1> QED BY <1>1, <1>2

(* Every step of the page, the server and the others keeps it. *)
LEMMA OfficeStep == OfficeInv /\ [DesktopAdminNext]_officeVars => OfficeInv'
  BY ReadingSteps, PickSteps, AskingSteps, ServeOrderStep, HiringSteps, OtherOfficeSteps
     DEF DesktopAdminNext

(* A user is changed as the administrator asked, a new one has only the roles ticked for it, *)
(* but for the named exceptions, and somebody is left who may administrate *)
(* (apply_admin_user_status, create_admin_user, update_user). *)
THEOREM DesktopAdminTrue == DesktopAdminSpec => [](DesktopAdminTypeOK /\ DesktopAdminSound)
<1>1. DesktopAdminInit => OfficeInv BY OfficeStart
<1>2. OfficeInv /\ [DesktopAdminNext]_officeVars => OfficeInv' BY OfficeStep
<1>3. OfficeInv => DesktopAdminTypeOK /\ DesktopAdminSound BY OfficeTrue
<1> QED BY <1>1, <1>2, <1>3, PTL DEF DesktopAdminSpec

--------------------
\* DesktopVendors: what is shown and done is of the vendor that was meant.

Waits(v) == \E n \in 1..Len(spaces) : spaces[n] = v

(* One more at the end of a list, and one less in it. *)
LEMMA WaitsAtEnd ==
  ASSUME NEW S, NEW s \in Seq(S), NEW v
  PROVE  /\ Append(s, v) \in Seq(S \cup {v})
         /\ \E n \in 1..Len(Append(s, v)) : Append(s, v)[n] = v
<1>1. Len(s) \in Nat /\ s \in [1..Len(s) -> S] BY LenProperties
<1>2. s \in [1..Len(s) -> S \cup {v}] BY <1>1
<1>3. s \in Seq(S \cup {v}) BY <1>1, <1>2, SeqDef
<1>4. /\ Append(s, v) \in Seq(S \cup {v}) /\ Len(Append(s, v)) = Len(s) + 1
      /\ Append(s, v)[Len(s) + 1] = v
  BY <1>3, AppendProperties
<1> QED BY <1>1, <1>4

LEMMA OneTakenOut ==
  ASSUME NEW S, NEW s \in Seq(S), NEW n \in 1..Len(s)
  PROVE  /\ RemoveAt(s, n) \in Seq(S)
         /\ \A m \in 1..Len(s) : m # n => \E k \in 1..Len(RemoveAt(s, n)) : RemoveAt(s, n)[k] = s[m]
<1> DEFINE a == SubSeq(s, 1, n - 1)
           b == SubSeq(s, n + 1, Len(s))
<1>1. Len(s) \in Nat /\ \A i \in 1..Len(s) : s[i] \in S BY LenProperties, ElementOfSeq
<1>2. /\ a \in Seq(S) /\ Len(a) = n - 1 /\ \A i \in 1..n - 1 : a[i] = s[i]
  <2>1. \A i \in 1..n - 1 : s[i] \in S BY <1>1
  <2>2. /\ SubSeq(s, 1, n - 1) \in Seq(S)
        /\ Len(SubSeq(s, 1, n - 1)) = IF 1 <= n - 1 THEN (n - 1) - 1 + 1 ELSE 0
        /\ \A i \in 1 .. (n - 1) - 1 + 1 : SubSeq(s, 1, n - 1)[i] = s[1 + i - 1]
    BY <1>1, <2>1, SubSeqProperties
  <2> QED BY <1>1, <2>2
<1>3. /\ b \in Seq(S) /\ Len(b) = Len(s) - n /\ \A i \in 1..Len(s) - n : b[i] = s[n + i]
  <2>1. \A i \in n + 1..Len(s) : s[i] \in S BY <1>1
  <2>2. /\ SubSeq(s, n + 1, Len(s)) \in Seq(S)
        /\ Len(SubSeq(s, n + 1, Len(s))) = IF n + 1 <= Len(s) THEN Len(s) - (n + 1) + 1 ELSE 0
        /\ \A i \in 1 .. Len(s) - (n + 1) + 1 : SubSeq(s, n + 1, Len(s))[i] = s[(n + 1) + i - 1]
    BY <1>1, <2>1, SubSeqProperties
  <2> QED BY <1>1, <2>2
<1> HIDE DEF a, b
<1>4. /\ a \o b \in Seq(S) /\ Len(a \o b) = Len(a) + Len(b)
      /\ \A i \in 1 .. Len(a) + Len(b) : (a \o b)[i] = IF i <= Len(a) THEN a[i] ELSE b[i - Len(a)]
  BY <1>2, <1>3, ConcatProperties
<1>5. RemoveAt(s, n) = a \o b BY DEF RemoveAt, a, b
<1>6. ASSUME NEW m \in 1..Len(s), m # n
      PROVE  \E k \in 1..Len(a \o b) : (a \o b)[k] = s[m]
  <2>1. CASE m < n
    <3>1. m \in 1..n - 1 /\ m \in 1..Len(a) + Len(b) BY <1>1, <1>2, <1>3, <2>1
    <3>2. (a \o b)[m] = s[m] BY <1>1, <1>2, <1>4, <3>1
    <3> QED BY <1>4, <3>1, <3>2
  <2>2. CASE m > n
    <3>1. m - 1 \in 1..Len(a) + Len(b) /\ ~(m - 1 <= Len(a)) /\ m - n \in 1..Len(s) - n
          /\ (m - 1) - Len(a) = m - n /\ n + (m - n) = m
      BY <1>1, <1>2, <1>3, <2>2
    <3>2. (a \o b)[m - 1] = s[m] BY <1>3, <1>4, <3>1
    <3> QED BY <1>4, <3>1, <3>2
  <2> QED BY <1>1, <1>6, <2>1, <2>2
<1> QED BY <1>4, <1>5, <1>6

--------------------
ListFits ==
  /\ list.step = "read" => list.rows = Directory(shopNames) \/ unseen # {}
  /\ list.step = "idle" => list = NoReading

VendorPageInv ==
  /\ \E S : spaces \in Seq(S)
  /\ chosenRow # 0 => space = meant \/ Waits(meant) \/ "late" \in slips \/ "failed" \in slips
  /\ chosenRow # 0 => Selected = meant \/ "shifted" \in slips
  /\ ListFits /\ ListIsRead /\ DoneToMeant

LEMMA VendorPageSound == VendorPageInv => DesktopVendorsSound
<1> SUFFICES ASSUME VendorPageInv PROVE DesktopVendorsSound OBVIOUS
<1>1. spaces = <<>> => ~Waits(meant) BY EmptySeq DEF Waits
<1>2. WorkspaceMeant BY <1>1 DEF VendorPageInv, WorkspaceMeant
<1> QED BY <1>2 DEF VendorPageInv, DesktopVendorsSound

LEMMA VendorPageStart == DesktopVendorsInit => VendorPageInv
<1> SUFFICES ASSUME DesktopVendorsInit PROVE VendorPageInv OBVIOUS
<1>1. spaces \in Seq({}) BY EmptySeq DEF DesktopVendorsInit
<1>2. ListFits /\ ListIsRead BY DEF DesktopVendorsInit, ListFits, ListIsRead, NoReading
<1> QED BY <1>1, <1>2 DEF DesktopVendorsInit, VendorPageInv, DoneToMeant

(* Another row is selected, or its workspace asked for again. *)
LEMMA LoadSteps ==
  ASSUME VendorPageInv, SelectRow \/ ApplyFilters
  PROVE  VendorPageInv'
<1>1. PICK v : LoadSpace(v) /\ (chosenRow' # 0 => table[chosenRow'] = v)
  BY DEF SelectRow, ApplyFilters, Selected
<1>2. PICK S : spaces \in Seq(S) BY DEF VendorPageInv
<1>3. spaces' \in Seq(S \cup {v}) /\ Waits(v)' BY <1>1, <1>2, WaitsAtEnd DEF LoadSpace, Waits
<1>4. UNCHANGED <<shopNames, table, space, list, unseen, mistakes>> /\ meant' = v
  BY <1>1 DEF LoadSpace
<1>5. ListFits' /\ ListIsRead' /\ DoneToMeant'
  BY <1>4 DEF VendorPageInv, ListFits, ListIsRead, DoneToMeant
<1>6. Waits(meant)' /\ (chosenRow' # 0 => Selected' = meant')
  BY <1>1, <1>3, <1>4 DEF Waits, Selected
<1>7. \E T : spaces' \in Seq(T) BY <1>3
<1> QED BY <1>5, <1>6, <1>7 DEF VendorPageInv

(* A list is asked for, read, shown, or does not come. *)
LEMMA ListSteps ==
  ASSUME VendorPageInv, ClickRefresh \/ AnswerList \/ ShowList \/ ListFails
  PROVE  VendorPageInv'
<1>1. UNCHANGED <<shopNames, chosenRow, meant, space, spaces, mistakes>>
  BY DEF ClickRefresh, AnswerList, ShowList, ListFails
<1>2. DoneToMeant' BY <1>1 DEF VendorPageInv, DoneToMeant
<1>3. ListFits' /\ ListIsRead'
  <2>1. CASE ClickRefresh BY <2>1 DEF ClickRefresh, Refresh, ListFits, ListIsRead, NoReading
  <2>2. CASE AnswerList BY <2>2 DEF AnswerList, ListFits, ListIsRead, NoReading
  <2>3. CASE ShowList BY <2>3 DEF ShowList, ListFits, ListIsRead, NoReading, VendorPageInv
  <2>4. CASE ListFails BY <2>4 DEF ListFails, ListFits, ListIsRead, NoReading
  <2> QED BY <2>1, <2>2, <2>3, <2>4
<1>4. slips \subseteq slips' /\ (chosenRow # 0 => Selected' = Selected \/ "shifted" \in slips')
  BY DEF ClickRefresh, AnswerList, ShowList, ListFails, Selected
<1> QED BY <1>1, <1>2, <1>3, <1>4 DEF VendorPageInv, Waits

(* A workspace comes or does not. *)
LEMMA SpaceSteps ==
  ASSUME VendorPageInv, ShowSpace \/ SpaceFails
  PROVE  VendorPageInv'
<1>1. UNCHANGED <<shopNames, table, chosenRow, meant, list, unseen, mistakes>>
  BY DEF ShowSpace, SpaceFails
<1>2. PICK S : spaces \in Seq(S) BY DEF VendorPageInv
<1>3. PICK n \in 1..Len(spaces) :
        /\ spaces' = RemoveAt(spaces, n)
        /\ \/ /\ space' = spaces[n]
              /\ slips' = IF spaces[n] # meant /\ Last(spaces) # meant THEN slips \cup {"late"} ELSE slips
           \/ /\ space' = space
              /\ slips' = IF spaces[n] = meant THEN slips \cup {"failed"} ELSE slips
  BY DEF ShowSpace, SpaceFails
<1>4. /\ spaces' \in Seq(S)
      /\ \A m \in 1..Len(spaces) : m # n => \E k \in 1..Len(spaces') : spaces'[k] = spaces[m]
  BY <1>2, <1>3, OneTakenOut
<1>5. Len(spaces) \in Nat BY <1>2, LenProperties
<1>6. slips \subseteq slips' BY <1>3
<1>7. Waits(meant) /\ spaces[n] # meant => Waits(meant)' BY <1>1, <1>4 DEF Waits
<1>8. Last(spaces) = meant /\ spaces[n] # meant => Waits(meant) BY <1>3, <1>5 DEF Waits, Last
<1>9. chosenRow' # 0 => space' = meant' \/ Waits(meant)' \/ "late" \in slips' \/ "failed" \in slips'
  BY <1>1, <1>3, <1>6, <1>7, <1>8 DEF VendorPageInv
<1>10. ListFits' /\ ListIsRead' /\ DoneToMeant'
  BY <1>1 DEF VendorPageInv, ListFits, ListIsRead, DoneToMeant
<1>11. chosenRow' # 0 => Selected' = meant' \/ "shifted" \in slips'
  BY <1>1, <1>6 DEF VendorPageInv, Selected
<1>12. \E T : spaces' \in Seq(T) BY <1>4
<1> QED BY <1>9, <1>10, <1>11, <1>12 DEF VendorPageInv

(* Something is done to a vendor: if it is another than was meant there is a reason. *)
LEMMA DoneKept ==
  ASSUME VendorPageInv, NEW what, NEW v, Done(what, v), chosenRow # 0,
         \/ what \in {"edit", "access"} /\ v = Selected
         \/ what = "password" /\ v = space
  PROVE  DoneToMeant'
<1>1. CASE v = meant BY <1>1 DEF Done, VendorPageInv, DoneToMeant
<1>2. CASE v # meant
  <2> DEFINE m == [what |-> what, slips |-> slips,
                   waiting |-> \E n \in 1..Len(spaces) : spaces[n] = meant]
  <2>1. mistakes' = mistakes \cup {m} BY <1>2 DEF Done
  <2>2. IF m.what = "password" THEN m.waiting \/ m.slips \cap {"late", "failed"} # {}
                               ELSE "shifted" \in m.slips
    <3>1. CASE what \in {"edit", "access"} /\ v = Selected BY <1>2, <3>1 DEF VendorPageInv
    <3>2. CASE what = "password" /\ v = space
      <4>1. Waits(meant) \/ "late" \in slips \/ "failed" \in slips BY <1>2, <3>2 DEF VendorPageInv
      <4> QED BY <3>2, <4>1 DEF Waits
    <3> QED BY <3>1, <3>2
  <2> HIDE DEF m
  <2> QED BY <2>1, <2>2 DEF VendorPageInv, DoneToMeant
<1> QED BY <1>1, <1>2

(* The vendors change, by the page or by others. *)
LEMMA RereadKept ==
  ASSUME VendorPageInv, NEW names, RereadVendors(names), table' = table
  PROVE  ListFits' /\ ListIsRead'
<1>1. CASE ListIdle
  <2>1. list' = [NoReading EXCEPT !.step = "asked"] BY <1>1 DEF RereadVendors, Refresh
  <2> QED BY <2>1 DEF ListFits, ListIsRead, NoReading
<1>2. CASE ~ListIdle
  <2>1. list' = list /\ list # NoReading /\ shopNames' = names
        /\ (\/ Directory(names) = Directory(shopNames) /\ unseen' = unseen
            \/ "skipped" \in unseen')
    BY <1>2 DEF RereadVendors, Refresh, ListIdle
  <2> QED BY <2>1 DEF VendorPageInv, ListFits, ListIsRead
<1> QED BY <1>1, <1>2

LEMMA ChangeSteps ==
  ASSUME VendorPageInv, CreateShop \/ EditShop \/ ChangeAccess \/ ResetPassword \/ OthersChange
  PROVE  VendorPageInv'
<1>1. UNCHANGED <<table, chosenRow, meant, space, spaces, slips>>
  BY DEF CreateShop, EditShop, ChangeAccess, ResetPassword, OthersChange
<1>2. DoneToMeant'
  <2>1. CASE mistakes' = mistakes BY <2>1 DEF VendorPageInv, DoneToMeant
  <2>2. CASE EditShop BY <2>2, DoneKept DEF EditShop
  <2>3. CASE ChangeAccess BY <2>3, DoneKept DEF ChangeAccess
  <2>4. CASE ResetPassword BY <2>4, DoneKept DEF ResetPassword
  <2> QED BY <2>1, <2>2, <2>3, <2>4 DEF CreateShop, OthersChange
<1>3. ListFits' /\ ListIsRead'
  <2>1. CASE \E names : RereadVendors(names) BY <1>1, <2>1, RereadKept
  <2>2. CASE ResetPassword BY <2>2 DEF ResetPassword, VendorPageInv, ListFits, ListIsRead
  <2>3. CASE OthersChange BY <2>3 DEF OthersChange, VendorPageInv, ListFits, ListIsRead
  <2> QED BY <2>1, <2>2, <2>3 DEF CreateShop, EditShop, ChangeAccess
<1> QED BY <1>1, <1>2, <1>3 DEF VendorPageInv, Waits, Selected

(* Every step of the page, the server and the others keeps it. *)
LEMMA VendorPageStep == VendorPageInv /\ [DesktopVendorsNext]_deskVars => VendorPageInv'
<1> SUFFICES ASSUME VendorPageInv, [DesktopVendorsNext]_deskVars PROVE VendorPageInv' OBVIOUS
<1>1. CASE UNCHANGED deskVars
  BY <1>1 DEF deskVars, VendorPageInv, Waits, Selected, ListFits, ListIsRead, DoneToMeant
<1> QED BY <1>1, LoadSteps, ListSteps, SpaceSteps, ChangeSteps DEF DesktopVendorsNext

(* The workspace is the one of the vendor whose row is selected, what is done is done to it, *)
(* and the list is the one that was read, but for the named exceptions *)
(* (load_selected_vendor_workspace, reset_vendor_user_password, refresh_marketplace). *)
THEOREM DesktopVendorsTrue == DesktopVendorsSpec => []DesktopVendorsSound
<1>1. DesktopVendorsInit => VendorPageInv BY VendorPageStart
<1>2. VendorPageInv /\ [DesktopVendorsNext]_deskVars => VendorPageInv' BY VendorPageStep
<1>3. VendorPageInv => DesktopVendorsSound BY VendorPageSound
<1> QED BY <1>1, <1>2, <1>3, PTL DEF DesktopVendorsSpec

--------------------
\* DesktopSync: the buttons come back.

\* One timer polls at most, and none while the buttons are on.
SyncPageInv ==
  /\ storeRuns \in [StoreRunIds -> {"none", "queued", "running", "ended"}]
  /\ watched \in StoreRunIds \cup {0} /\ pollTimers \in 0..1
  /\ watched # 0 => storeRuns[watched] # "none"
  /\ buttonsOn => pollTimers = 0
  /\ ButtonsComeBack /\ OneWatch

LEMMA SyncPageTrue == SyncPageInv => DesktopSyncTypeOK /\ DesktopSyncSound
BY DEF SyncPageInv, DesktopSyncTypeOK, DesktopSyncSound

LEMMA SyncPageStart == DesktopSyncInit => SyncPageInv
BY DesktopSyncAssumption DEF DesktopSyncInit, SyncPageInv, StoreRunIds, DesktopSyncSound,
   ButtonsComeBack, OneWatch

(* A run that was begun stays so, and the one that is found or made is begun. *)
LEMMA EnqueuedIsBegun ==
  ASSUME SyncPageInv, NEW r \in StoreRunIds, Enqueued(r)
  PROVE  /\ storeRuns' \in [StoreRunIds -> {"none", "queued", "running", "ended"}]
         /\ storeRuns'[r] # "none"
         /\ \A q \in StoreRunIds : storeRuns[q] # "none" => storeRuns'[q] # "none"
BY DEF SyncPageInv, Enqueued, Active, Unused

(* Every step of the page, the timer and the worker keeps it. *)
LEMMA SyncPageStep == SyncPageInv /\ [DesktopSyncNext]_syncPageVars => SyncPageInv'
<1> SUFFICES ASSUME SyncPageInv, DesktopSyncNext \/ UNCHANGED syncPageVars
             PROVE  SyncPageInv'
  BY DEF SyncPageInv
<1>0. 0 \notin StoreRunIds BY DesktopSyncAssumption DEF StoreRunIds
<1> USE DEF SyncPageInv, DesktopSyncSound, ButtonsComeBack, OneWatch
<1>1. CASE PressSync BY <1>0, <1>1, EnqueuedIsBegun DEF PressSync
<1>2. CASE PressSyncFails BY <1>2, EnqueuedIsBegun DEF PressSyncFails
<1>3. CASE Poll
  <2>1. CASE ~signedIn \/ watched = 0 BY <1>3, <2>1 DEF Poll
  <2>2. CASE ~(~signedIn \/ watched = 0) BY <1>3, <2>2 DEF Poll, StopWatching
  <2> QED BY <2>1, <2>2
<1>4. CASE LeavePage \/ ReturnToPage BY <1>4 DEF LeavePage, ReturnToPage
<1>5. CASE WorkerMoves BY <1>5 DEF WorkerMoves, Active
<1>6. CASE OthersEnqueue BY <1>6, EnqueuedIsBegun DEF OthersEnqueue
<1>7. CASE UNCHANGED syncPageVars BY <1>7 DEF syncPageVars
<1> QED BY <1>1, <1>2, <1>3, <1>4, <1>5, <1>6, <1>7 DEF DesktopSyncNext

(* While the buttons are off a timer will put them on again, unless one fired while nobody *)
(* was signed in, and they are off exactly while a run is watched (run_woocommerce_sync, *)
(* poll_woocommerce_sync). *)
THEOREM DesktopSyncTrue == DesktopSyncSpec => [](DesktopSyncTypeOK /\ DesktopSyncSound)
<1> QED BY SyncPageTrue, SyncPageStart, SyncPageStep, PTL DEF DesktopSyncSpec
=============================================================================
