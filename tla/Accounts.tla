-------------------------------- MODULE Accounts --------------------------------
(***************************************************************************)
(* Who may sign in: the first administrator, the administrators after him, *)
(* one person who registered, as a vendor or for the staff, and is         *)
(* approved, rejected, paused or changed, and the links by which he sets a *)
(* password (activation and reset).                                        *)
(*                                                                         *)
(* Every request reads the rows it decides by when it begins, and writes   *)
(* when it commits, of every row only the columns whose value differs from *)
(* the one it read.  What does hold requests apart is an advisory lock     *)
(* around the first setup, and the UPDATE by which a link is consumed.     *)
(* Sessions that a change closes are the business of AuthSessions.         *)
(***************************************************************************)
EXTENDS Integers, Sequences, FiniteSets

CONSTANTS Requests,        \* requests of the staff, of the person, of whoever sets up
          Admins,          \* administrators
          MaxLinks,        \* bound: links created
          MaxDecisions     \* bound: requests that begin

ASSUME AccountsAssumption == MaxLinks \in Nat /\ MaxDecisions \in Nat

VARIABLES setups,      \* how often the first setup was completed
          admins,      \* the administrators who may sign in
          person,      \* users: account_status and is_active of the person
          vendor,      \* vendors: status of the profile he registered with
          links,       \* auth_action_tokens, by creation: consumed, and how often used
          request,     \* what every request read, and is to do
          letIn,       \* history: what was last decided about the person was to let him in
          undisturbed, \* history: topics of which no request committed after one it overlapped
          decisions    \* how many requests began

accountVars == <<setups, admins, person, vendor, links, request, letIn, undisturbed, decisions>>

-----------------------------------------------------------------------------
AccountStatuses == {"active", "pending", "paused", "stopped"}
VendorStatuses == {"none", "active", "pending", "paused", "stopped"}
PersonRow == [status: AccountStatuses \cup {"absent"}, active: BOOLEAN]
LinkRow == [consumed: BOOLEAN, uses: Nat]
Topics == {"person", "admins", "links"}

NoRequest == [kind |-> "none"]
Begun == {r \in Requests : request[r] # NoRequest}

\* ensure_login_allowed of a person with the role of a vendor, or without.
LoginAllowed == /\ person.active /\ person.status = "active"
                /\ vendor \in {"none", "active"}

\* A request begins; what is refused then is no step.
BeginRequest(r, kind, topic, data) ==
  /\ request[r] = NoRequest /\ decisions < MaxDecisions
  /\ request' = [request EXCEPT ![r] = [kind |-> kind, topic |-> topic, data |-> data,
                                        person |-> person, vendor |-> vendor, lapped |-> FALSE]]
  /\ decisions' = decisions + 1
  /\ UNCHANGED <<setups, admins, person, vendor, links, letIn, undisturbed>>

\* A request commits: those of its topic that are still open have read what is no longer so.
EndRequest(r) ==
  /\ request' = [q \in Requests |->
                  CASE q = r -> NoRequest
                    [] q \in Begun \ {r} /\ request[q].topic = request[r].topic
                         -> [request[q] EXCEPT !.lapped = TRUE]
                    [] OTHER -> request[q]]
  /\ undisturbed' = IF request[r].lapped THEN undisturbed \ {request[r].topic} ELSE undisturbed
  /\ UNCHANGED decisions

-----------------------------------------------------------------------------
AccountsInit ==
  /\ setups = 0 /\ admins = {} /\ links = <<>>
  /\ person = [status |-> "absent", active |-> FALSE] /\ vendor = "none"
  /\ request = [r \in Requests |-> NoRequest]
  /\ letIn = FALSE /\ undisturbed = Topics /\ decisions = 0

\* pg_advisory_xact_lock.
SetupFree == \A r \in Begun : request[r].kind # "setup"

\* setup_first_use: the lock, then the question whether anyone is there.
BeginSetup(r) == /\ SetupFree
                 /\ setups = 0
                 /\ \E a \in Admins : BeginRequest(r, "setup", "admins", a)
CommitSetup(r) == /\ request[r].kind = "setup"
                  /\ EndRequest(r)
                  /\ setups' = setups + 1 /\ admins' = admins \cup {request[r].data}
                  /\ UNCHANGED <<person, vendor, links, letIn>>

\* update_user: the last active administrator may not be disabled, or lose the role.
MayDisable(a) == a \in admins /\ Cardinality(admins) > 1

\* An administrator is disabled, or another one (re-)enabled.
BeginAdmin(r) == \E a \in Admins :
  /\ setups > 0
  /\ a \in admins => MayDisable(a)
  /\ BeginRequest(r, IF a \in admins THEN "disable" ELSE "enable", "admins", a)
CommitAdmin(r) ==
  /\ request[r].kind \in {"disable", "enable"}
  /\ EndRequest(r)
  /\ admins' = IF request[r].kind = "disable" THEN admins \ {request[r].data}
               ELSE admins \cup {request[r].data}
  /\ UNCHANGED <<setups, person, vendor, links, letIn>>

-----------------------------------------------------------------------------
\* register_public_vendor, register_public_user: blocked until they are approved.
Register == \E profile \in {"none", "pending"} :
  /\ setups > 0 /\ person.status = "absent"
  /\ person' = [status |-> "pending", active |-> TRUE]
  /\ vendor' = profile
  /\ UNCHANGED <<setups, admins, links, request, letIn, undisturbed, decisions>>

\* approve_registration and reject_registration begin with the same question.
BeginRegistration(r) == \E kind \in {"approve", "reject"} :
  /\ person.status = "pending"
  /\ BeginRequest(r, kind, "person", kind)

\* change_vendor_status, by the marketplace or with the vendor's profile.
BeginVendor(r) == \E to \in VendorStatuses \ {"none", "pending"} :
  /\ vendor # "none"
  /\ BeginRequest(r, "vendor", "person", to)

\* update_user: is_active, or account_status.
BeginPerson(r) == \E to \in {"on", "off"} \cup AccountStatuses :
  /\ person.status # "absent"
  /\ BeginRequest(r, "account", "person", to)

\* change_vendor_status: a pending account is let in with a pending profile.
LetInWith(p, v, to) == to = "active" /\ v = "pending" /\ p.status = "pending"

\* update_user: the two columns follow each other.
Changed(p, to) ==
  CASE to = "on" -> [status |-> IF p.status = "stopped" THEN "active" ELSE p.status, active |-> TRUE]
    [] to = "off" -> [status |-> "stopped", active |-> FALSE]
    [] OTHER -> [status |-> to, active |-> to # "stopped"]

\* What a request makes of the account and of the profile it read.
PersonAfter(q) ==
  CASE q.kind = "approve" -> [status |-> "active", active |-> TRUE]
    [] q.kind = "reject" -> [status |-> "stopped", active |-> FALSE]
    [] q.kind = "account" -> Changed(q.person, q.data)
    [] q.kind = "vendor" /\ LetInWith(q.person, q.vendor, q.data) -> [q.person EXCEPT !.status = "active"]
    [] OTHER -> q.person
VendorAfter(q) ==
  CASE q.kind \in {"approve", "reject"} /\ q.vendor # "none" ->
         IF q.kind = "approve" THEN "active" ELSE "stopped"
    [] q.kind = "vendor" -> q.data
    [] OTHER -> q.vendor

\* Only the columns that differ from what was read are written.
Written(new, read, now) == IF new # read THEN new ELSE now

CommitPerson(r) ==
  LET q == request[r]
      new == PersonAfter(q)
  IN /\ q.kind \in {"approve", "reject", "vendor", "account"}
     /\ EndRequest(r)
     /\ person' = [status |-> Written(new.status, q.person.status, person.status),
                   active |-> Written(new.active, q.person.active, person.active)]
     /\ vendor' = Written(VendorAfter(q), q.vendor, vendor)
     /\ letIn' = CASE q.kind = "approve" \/ (q.kind = "account" /\ q.data \in {"on", "active"}) -> TRUE
                     [] q.kind = "reject" \/ (q.kind = "account" /\ q.data \notin {"on", "active"}) -> FALSE
                     [] OTHER -> letIn \/ (q.person.status = "pending" /\ q.vendor = "pending" /\ q.data = "active")
     /\ UNCHANGED <<setups, admins, links>>

-----------------------------------------------------------------------------
\* Faulty: the link is looked up, and consumed later.
LinkFreeAlways(r, l) == TRUE

\* The row of a link is locked by the request that consumes it.
LinkFree(r, l) == \A q \in Begun \ {r} : request[q].kind = "confirm" => l \notin request[q].data

\* create_action_token: the links that are not consumed, when its UPDATE begins.
OlderLinks == {l \in 1..Len(links) : ~links[l].consumed}

\* A link is created; those before it are consumed.
BeginLink(r) == /\ person.status # "absent"
                /\ Len(links) + Cardinality({q \in Begun : request[q].kind = "link"}) < MaxLinks
                /\ BeginRequest(r, "link", "links", OlderLinks)

\* consume_action_token, for an activation or a new password.
BeginConfirm(r) == \E l \in 1..Len(links) :
  /\ LinkFree(r, l)
  /\ ~links[l].consumed
  /\ BeginRequest(r, "confirm", "links", {l})

\* A link is consumed, or inserted when those before it are.
CommitLink(r) == LET q == request[r] IN
  /\ q.kind \in {"link", "confirm"}
  /\ q.kind = "link" => \A l \in q.data : LinkFree(r, l)
  /\ EndRequest(r)
  /\ LET consumed == [l \in 1..Len(links) |->
                       IF l \in q.data
                       THEN [consumed |-> TRUE, uses |-> links[l].uses + IF q.kind = "confirm" THEN 1 ELSE 0]
                       ELSE links[l]]
     IN links' = IF q.kind = "link" THEN Append(consumed, [consumed |-> FALSE, uses |-> 0]) ELSE consumed
  /\ UNCHANGED <<setups, admins, person, vendor, letIn>>

\* A request fails and is rolled back.
FailRequest(r) == /\ r \in Begun
                  /\ request' = [request EXCEPT ![r] = NoRequest]
                  /\ UNCHANGED <<setups, admins, person, vendor, links, letIn, undisturbed, decisions>>

AccountsNext == \/ Register
                \/ \E r \in Requests :
                     \/ BeginSetup(r) \/ CommitSetup(r) \/ BeginAdmin(r) \/ CommitAdmin(r)
                     \/ BeginRegistration(r) \/ BeginVendor(r) \/ BeginPerson(r) \/ CommitPerson(r)
                     \/ BeginLink(r) \/ BeginConfirm(r) \/ CommitLink(r) \/ FailRequest(r)
AccountsSpec == AccountsInit /\ [][AccountsNext]_accountVars

-----------------------------------------------------------------------------
(* The state is what the tables and the requests can hold. *)
AccountsTypeOK ==
  /\ setups \in Nat /\ admins \subseteq Admins /\ person \in PersonRow /\ vendor \in VendorStatuses
  /\ links \in Seq(LinkRow) /\ letIn \in BOOLEAN /\ undisturbed \subseteq Topics
  /\ decisions \in 0..MaxDecisions

(* However many requests set the system up at once, it is set up once (setup_first_use). *)
SetUpOnce == setups <= 1

(* There is an administrator to let others in again, unless two requests that disabled *)
(* administrators overlapped (update_user). *)
AdministratorLeft == setups > 0 /\ "admins" \in undisturbed => admins # {}

(* Whatever is done to the account and to the profile, and in whichever order: the person *)
(* is only let in if the last decision about the account was to, unless two overlapped; a *)
(* rejected one does not come in by a vendor that is activated later. *)
LetInByDecision == LoginAllowed /\ "person" \in undisturbed => letIn

(* is_active and account_status do not contradict each other, unless decisions overlapped: *)
(* then an account may be called active and still be refused. *)
FlagsAgree == person.status # "absent" /\ "person" \in undisturbed
              => (~person.active <=> person.status = "stopped")

(* A link sets a password once, also when it is followed twice at the same time; and it is *)
(* the only one that can, unless two were being created at the same time. *)
LinkOnce == /\ \A l \in 1..Len(links) : links[l].uses <= 1
            /\ "links" \in undisturbed => Cardinality({l \in 1..Len(links) : ~links[l].consumed}) <= 1

(* Who may sign in, and set a password, was let in, but for the named exceptions. *)
AccountsSound == SetUpOnce /\ AdministratorLeft /\ LetInByDecision /\ FlagsAgree /\ LinkOnce
=============================================================================
