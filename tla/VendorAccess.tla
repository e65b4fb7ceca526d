------------------------------ MODULE VendorAccess ------------------------------
(***************************************************************************)
(* Who may act for which vendor: the users, their roles, the vendors, and  *)
(* the ties between users and vendors, as registrations, approvals and     *)
(* administrators make them.  The role Vendor opens the vendor's pages;    *)
(* which vendor's, the ties say.                                           *)
(*                                                                         *)
(* Ties of users who lost the role, and roles of the company that lost a   *)
(* permission, are repaired on the way by requests about somebody else.    *)
(* Requests that overlap are the business of Accounts.                     *)
(***************************************************************************)
EXTENDS FiniteSets, Integers

CONSTANTS Persons, Outlets,  \* users and vendors there are or may be
          MaxOnboarding      \* bound: requests

ASSUME VendorAccessAssumption == MaxOnboarding \in Nat

VARIABLES outlets,    \* vendors: the status
          users,      \* users: the account's status, and the roles
          ties,       \* vendor_users
          offered,    \* what the role Vendor is permitted, and whether its description is its own
          stripped,   \* history: users an administrator took the role from
          trimmed,    \* history: what an administrator took from the role
          halted,     \* history: vendors an administrator paused or stopped
          swept,      \* history: what requests about others did to users, and their ties before
          requests

accessVars == <<outlets, users, ties, offered, stripped, trimmed, halted, swept, requests>>

-----------------------------------------------------------------------------
Tie == [outlet: Outlets, user: Persons, asVendor: BOOLEAN, primary: BOOLEAN]
TiesOf(u) == {t \in ties : t.user = u}
VendorTies(u) == {t \in TiesOf(u) : t.asVendor}
Primary(some) == {t \in some : t.primary}
TheOutlet(some) == (CHOOSE t \in some : TRUE).outlet

VendorAccessInit ==
  /\ outlets = [s \in Outlets |-> "absent"]
  /\ users = [u \in Persons |-> [status |-> "absent", roles |-> {}]]
  /\ ties = {} /\ offered = [permitted |-> {"orders"}, standard |-> TRUE]
  /\ stripped = {} /\ trimmed = {} /\ halted = {} /\ swept = {} /\ requests = 0

\* ensure_login_allowed: the vendor that is looked at, of the ties of every kind.
LoginOutlets(u) ==
  IF Cardinality(Primary(TiesOf(u))) = 1 THEN {TheOutlet(Primary(TiesOf(u)))}
  ELSE IF Primary(TiesOf(u)) = {} /\ Cardinality(TiesOf(u)) = 1 THEN {TheOutlet(TiesOf(u))}
  ELSE {}

LoginAllowedFor(u) ==
  /\ users[u].status = "active"
  /\ \/ "Administrator" \in users[u].roles \/ "Vendor" \notin users[u].roles
     \/ \E s \in LoginOutlets(u) : outlets[s] = "active"

\* vendor_for_user: the vendor he acts for, of the ties as a vendor.
VendorFor(u) == IF Cardinality(Primary(VendorTies(u))) = 1
                THEN {TheOutlet(Primary(VendorTies(u)))} ELSE {}

\* ... once he is signed in and has the role.
Acts(u) == IF LoginAllowedFor(u) /\ "Vendor" \in users[u].roles
           THEN {s \in VendorFor(u) : outlets[s] = "active"} ELSE {}

\* A request about some users and vendors: what it changed for other users.
Befell(u, subjects, what) ==
  CASE what = "begins" -> Acts(u) = {} /\ Acts(u)' # {} /\ Acts(u)' \cap subjects = {}
    [] what = "ceases" -> Acts(u) # {} /\ Acts(u)' = {} /\ Acts(u) \cap subjects = {}
    [] what = "locked out" -> /\ LoginAllowedFor(u) /\ ~LoginAllowedFor(u)'
                              /\ LoginOutlets(u) \cap subjects = {}
SweptNow(u, what) == [what |-> what, ties |-> TiesOf(u),
                      closed |-> \E t \in TiesOf(u) : outlets[t.outlet] # "active"]
About(subjects) ==
  /\ requests < MaxOnboarding /\ requests' = requests + 1
  /\ LET fates == {p \in (Persons \ subjects) \X {"begins", "ceases", "locked out"} :
                     Befell(p[1], subjects, p[2])}
     IN  swept' = swept \cup {SweptNow(p[1], p[2]) : p \in fates}

-----------------------------------------------------------------------------
\* _backfill_unambiguous_vendor_users: a single tie becomes primary, and whoever has one primary
\* tie gets the role.
Mended == [t \in ties |-> IF VendorTies(t.user) = {t} THEN [t EXCEPT !.primary = TRUE] ELSE t]
MendedTies == {Mended[t] : t \in ties}
Regained == {u \in Persons :
  Cardinality(Primary({t \in MendedTies : t.user = u /\ t.asVendor})) = 1}
WithRole(us) == [u \in Persons |->
  IF u \in Regained THEN [us[u] EXCEPT !.roles = @ \cup {"Vendor"}] ELSE us[u]]

NewTie(s, u, asVendor, primary) ==
  [outlet |-> s, user |-> u, asVendor |-> asVendor, primary |-> primary]
NewUser(status, roles) == [status |-> status, roles |-> roles]

\* register_public_vendor, and create_admin_vendor_account, which are active at once.
OpenShop == \E u \in Persons, s \in Outlets, status \in {"pending", "active"} :
  /\ users[u].status = "absent" /\ outlets[s] = "absent"
  /\ outlets' = [outlets EXCEPT ![s] = status]
  /\ users' = [WithRole(users) EXCEPT ![u] = NewUser(status, {"Vendor"})]
  /\ ties' = MendedTies \cup {NewTie(s, u, TRUE, TRUE)}
  /\ UNCHANGED <<offered, stripped, trimmed, halted>>
  /\ About({u, s})

\* register_public_user, of the staff.
JoinStaff == \E u \in Persons :
  /\ users[u].status = "absent"
  /\ users' = [users EXCEPT ![u] = NewUser("pending", {})]
  /\ UNCHANGED <<outlets, ties, offered, stripped, trimmed, halted>>
  /\ About({u})

\* create_vendor: without a user.
CreateOutlet == \E s \in Outlets :
  /\ outlets[s] = "absent" /\ outlets' = [outlets EXCEPT ![s] = "active"]
  /\ UNCHANGED <<users, ties, offered, stripped, trimmed, halted>>
  /\ About({s})

\* add_vendor_user; with the role of a vendor, the others' ties are mended first.
AddTie == \E s \in Outlets, u \in Persons, asVendor, primary \in BOOLEAN :
  /\ outlets[s] # "absent" /\ users[u].status # "absent"
  /\ \A t \in TiesOf(u) : t.outlet # s
  /\ ties' = (IF asVendor THEN MendedTies ELSE ties) \cup {NewTie(s, u, asVendor, primary)}
  /\ users' = IF asVendor THEN [WithRole(users) EXCEPT ![u].roles = @ \cup {"Vendor"}] ELSE users
  /\ stripped' = IF asVendor THEN stripped \ {u} ELSE stripped
  /\ UNCHANGED <<outlets, offered, trimmed, halted>>
  /\ About({u, s})

\* _registration_vendor_for_user: the profile a request is about, if that can be told.
Ambiguous(u) == Cardinality(VendorTies(u)) > 1 /\ Cardinality(Primary(VendorTies(u))) # 1
ProfileOf(u) ==
  IF Cardinality(Primary(VendorTies(u))) = 1 THEN {TheOutlet(Primary(VendorTies(u)))}
  ELSE {t.outlet : t \in VendorTies(u)}

\* approve_registration; the profile becomes active whatever it was.
Approve(u, roles) ==
  /\ users[u].status = "pending" /\ ~Ambiguous(u)
  /\ IF ProfileOf(u) = {}
     THEN /\ roles # {} /\ users' = [users EXCEPT ![u] = NewUser("active", roles)]
          /\ UNCHANGED <<outlets, ties>>
     ELSE /\ users' = [WithRole(users) EXCEPT ![u] = NewUser("active", roles \cup {"Vendor"})]
          /\ outlets' = [s \in Outlets |-> IF s \in ProfileOf(u) THEN "active" ELSE outlets[s]]
          /\ ties' = MendedTies
  /\ halted' = halted \ ProfileOf(u)
  /\ stripped' = IF ProfileOf(u) = {} THEN stripped ELSE stripped \ {u}
  /\ UNCHANGED <<offered, trimmed>>
  /\ About({u} \cup ProfileOf(u))
ApproveUser == \E u \in Persons, roles \in {{}, {"staff"}, {"Administrator"}} : Approve(u, roles)

\* reject_registration.
RejectUser == \E u \in Persons :
  /\ users[u].status = "pending" /\ ~Ambiguous(u)
  /\ users' = [users EXCEPT ![u].status = "stopped"]
  /\ outlets' = [s \in Outlets |-> IF s \in ProfileOf(u) THEN "stopped" ELSE outlets[s]]
  /\ halted' = halted \cup ProfileOf(u)
  /\ UNCHANGED <<ties, offered, stripped, trimmed>>
  /\ About({u} \cup ProfileOf(u))

\* change_vendor_status: a vendor's first activation lets in the users who wait with it.
Affected(s) == {u \in Persons : /\ \E t \in Primary(VendorTies(u)) : t.outlet = s
                                /\ "Vendor" \in users[u].roles
                                /\ "Administrator" \notin users[u].roles}
ChangeStatus(s, status) ==
  LET letIn == {u \in Affected(s) : status = "active" /\ outlets[s] = "pending"
                                      /\ users[u].status = "pending"}
  IN  /\ outlets[s] # "absent" /\ outlets' = [outlets EXCEPT ![s] = status]
      /\ users' = [u \in Persons |-> IF u \in letIn THEN [users[u] EXCEPT !.status = "active"]
                                                    ELSE users[u]]
      /\ halted' = IF status = "active" THEN halted \ {s} ELSE halted \cup {s}
      /\ UNCHANGED <<ties, offered, stripped, trimmed>>
  /\ About({s} \cup letIn)
ChangeOutlet == \E s \in Outlets, status \in {"active", "stopped"} :
  outlets[s] # status /\ ChangeStatus(s, status)

\* approve_vendor: one of its users who wait, and otherwise the vendor alone.
Waiting(s) == {u \in Persons : /\ \E t \in Primary(VendorTies(u)) : t.outlet = s
                               /\ users[u].status = "pending"}
ApproveVendor == \E s \in Outlets :
  IF Waiting(s) # {} THEN \E u \in Waiting(s) : Approve(u, {})
                     ELSE outlets[s] # "active" /\ ChangeStatus(s, "active")

\* update_user: an administrator gives the role or takes it.
SetRoles == \E u \in Persons, role \in SUBSET {"Vendor"} :
  LET roles == (users[u].roles \ {"Vendor"}) \cup role IN
  /\ users[u].status # "absent" /\ roles # users[u].roles
  /\ users' = [users EXCEPT ![u].roles = roles]
  /\ stripped' = IF "Vendor" \in roles THEN stripped \ {u}
                 ELSE IF "Vendor" \in users[u].roles THEN stripped \cup {u} ELSE stripped
  /\ UNCHANGED <<outlets, ties, offered, trimmed, halted>>
  /\ About({u})

-----------------------------------------------------------------------------
\* update_role, of the role Vendor: its permissions, and with them perhaps its description.
EditRole == \E permitted \in SUBSET {"orders"}, standard \in BOOLEAN :
  /\ [permitted |-> permitted, standard |-> standard] # offered
  /\ standard => offered.standard
  /\ offered' = [permitted |-> permitted, standard |-> standard]
  /\ trimmed' = {"orders"} \ permitted
  /\ UNCHANGED <<outlets, users, ties, stripped, halted>>
  /\ About({})

\* seed_default_roles, by every sign-in: the role gets what a vendor is permitted, unless its
\* description was changed.
SignInSeeds ==
  /\ offered.standard /\ offered.permitted # {"orders"}
  /\ offered' = [offered EXCEPT !.permitted = {"orders"}]
  /\ UNCHANGED <<outlets, users, ties, stripped, trimmed, halted>>
  /\ About({})

VendorAccessNext ==
  \/ OpenShop \/ JoinStaff \/ CreateOutlet \/ AddTie \/ ApproveUser \/ RejectUser
  \/ ChangeOutlet \/ ApproveVendor \/ SetRoles \/ EditRole \/ SignInSeeds

VendorAccessSpec == VendorAccessInit /\ [][VendorAccessNext]_accessVars

-----------------------------------------------------------------------------
(* The rows are of their types, and nobody is tied to a vendor twice. *)
VendorAccessTypeOK ==
  /\ ties \subseteq Tie
  /\ \A t, r \in ties : t.user = r.user /\ t.outlet = r.outlet => t = r

(* The vendor by whose status a user is let in is the one he then acts for, although one looks *)
(* at all his ties and the other at those as a vendor (ensure_login_allowed, vendor_for_user). *)
LetInForWhatHeActsFor == \A u \in Persons :
  LoginAllowedFor(u) /\ Acts(u) # {} /\ "Administrator" \notin users[u].roles
    => Acts(u) = LoginOutlets(u)

(* By a request about others a user begins to act for a vendor only if he is tied to it alone *)
(* as a vendor, or as its one primary user, and can no longer sign in only if he is tied to *)
(* another one besides or that one is not active; he never ceases to act for one *)
(* (_backfill_unambiguous_vendor_users). *)
LeftInPeace == \A w \in swept :
  LET asVendor == {t \in w.ties : t.asVendor}
  IN  /\ w.what = "begins" \/ (w.what = "locked out" /\ (w.closed \/ Cardinality(w.ties) > 1))
      /\ Cardinality(asVendor) = 1 \/ Cardinality(Primary(asVendor)) = 1

(* Who was deprived of the role Vendor has it again only if he still is tied to one vendor as *)
(* its primary user (_backfill_unambiguous_vendor_users). *)
RoleStaysOff == \A u \in stripped :
  "Vendor" \in users[u].roles => Cardinality(Primary(VendorTies(u))) = 1

(* A vendor that was stopped stays so, and nobody acts for it, until it or a user of it is *)
(* approved; but for permissions, which every sign-in restores unless the role was described *)
(* anew (change_vendor_status, approve_registration, seed_default_roles). *)
StoppedStays == /\ \A s \in halted : outlets[s] \in {"paused", "stopped"}
                /\ trimmed \cap offered.permitted # {} => offered.standard

VendorAccessSound == LetInForWhatHeActsFor /\ LeftInPeace /\ RoleStaysOff /\ StoppedStays
=============================================================================
