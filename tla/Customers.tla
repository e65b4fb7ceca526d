------------------------------- MODULE Customers -------------------------------
(***************************************************************************)
(* The customers of the ERP and the accounts of the store they are         *)
(* imported from.  An account is known by its number once it is mapped,    *)
(* and by its e-mail before; a customer's e-mail and phone are its own, so *)
(* two accounts that exchange theirs between two runs can stop the runs.   *)
(***************************************************************************)
EXTENDS Integers

CONSTANTS CustomerRows,  \* rows there are or may be
          Mails,         \* e-mail addresses
          MaxCustomerSteps

ASSUME CustomersAssumption == /\ CustomerRows \subseteq Nat \ {0} /\ MaxCustomerSteps \in Nat
                              /\ "none" \notin Mails

VARIABLES buyers,      \* accounts of the store: the e-mail and the billing phone
          customers,   \* rows; of is the account whose data it has, or the desk's
          matched,     \* external_resource_map: accounts to rows
          runStopped,  \* the last run stopped at an account that could not be imported
          causes,      \* history: what users and buyers did that may trouble the import
          misbooked,   \* history: an order of a buyer went to another account's customer
          customerSteps

customerVars == <<buyers, customers, matched, runStopped, causes, misbooked, customerSteps>>

-----------------------------------------------------------------------------
BuyerIds == {1, 2}    \* in the order in which the store lists them
DeskId == 0
NoPhone == 0
Phones == {1}
NoMail == "none"
NoBuyer == [mail |-> NoMail, phone |-> NoPhone]
NoCustomer == [mail |-> NoMail, phone |-> NoPhone, of |-> -1]

\* What one import has written so far, and whether the database let it; room is only the bound's.
World == [rows |-> customers, map |-> matched, ok |-> TRUE, room |-> TRUE]
Made(rows) == {r \in CustomerRows : rows[r] # NoCustomer}
NextRow(rows) == CHOOSE r \in CustomerRows \ Made(rows) :
                   \A q \in CustomerRows \ Made(rows) : r <= q
WithMail(rows, mail) == {r \in Made(rows) : mail # NoMail /\ rows[r].mail = mail}

\* The unique keys of the table, and ensure_customer_contact_unique before them.
Unique(rows) == \A r, q \in Made(rows) : r # q =>
  /\ rows[r].mail = NoMail \/ rows[r].mail # rows[q].mail
  /\ rows[r].phone = NoPhone \/ rows[r].phone # rows[q].phone
Put(w, r, row) == LET rows == [w.rows EXCEPT ![r] = row]
                  IN  [w EXCEPT !.rows = rows, !.ok = w.ok /\ Unique(rows)]
Mapped(w, b, r) == [w EXCEPT !.map[b] = r]

CustomersInit ==
  /\ buyers = [b \in BuyerIds |-> NoBuyer] /\ customers = [r \in CustomerRows |-> NoCustomer]
  /\ matched = [b \in BuyerIds |-> 0] /\ runStopped = FALSE /\ causes = {} /\ misbooked = FALSE
  /\ customerSteps = 0

CustomerStep == customerSteps < MaxCustomerSteps /\ customerSteps' = customerSteps + 1

-----------------------------------------------------------------------------
\* sync_single_customer.  Without a phone the buyer's user name stands in for it.
PhoneOf(b) == IF buyers[b].phone = NoPhone THEN -b ELSE buyers[b].phone
BuyerRow(b) == [mail |-> buyers[b].mail, phone |-> PhoneOf(b), of |-> b]
ImportBuyer(w, b) ==
  IF buyers[b] = NoBuyer \/ ~w.ok THEN w
  ELSE IF w.map[b] # 0 THEN Put(w, w.map[b], BuyerRow(b))
  ELSE IF WithMail(w.rows, buyers[b].mail) # {}
  THEN LET r == CHOOSE r \in WithMail(w.rows, buyers[b].mail) : TRUE
       IN  Mapped(Put(w, r, BuyerRow(b)), b, r)
  ELSE IF Made(w.rows) = CustomerRows THEN [w EXCEPT !.room = FALSE]
  ELSE LET r == NextRow(w.rows) IN Mapped(Put(w, r, BuyerRow(b)), b, r)

Take(w) == customers' = w.rows /\ matched' = w.map

\* pull_customers: all of them, and none when one cannot be imported.
PullCustomers ==
  LET w == ImportBuyer(ImportBuyer(World, 1), 2)
  IN  /\ w.room /\ CustomerStep
      /\ runStopped' = ~w.ok
      /\ IF w.ok THEN Take(w) ELSE UNCHANGED <<customers, matched>>
      /\ UNCHANGED <<buyers, causes, misbooked>>

\* process_webhook_event: one account, when it was made or changed.
HookOf(b) ==
  LET w == ImportBuyer(World, b)
  IN  /\ buyers[b] # NoBuyer /\ w.room /\ CustomerStep
      /\ w.ok /\ Take(w)
      /\ UNCHANGED <<buyers, runStopped, causes, misbooked>>

\* sync_single_order: the customer of an order, by its account and then by its own e-mail.
BuyerOfOrder(b, mail, phone) ==
  IF b # DeskId /\ matched[b] # 0 THEN World
  ELSE IF WithMail(customers, mail) # {} THEN World
  ELSE LET r == NextRow(customers)
           w == Put(World, r, [mail |-> mail, phone |-> phone, of |-> b])
       IN  IF b = DeskId THEN w ELSE Mapped(w, b, r)
BookedOn(w, b, mail) ==
  IF b # DeskId /\ w.map[b] # 0 THEN w.map[b] ELSE CHOOSE r \in WithMail(w.rows, mail) : TRUE

\* An order gives the account's phone, and a guest's none.
ImportOrder == \E b \in BuyerIds \cup {DeskId}, mail \in Mails :
  LET w == BuyerOfOrder(b, mail, IF b = DeskId THEN NoPhone ELSE buyers[b].phone)
      own == b # DeskId /\ buyers[b].mail = mail
  IN  /\ b # DeskId => buyers[b] # NoBuyer
      /\ Made(customers) # CustomerRows /\ CustomerStep
      /\ w.ok /\ Take(w)
      /\ causes' = IF own THEN causes ELSE causes \cup {"billing"}
      /\ misbooked' = (misbooked \/ (b # DeskId /\ w.rows[BookedOn(w, b, mail)].of # b))
      /\ UNCHANGED <<buyers, runStopped>>

-----------------------------------------------------------------------------
\* The accounts of the store; two of them may have one phone but never one e-mail.
Contact(b, mail, phone) ==
  /\ \A c \in BuyerIds \ {b} : buyers[c].mail # mail
  /\ buyers' = [buyers EXCEPT ![b] = [mail |-> mail, phone |-> phone]]
  /\ causes' = causes
       \cup (IF \E c \in BuyerIds \ {b} : phone # NoPhone /\ buyers[c].phone = phone
             THEN {"shared"} ELSE {})
       \cup (IF \E r \in Made(customers) :
                  /\ customers[r].of # b
                  /\ customers[r].mail = mail \/ (phone # NoPhone /\ customers[r].phone = phone)
             THEN {"moved"} ELSE {})
  /\ UNCHANGED <<customers, matched, runStopped, misbooked>>
RegisterBuyer == \E b \in BuyerIds, mail \in Mails, phone \in Phones \cup {NoPhone} :
  /\ buyers[b] = NoBuyer /\ (b = 1 \/ buyers[1] # NoBuyer) /\ CustomerStep
  /\ Contact(b, mail, phone)
ChangeContact == \E b \in BuyerIds, mail \in Mails, phone \in Phones \cup {NoPhone} :
  /\ buyers[b] \notin {NoBuyer, [mail |-> mail, phone |-> phone]} /\ CustomerStep
  /\ Contact(b, mail, phone)

\* create_customer and update_customer, at the desk.
DeskWrites(r, row) ==
  LET w == Put(World, r, row)
  IN  /\ CustomerStep /\ w.ok /\ Take(w) /\ causes' = causes \cup {"desk"}
      /\ UNCHANGED <<buyers, runStopped, misbooked>>
CreateCustomer == \E mail \in Mails \cup {NoMail}, phone \in Phones :
  /\ Made(customers) # CustomerRows
  /\ DeskWrites(NextRow(customers), [mail |-> mail, phone |-> phone, of |-> DeskId])
UpdateCustomer == \E r \in Made(customers), mail \in Mails, phone \in Phones :
  /\ [customers[r] EXCEPT !.mail = mail, !.phone = phone] # customers[r]
  /\ DeskWrites(r, [customers[r] EXCEPT !.mail = mail, !.phone = phone])

CustomersNext ==
  \/ PullCustomers \/ (\E b \in BuyerIds : HookOf(b)) \/ ImportOrder \/ RegisterBuyer
  \/ ChangeContact \/ CreateCustomer \/ UpdateCustomer

CustomersSpec == CustomersInit /\ [][CustomersNext]_customerVars

-----------------------------------------------------------------------------
(* Rows have contacts of their own, and mappings lead to rows. *)
CustomersTypeOK ==
  /\ Unique(customers)
  /\ \A b \in BuyerIds : matched[b] # 0 => matched[b] \in Made(customers)

(* Accounts are customers of their own, unless an e-mail went from one to another or the desk *)
(* or an order wrote it into a customer (sync_single_customer). *)
OneCustomerEach ==
  matched[1] = matched[2] /\ matched[1] # 0 => causes \cap {"moved", "desk", "billing"} # {}

(* A run gets through, unless two accounts have one phone, an e-mail or phone went from one to *)
(* another or was given to a customer at the desk, or an order was billed to another one. *)
CustomersGetThrough == runStopped => causes # {}

(* An order of an account is booked for a customer who is that account, with like exceptions *)
(* (sync_single_order). *)
OrdersFindTheirBuyer == misbooked => causes \cap {"moved", "desk", "billing"} # {}

CustomersSound == OneCustomerEach /\ CustomersGetThrough /\ OrdersFindTheirBuyer
=============================================================================
