------------------------------ MODULE DesktopAdmin ------------------------------
(***************************************************************************)
(* The administration page of the desktop program: the users and roles it  *)
(* lists, the user that was picked, the roles that are ticked for it, and  *)
(* the changes and new users that are sent from them.                      *)
(*                                                                         *)
(* Each call is a task of the thread pool; the page goes on meanwhile.     *)
(* Filling the page again empties the ticks and leaves the user's number.  *)
(***************************************************************************)
EXTENDS FiniteSets, Integers

CONSTANTS Operators,      \* the users there are at first
          Chief,          \* the one of them who is an administrator
          MaxOfficeSteps  \* bound: what the administrator and others do

ASSUME DesktopAdminAssumption == /\ {"new", "nobody"} \cap Operators = {} /\ Chief \in Operators
                                 /\ MaxOfficeSteps \in Nat

VARIABLES accounts,      \* the server's users: their roles and standing
          known,         \* the users as the page has them
          usersReading,  \* the list that is being read: "idle", "asked" or "read", and the users
          picked,        \* the user whose number is in the form, and the user as it was picked
          ticked,        \* the roles that are ticked, and the standing that is chosen
          byHand,        \* history: what the administrator changed of them since the pick
          marks,         \* history, since the pick: the page was "refreshed", the form "cleared"
          order,         \* the change that is under way
          hiring,        \* the new user that is under way
          surprises,     \* history: changes that nobody asked for
          officeSteps

officeVars == <<accounts, known, usersReading, picked, ticked, byHand, marks, order, hiring,
                surprises, officeSteps>>

-----------------------------------------------------------------------------
Posts == {"Administrator", "sales"}
Account(posts, standing) == [posts |-> posts, standing |-> standing]
NoUsers == [step |-> "idle", users |-> <<>>]
NothingSent == [step |-> "none"]

NoPick == [who |-> "nobody", was |-> Account({}, "active")]

DesktopAdminInit ==
  /\ accounts = [u \in Operators \cup {"new"} |->
                   CASE u = Chief -> Account(Posts, "active")
                     [] u = "new" -> Account({}, "absent")
                     [] OTHER -> Account({"sales"}, "paused")]
  /\ known = accounts /\ usersReading = NoUsers
  /\ picked = NoPick /\ ticked = Account({}, "active") /\ byHand = {} /\ marks = {}
  /\ order = NothingSent /\ hiring = NothingSent /\ surprises = {} /\ officeSteps = 0

Move == officeSteps < MaxOfficeSteps /\ officeSteps' = officeSteps + 1

\* refresh_admin: not while a list is being read.
RereadUsers == usersReading' = IF usersReading = NoUsers THEN [NoUsers EXCEPT !.step = "asked"]
                                                   ELSE usersReading

ClickRefreshAdmin ==
  /\ usersReading = NoUsers /\ Move /\ RereadUsers
  /\ UNCHANGED <<accounts, known, picked, ticked, byHand, marks, order, hiring, surprises>>

AnswerUsers ==
  /\ usersReading.step = "asked" /\ usersReading' = [step |-> "read", users |-> accounts]
  /\ UNCHANGED <<accounts, known, picked, ticked, byHand, marks, order, hiring, surprises,
                 officeSteps>>

\* The list of roles is filled again and nothing in it is ticked.
ShowUsers ==
  /\ usersReading.step = "read" /\ known' = usersReading.users /\ usersReading' = NoUsers
  /\ ticked' = [ticked EXCEPT !.posts = {}] /\ byHand' = byHand \ Posts
  /\ marks' = marks \cup {"refreshed"}
  /\ UNCHANGED <<accounts, picked, order, hiring, surprises, officeSteps>>

UsersFail ==
  /\ usersReading.step = "asked" /\ usersReading' = NoUsers
  /\ UNCHANGED <<accounts, known, picked, ticked, byHand, marks, order, hiring, surprises,
                 officeSteps>>

\* load_selected_admin_user.
PickUser == \E u \in DOMAIN known :
  /\ known[u].standing # "absent" /\ u # picked.who /\ Move
  /\ picked' = [who |-> u, was |-> known[u]] /\ ticked' = known[u]
  /\ byHand' = {} /\ marks' = {}
  /\ UNCHANGED <<accounts, known, usersReading, order, hiring, surprises>>

TickPost == \E post \in Posts :
  /\ Move /\ byHand' = byHand \cup {post}
  /\ ticked' = [ticked EXCEPT !.posts = IF post \in @ THEN @ \ {post} ELSE @ \cup {post}]
  /\ UNCHANGED <<accounts, known, usersReading, picked, marks, order, hiring, surprises>>

ChooseStanding == \E standing \in {"active", "paused"} :
  /\ standing # ticked.standing /\ Move
  /\ ticked' = [ticked EXCEPT !.standing = standing] /\ byHand' = byHand \cup {"standing"}
  /\ UNCHANGED <<accounts, known, usersReading, picked, marks, order, hiring, surprises>>

-----------------------------------------------------------------------------
\* What of an account differs from what is asked for, and was not changed by hand.
Unasked(now, asked, hand) ==
  {post \in Posts \ hand : (post \in now.posts) # (post \in asked.posts)}
    \cup (IF now.standing # asked.standing THEN {"standing"} \ hand ELSE {})

\* apply_admin_user_status: its button is off until the answer.
Apply ==
  /\ order = NothingSent /\ picked # NoPick /\ Move
  /\ order' = [step |-> "sent", who |-> picked.who, was |-> picked.was, asked |-> ticked,
               hand |-> byHand, marks |-> marks]
  /\ UNCHANGED <<accounts, known, usersReading, picked, ticked, byHand, marks, hiring,
                 surprises>>

Chiefs(users) == {u \in DOMAIN users : "Administrator" \in users[u].posts
                                         /\ users[u].standing = "active"}

\* update_user: the last active administrator stays one.
ServeOrder ==
  LET u == order.who
      after == [accounts EXCEPT ![u] = order.asked]
  IN  /\ order.step = "sent"
      /\ IF /\ "Administrator" \in accounts[u].posts /\ u \notin Chiefs(after)
            /\ Cardinality(Chiefs(accounts)) <= 1
         THEN order' = NothingSent /\ UNCHANGED <<accounts, surprises>>
         ELSE /\ accounts' = after /\ order' = [order EXCEPT !.step = "done"]
              /\ surprises' = surprises \cup
                   {[what |-> IF x \in Posts THEN "post" ELSE x, marks |-> order.marks,
                     changed |-> order.was # accounts[u]] :
                       x \in Unasked(accounts[u], order.asked, order.hand)}
      /\ UNCHANGED <<known, usersReading, picked, ticked, byHand, marks, hiring, officeSteps>>

OrderAnswered ==
  /\ order.step = "done" /\ order' = NothingSent /\ RereadUsers
  /\ UNCHANGED <<accounts, known, picked, ticked, byHand, marks, hiring, surprises,
                 officeSteps>>

\* create_admin_user: with the roles and the standing of the form.
Hire ==
  /\ hiring = NothingSent /\ accounts["new"].standing = "absent" /\ Move
  /\ hiring' = [step |-> "sent", asked |-> ticked,
                unasked |-> Unasked(Account({}, "active"), ticked, byHand), who |-> picked.who]
  /\ UNCHANGED <<accounts, known, usersReading, picked, ticked, byHand, marks, order,
                 surprises>>

ServeHire ==
  /\ hiring.step = "sent" /\ hiring' = [hiring EXCEPT !.step = "done"]
  /\ accounts' = [accounts EXCEPT !["new"] = hiring.asked]
  /\ surprises' = surprises \cup {[what |-> "hired", like |-> hiring.who] : x \in hiring.unasked}
  /\ UNCHANGED <<known, usersReading, picked, ticked, byHand, marks, order, officeSteps>>

HireAnswered ==
  /\ hiring.step = "done" /\ hiring' = NothingSent /\ RereadUsers
  /\ ticked' = Account({}, "active") /\ byHand' = {} /\ marks' = marks \cup {"cleared"}
  /\ UNCHANGED <<accounts, known, picked, order, surprises, officeSteps>>

\* A call fails, or its answer is lost.
CallFails ==
  /\ \/ order # NothingSent /\ order' = NothingSent /\ UNCHANGED hiring
     \/ hiring # NothingSent /\ hiring' = NothingSent /\ UNCHANGED order
  /\ UNCHANGED <<accounts, known, usersReading, picked, ticked, byHand, marks, surprises,
                 officeSteps>>

\* Another administrator changes a user.
OthersChangeUser == \E u \in Operators :
  /\ Move
  /\ \/ \E posts \in SUBSET Posts : accounts' = [accounts EXCEPT ![u].posts = posts]
     \/ \E standing \in {"active", "paused"} :
          accounts' = [accounts EXCEPT ![u].standing = standing]
  /\ accounts' # accounts /\ Chiefs(accounts') # {}
  /\ UNCHANGED <<known, usersReading, picked, ticked, byHand, marks, order, hiring, surprises>>

DesktopAdminNext ==
  \/ ClickRefreshAdmin \/ AnswerUsers \/ ShowUsers \/ UsersFail
  \/ PickUser \/ TickPost \/ ChooseStanding
  \/ Apply \/ ServeOrder \/ OrderAnswered \/ Hire \/ ServeHire \/ HireAnswered
  \/ CallFails \/ OthersChangeUser

DesktopAdminSpec == DesktopAdminInit /\ [][DesktopAdminNext]_officeVars

-----------------------------------------------------------------------------
(* What is picked and ticked is a user and its roles. *)
DesktopAdminTypeOK ==
  /\ picked.who \in DOMAIN accounts \cup {"nobody"} /\ ticked.posts \subseteq Posts
  /\ \A u \in DOMAIN accounts : accounts[u].posts \subseteq Posts

(* A user gains and loses only the roles that the administrator ticked and unticked, and is *)
(* paused or made active only as was chosen; but for a page that was refreshed or a form that *)
(* was cleared after the user was picked, and for a user that had been changed since it was *)
(* read (apply_admin_user_status). *)
ChangedAsAsked == \A s \in surprises :
  \/ s.what = "post" /\ (s.changed \/ s.marks # {})
  \/ s.what = "standing" /\ (s.changed \/ "cleared" \in s.marks)
  \/ s.what = "hired"

(* A new user has only the roles that were ticked for it, unless another user had been picked *)
(* (create_admin_user). *)
HiredAsAsked == \A s \in surprises : s.what = "hired" => s.like # "nobody"

(* Somebody is left who may administrate (update_user). *)
SomebodyIsLeft == Chiefs(accounts) # {}

DesktopAdminSound == ChangedAsAsked /\ HiredAsAsked /\ SomebodyIsLeft
=============================================================================
