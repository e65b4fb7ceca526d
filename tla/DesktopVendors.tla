----------------------------- MODULE DesktopVendors -----------------------------
(***************************************************************************)
(* The marketplace page of the desktop program, for an administrator: the  *)
(* list of vendors, the row that is selected in it, and the workspace      *)
(* below, which shows the vendor's users, orders and stock.                *)
(*                                                                         *)
(* Lists and workspaces are read by tasks of a thread pool and shown when  *)
(* their answers come, in whatever order.  A row is selected by its        *)
(* number; filling the table again leaves the number.                      *)
(***************************************************************************)
EXTENDS Integers, FiniteSets, SequencesExt

CONSTANTS Vendors0,     \* the vendors there are at first, by name
          MaxNames,     \* bound: names, in the order of the alphabet
          MaxDeskSteps  \* bound: what the administrator and others do

ASSUME DesktopVendorsAssumption == /\ {"new", "nobody"} \cap ToSet(Vendors0) = {}
                                   /\ {MaxNames, MaxDeskSteps} \subseteq Nat

VARIABLES shopNames,  \* the server's vendors and their names, 0 for one that is to be created
          table,      \* the vendors in the list, from the top
          chosenRow,  \* the selected row, 0 for none
          meant,      \* the vendor whose workspace was asked for last
          space,      \* the vendor whose workspace is shown
          list,       \* the list that is being read: "idle", "asked" or "read", and the answer
          spaces,     \* the workspaces that are being read, in the order they were asked for
          slips,      \* history, since a vendor was selected: "late", an older workspace came
                      \*   after the one that was asked for; "failed", that one did not come;
                      \*   "shifted", another vendor came into the selected row
          unseen,     \* history, since the list was last answered: "others" changed vendors,
                      \*   a refresh was "skipped" or "failed"
          mistakes,   \* history: what was done to another vendor than meant, and the slips
          deskSteps

deskVars == <<shopNames, table, chosenRow, meant, space, list, spaces, slips, unseen,
              mistakes, deskSteps>>

-----------------------------------------------------------------------------
\* list_vendors: by name.
Directory(names) == SetToSortSeq({v \in DOMAIN names : names[v] # 0},
                                 LAMBDA v, w : names[v] < names[w])
Free(names) == 1..MaxNames \ {names[v] : v \in DOMAIN names}

NoReading == [step |-> "idle", rows |-> <<>>]

DesktopVendorsInit ==
  /\ shopNames \in [ToSet(Vendors0) \cup {"new"} -> 0..MaxNames]
  /\ \A v, w \in DOMAIN shopNames : shopNames[v] = shopNames[w] => v = w
  /\ shopNames["new"] = 0
  /\ Directory(shopNames) = Vendors0
  /\ table = Vendors0 /\ chosenRow = 0 /\ list = NoReading /\ spaces = <<>>
  /\ meant = "nobody" /\ space = "nobody"
  /\ slips = {} /\ unseen = {} /\ mistakes = {} /\ deskSteps = 0

Step == deskSteps < MaxDeskSteps /\ deskSteps' = deskSteps + 1

\* selected_vendor_id.
Selected == table[chosenRow]

\* refresh_marketplace: not while a list is being read.
ListIdle == list = NoReading
Refresh == IF ListIdle THEN list' = [NoReading EXCEPT !.step = "asked"] ELSE UNCHANGED list

ClickRefresh == /\ ListIdle /\ Step /\ Refresh
                /\ UNCHANGED <<shopNames, table, chosenRow, meant, space, spaces, slips,
                               unseen, mistakes>>

\* load_selected_vendor_workspace, when another row is selected, or by the filters and the
\* buttons of the pages, for the row that is.
LoadSpace(v) == /\ meant' = v /\ spaces' = Append(spaces, v) /\ slips' = {}
                /\ UNCHANGED <<shopNames, table, space, list, unseen, mistakes>>
SelectRow == \E r \in 1..Len(table) :
  r # chosenRow /\ Step /\ chosenRow' = r /\ LoadSpace(table[r])
ApplyFilters == chosenRow # 0 /\ Step /\ UNCHANGED chosenRow /\ LoadSpace(Selected)

-----------------------------------------------------------------------------
\* The server reads the vendors ...
AnswerList == /\ list.step = "asked" /\ unseen' = {}
              /\ list' = [step |-> "read", rows |-> Directory(shopNames)]
              /\ UNCHANGED <<shopNames, table, chosenRow, meant, space, spaces, slips,
                             mistakes, deskSteps>>

\* ... and the list is shown; the row that was selected is, whoever is in it now.
ShowList ==
  /\ list.step = "read"
  /\ table' = list.rows /\ list' = NoReading
  /\ slips' = IF chosenRow # 0 /\ list.rows[chosenRow] # Selected
              THEN slips \cup {"shifted"} ELSE slips
  /\ UNCHANGED <<shopNames, chosenRow, meant, space, spaces, unseen, mistakes, deskSteps>>

ListFails == /\ list.step = "asked" /\ list' = NoReading /\ unseen' = unseen \cup {"failed"}
             /\ UNCHANGED <<shopNames, table, chosenRow, meant, space, spaces, slips,
                            mistakes, deskSteps>>

\* A workspace comes, whichever vendor is selected by then.
ShowSpace == \E n \in 1..Len(spaces) :
  /\ space' = spaces[n] /\ spaces' = RemoveAt(spaces, n)
  /\ slips' = IF spaces[n] # meant /\ Last(spaces) # meant THEN slips \cup {"late"} ELSE slips
  /\ UNCHANGED <<shopNames, table, chosenRow, meant, list, unseen, mistakes, deskSteps>>

SpaceFails == \E n \in 1..Len(spaces) :
  /\ spaces' = RemoveAt(spaces, n)
  /\ slips' = IF spaces[n] = meant THEN slips \cup {"failed"} ELSE slips
  /\ UNCHANGED <<shopNames, table, chosenRow, meant, space, list, unseen, mistakes, deskSteps>>

-----------------------------------------------------------------------------
\* What was done to vendor v: a mistake when another one was meant.
Done(what, v) ==
  mistakes' = IF v = meant THEN mistakes
              ELSE mistakes \cup {[what |-> what, slips |-> slips,
                                   waiting |-> \E n \in 1..Len(spaces) : spaces[n] = meant]}

\* After a change of the page's own the list is read again, unless it is being read.
RereadVendors(names) ==
  /\ shopNames' = names /\ Refresh
  /\ unseen' = IF ~ListIdle /\ Directory(names) # Directory(shopNames)
               THEN unseen \cup {"skipped"} ELSE unseen

\* create_vendor.
CreateShop == \E name \in Free(shopNames) :
  /\ shopNames["new"] = 0 /\ Step
  /\ RereadVendors([shopNames EXCEPT !["new"] = name])
  /\ UNCHANGED <<table, chosenRow, meant, space, spaces, slips, mistakes>>

\* edit_vendor: the form is fetched and saved by the selected vendor's number.
EditShop == \E name \in Free(shopNames) :
  /\ chosenRow # 0 /\ Step /\ Done("edit", Selected)
  /\ RereadVendors([shopNames EXCEPT ![Selected] = name])
  /\ UNCHANGED <<table, chosenRow, meant, space, spaces, slips>>

\* apply_vendor_status and apply_vendor_lifecycle, of the selected vendor.
ChangeAccess == /\ chosenRow # 0 /\ Step /\ Done("access", Selected) /\ RereadVendors(shopNames)
                /\ UNCHANGED <<table, chosenRow, meant, space, spaces, slips>>

\* reset_vendor_user_password: of a user in the workspace, whichever vendor is selected.
ResetPassword == /\ chosenRow # 0 /\ space # "nobody" /\ Step /\ Done("password", space)
                 /\ UNCHANGED <<shopNames, table, chosenRow, meant, space, list, spaces,
                                slips, unseen>>

\* Another administrator adds or renames a vendor.
OthersChange == \E v \in DOMAIN shopNames, name \in Free(shopNames) :
  /\ Step /\ shopNames' = [shopNames EXCEPT ![v] = name]
  /\ unseen' = unseen \cup {"others"}
  /\ UNCHANGED <<table, chosenRow, meant, space, list, spaces, slips, mistakes>>

DesktopVendorsNext ==
  \/ ClickRefresh \/ SelectRow \/ ApplyFilters
  \/ AnswerList \/ ShowList \/ ListFails \/ ShowSpace \/ SpaceFails
  \/ CreateShop \/ EditShop \/ ChangeAccess \/ ResetPassword \/ OthersChange

DesktopVendorsSpec == DesktopVendorsInit /\ [][DesktopVendorsNext]_deskVars

-----------------------------------------------------------------------------
(* The rows are of their types. *)
DesktopVendorsTypeOK ==
  /\ ToSet(table) \subseteq DOMAIN shopNames /\ chosenRow \in 0..Len(table)
  /\ {meant, space} \subseteq DOMAIN shopNames \cup {"nobody"}
  /\ ToSet(spaces) \subseteq DOMAIN shopNames

(* Once every answer came, the workspace is the one of the vendor that was selected last and *)
(* whose row is selected, unless an older one came later, it failed, or a new list put *)
(* another vendor into the row (load_selected_vendor_workspace, refresh_marketplace). *)
WorkspaceMeant ==
  /\ chosenRow # 0 /\ spaces = <<>> => space = meant \/ slips \cap {"late", "failed"} # {}
  /\ chosenRow # 0 => Selected = meant \/ "shifted" \in slips

(* A vendor is edited, paused or stopped only when it was selected, unless a new list put it *)
(* into the row; a password is reset for a user of the vendor that was selected, unless its *)
(* workspace had not come yet, or came too early or not at all (reset_vendor_user_password). *)
DoneToMeant == \A m \in mistakes :
  IF m.what = "password" THEN m.waiting \/ m.slips \cap {"late", "failed"} # {}
                         ELSE "shifted" \in m.slips

(* The list shows the vendors there are once it has been read, unless somebody else changed *)
(* them since, or the reading after a change was skipped or failed (refresh_marketplace). *)
ListIsRead == list = NoReading => table = Directory(shopNames) \/ unseen # {}

DesktopVendorsSound == WorkspaceMeant /\ DoneToMeant /\ ListIsRead
=============================================================================
