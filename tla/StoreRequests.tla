------------------------------ MODULE StoreRequests ------------------------------
(***************************************************************************)
(* One call of the store, and how often it is tried: in either REST mode,  *)
(* with the keys sent either way, and several times each while the network *)
(* or a gateway fails.  The call makes something in the store (a product,  *)
(* an image), so a try whose answer is lost must be told from one that     *)
(* never arrived, and cannot be.                                           *)
(***************************************************************************)
EXTENDS FiniteSets, Integers, Sequences

CONSTANTS RemoteAttempts,  \* REMOTE_RETRY_ATTEMPTS
          MaxRequests      \* bound: calls

ASSUME StoreRequestsAssumption == RemoteAttempts \in Nat \ {0} /\ MaxRequests \in Nat

VARIABLES spoken,     \* the REST modes the store understands
          learned,    \* the mode in the settings: none, or one element
          ladder,     \* the call that is tried: the modes still to try, how the keys are sent, the
                      \*   number of the attempt, and what was heard so far
          report,     \* what the caller was told last
          performed,  \* history: how often the store did what the call asks
          unheard,    \* history: how often it did without our hearing so
          heard,      \* history: the answers that arrived
          callsMade      \* calls that were begun

requestVars == <<spoken, learned, ladder, report, performed, unheard, heard, callsMade>>

-----------------------------------------------------------------------------
Modes == <<"pretty", "query">>
ModeSet == {"pretty", "query"}
Auths == {"basic", "query"}
\* An error of the network or of a gateway; before the store acted, or after.
Faults == {"network", "gateway"}
Reports == {"none", "ok", "limited", "denied", "missing", "gateway", "unreachable"}

NoLadder == [modes |-> <<>>, auth |-> "basic", attempt |-> 0, denied |-> FALSE, answered |-> FALSE]
Calling == ladder.modes # <<>>

\* woocommerce_rest_mode_candidates: the mode that worked last comes first.
Candidates == IF learned = {} THEN Modes
              ELSE LET first == CHOOSE m \in learned : TRUE
                   IN  <<first, CHOOSE m \in ModeSet : m # first>>

StoreRequestsInit ==
  /\ spoken \in SUBSET ModeSet \ {{}} /\ learned = {} /\ ladder = NoLadder /\ report = "none"
  /\ performed = 0 /\ unheard = 0 /\ heard = {} /\ callsMade = 0

AskStore ==
  /\ ~Calling /\ callsMade < MaxRequests /\ callsMade' = callsMade + 1
  /\ ladder' = [NoLadder EXCEPT !.modes = Candidates, !.attempt = 1]
  /\ report' = "none" /\ performed' = 0 /\ unheard' = 0 /\ heard' = {}
  /\ UNCHANGED <<spoken, learned>>

Told(what) == ladder' = NoLadder /\ report' = what

\* make_woocommerce_request, once a mode was tried with one way to send the keys: `next' is whether
\* the other way is tried, and otherwise it is the turn of the next mode.
GoOn(next, denied, answered) ==
  LET left == IF next /\ ladder.auth = "basic" THEN ladder.modes ELSE Tail(ladder.modes)
  IN  IF left = <<>>
      THEN Told(IF denied THEN "denied" ELSE IF answered THEN "missing" ELSE "unreachable")
      ELSE /\ ladder' = [modes |-> left, attempt |-> 1, denied |-> denied, answered |-> answered,
                         auth |-> IF next /\ ladder.auth = "basic" THEN "query" ELSE "basic"]
           /\ UNCHANGED report

\* The store does what is asked, or would, but the network or a gateway fails
\* (_remote_request_with_retry); a gateway's answer is the caller's after the last attempt.
TryFails == \E fault \in Faults, acted \in BOOLEAN :
  /\ Calling
  /\ acted => Head(ladder.modes) \in spoken
  /\ performed' = performed + (IF acted THEN 1 ELSE 0)
  /\ unheard' = unheard + (IF acted THEN 1 ELSE 0)
  /\ IF ladder.attempt < RemoteAttempts
     THEN ladder' = [ladder EXCEPT !.attempt = @ + 1] /\ UNCHANGED report
     ELSE IF fault = "gateway" THEN Told("gateway") ELSE GoOn(TRUE, ladder.denied, ladder.answered)
  /\ UNCHANGED <<spoken, learned, heard, callsMade>>

\* The store answers; in a mode it does not understand, that there is nothing here.
TryOk ==
  /\ Calling /\ Head(ladder.modes) \in spoken
  /\ performed' = performed + 1 /\ learned' = {Head(ladder.modes)} /\ heard' = heard \cup {"ok"}
  /\ Told("ok")
  /\ UNCHANGED <<spoken, unheard, callsMade>>
TryLimited ==
  /\ Calling /\ heard' = heard \cup {"limited"}
  /\ Told("limited")
  /\ UNCHANGED <<spoken, learned, performed, unheard, callsMade>>
TryDenied ==
  /\ Calling /\ heard' = heard \cup {"denied"}
  /\ GoOn(TRUE, TRUE, TRUE)
  /\ UNCHANGED <<spoken, learned, performed, unheard, callsMade>>
TryMissing ==
  /\ Calling /\ heard' = heard \cup {"missing"}
  /\ GoOn(FALSE, ladder.denied, TRUE)
  /\ UNCHANGED <<spoken, learned, performed, unheard, callsMade>>

\* The store's administrator changes the permalinks.
ChangePermalinks == \E modes \in SUBSET ModeSet \ {{}} :
  /\ ~Calling /\ spoken' = modes /\ modes # spoken
  /\ UNCHANGED <<learned, ladder, report, performed, unheard, heard, callsMade>>

StoreRequestsNext == AskStore \/ TryFails \/ TryOk \/ TryLimited \/ TryDenied \/ TryMissing
                       \/ ChangePermalinks
StoreRequestsSpec == StoreRequestsInit /\ [][StoreRequestsNext]_requestVars

-----------------------------------------------------------------------------
(* The call stands on a rung of the ladder. *)
StoreRequestsTypeOK ==
  /\ spoken \subseteq ModeSet /\ learned \subseteq ModeSet /\ Cardinality(learned) <= 1
  /\ Len(ladder.modes) <= 2 /\ ladder.auth \in Auths /\ ladder.attempt \in 0..RemoteAttempts
  /\ report \in Reports /\ heard \subseteq {"ok", "limited", "denied", "missing"}

(* The store did what a call asks once and no more, but for the times when that was not heard, *)
(* and at most once for each way to ask (make_woocommerce_request). *)
OnceUnlessUnheard == /\ performed <= unheard + 1
                     /\ performed <= RemoteAttempts * 2 * Cardinality(ModeSet)

(* A call that failed did nothing, and one that was not permitted or is not known was answered *)
(* so, but for what was not heard; and after an answer that asks to wait nothing more is sent. *)
FailedDidNothing ==
  /\ ~Calling /\ report # "ok" => performed = unheard
  /\ report = "ok" => performed = unheard + 1
  /\ report = "denied" => "denied" \in heard
  /\ report = "missing" => heard = {"missing"}
  /\ report = "unreachable" => heard = {}
  /\ "limited" \in heard => report = "limited"

StoreRequestsSound == OnceUnlessUnheard /\ FailedDidNothing
=============================================================================
