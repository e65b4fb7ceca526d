-------------------------------- MODULE Throttle --------------------------------
(***************************************************************************)
(* The brake on attempts.  A login is counted under the account and the    *)
(* device, when it fails; a registration, a reset and an activation under  *)
(* the account or link and under the address they come from, whatever      *)
(* comes of them.  Whoever is counted login_attempt_limit times within a   *)
(* window is refused for a while.  A request asks whether it is refused    *)
(* when it begins and is counted when it ends, so that those which overlap *)
(* may all still be answered; the count itself is one statement.           *)
(***************************************************************************)
EXTENDS Integers, Sequences, FiniteSets

CONSTANTS AttemptLimit, \* login_attempt_limit
          Window,       \* login_attempt_window_minutes
          Block,        \* login_block_minutes
          Retention,    \* auth_throttle_retention_days
          LastMinute,   \* bound: minutes
          MaxTries,     \* bound: requests that are let in
          MaxUnderway   \* bound: requests at once

ASSUME ThrottleAssumption ==
  /\ {Retention, LastMinute, MaxTries, MaxUnderway} \subseteq Nat
  /\ AttemptLimit \in Nat \ {0, 1} /\ Window \in Nat \ {0} /\ Block \in Nat \ {0}
  /\ Retention >= Window /\ Retention >= Block

VARIABLES minute,
          throttles, \* login_throttles, by scope
          underway,  \* how many requests of a kind were let in and have not ended
          counted,   \* history: the attempts counted in a scope since it was last cleared
          tries      \* how many were let in

throttleVars == <<minute, throttles, underway, counted, tries>>

-----------------------------------------------------------------------------
\* auth_throttle_scope_keys, login_throttle_scope_key: two accounts that register from one
\* address, and one that signs in.
ScopesOf == [login |-> {"device"}, formA |-> {"a", "address"}, formB |-> {"b", "address"}]
AttemptKinds == DOMAIN ScopesOf
Scopes == UNION {ScopesOf[k] : k \in AttemptKinds}
Never == -1

\* check_auth_throttle
Blocked(scopes) == \E s \in scopes \cap DOMAIN throttles : throttles[s].until > minute

ThrottleInit == /\ minute = 0 /\ throttles = << >> /\ underway = [k \in AttemptKinds |-> 0]
                /\ counted = [s \in Scopes |-> <<>>] /\ tries = 0

Tick == /\ minute < LastMinute /\ minute' = minute + 1
        /\ UNCHANGED <<throttles, underway, counted, tries>>

\* One that is refused, with 429, is not counted.
LetIn(k) == /\ tries < MaxTries /\ tries' = tries + 1 /\ underway[k] < MaxUnderway
            /\ ~Blocked(ScopesOf[k])
            /\ underway' = [underway EXCEPT ![k] = @ + 1]
            /\ UNCHANGED <<minute, throttles, counted>>

-----------------------------------------------------------------------------
Fresh == [count |-> 1, since |-> minute, until |-> Never, updated |-> minute]

\* ON CONFLICT DO UPDATE: the window is over, or the row counts on.
Again(row) ==
  IF row.since <= minute - Window THEN Fresh
  ELSE [row EXCEPT !.count = @ + 1, !.updated = minute,
                   !.until = IF row.count + 1 >= AttemptLimit THEN minute + Block ELSE @]

\* The rows that are kept: what was not touched for so long is deleted with every count and
\* every new session.
Recent == {s \in DOMAIN throttles : throttles[s].updated >= minute - Retention}

Ends(k) == underway[k] > 0 /\ underway' = [underway EXCEPT ![k] = @ - 1]

\* record_auth_throttle_attempt, which is committed whatever the request is answered.
CountAttempt(k) ==
  /\ Ends(k)
  /\ throttles' = [s \in Recent \cup ScopesOf[k] |->
       IF s \notin ScopesOf[k] THEN throttles[s]
       ELSE IF s \in Recent THEN Again(throttles[s]) ELSE Fresh]
  /\ counted' = [s \in Scopes |-> IF s \notin ScopesOf[k] THEN counted[s]
       ELSE Append(counted[s], [at |-> minute, overtaken |-> Blocked({s})])]
  /\ UNCHANGED <<minute, tries>>

\* clear_auth_throttle: the password was right and the account is active.
SignedIn ==
  /\ Ends("login")
  /\ throttles' = [s \in Recent \ ScopesOf["login"] |-> throttles[s]]
  /\ counted' = [s \in Scopes |-> IF s \in ScopesOf["login"] THEN <<>> ELSE counted[s]]
  /\ UNCHANGED <<minute, tries>>

\* The account is stopped: 403, and the request is rolled back.
Stopped == Ends("login") /\ UNCHANGED <<minute, throttles, counted, tries>>

ThrottleNext == Tick \/ SignedIn \/ Stopped \/ \E k \in AttemptKinds : LetIn(k) \/ CountAttempt(k)
ThrottleSpec == ThrottleInit /\ [][ThrottleNext]_throttleVars

-----------------------------------------------------------------------------
(* A row counts something, and a block is never longer than Block. *)
ThrottleTypeOK ==
  /\ minute \in 0..LastMinute /\ tries \in 0..MaxTries
  /\ DOMAIN throttles \subseteq Scopes
  /\ \A s \in DOMAIN throttles : /\ throttles[s].count >= 1
                                 /\ throttles[s].until <= minute + Block

AttemptsIn(s, Test(_)) ==
  Cardinality({i \in DOMAIN counted[s] : Test(counted[s][i])})

(* Who is refused has used up the limit within one window of his own: no attempt that was *)
(* refused, and none from before the window, is held against him. *)
RefusedForCause == \A s \in DOMAIN throttles : Blocked({s}) =>
  LET InWindow(a) == a.at \in throttles[s].since..(throttles[s].since + Window - 1)
  IN  AttemptsIn(s, InWindow) >= AttemptLimit

(* However the attempts fall around the end of a window, fewer than 2 * limit - 1 are *)
(* answered in the time of one, but for those already let in when the limit was reached. *)
BrakeHolds == Block >= Window => \A s \in Scopes :
  LET Lately(a) == a.at > minute - Window /\ ~a.overtaken
  IN  AttemptsIn(s, Lately) < 2 * AttemptLimit - 1

ThrottleSound == RefusedForCause /\ BrakeHolds
=============================================================================
