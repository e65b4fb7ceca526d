------------------------------ MODULE AuthSessions ------------------------------
(***************************************************************************)
(* The sessions of one account: pairs of an access session and a refresh   *)
(* token, issued together by a login or by the rotation of the pair before *)
(* it in the same family, and the client application that holds one of     *)
(* them.  The client is the desktop program, whose threads share a lock    *)
(* around a refresh and which keeps the token in the keyring of the        *)
(* system, or a browser, whose tabs share nothing but the cookies.         *)
(*                                                                         *)
(* Whatever cuts an account off (a password reset or change, a pause)      *)
(* closes its sessions and revokes its tokens by two statements, each of   *)
(* which only sees the rows that are committed when it starts; a login or  *)
(* a rotation in progress has rows no one else sees yet.  Statements wait  *)
(* for rows that others have written; where two wait for each other the    *)
(* database fails one of them, which FailCall and FailCut stand for.       *)
(*                                                                         *)
(* Left out: the expiry of refresh tokens, whose presentation only fails.  *)
(***************************************************************************)
EXTENDS Integers, Sequences, FiniteSets

CONSTANTS Callers,   \* threads of the desktop program, or tabs of the browser
          MaxPairs,  \* bound: pairs issued
          MaxAsks,   \* bound: calls of the client
          MaxCuts    \* bound: cut-offs

ASSUME AuthAssumption == MaxPairs \in Nat /\ MaxAsks \in Nat /\ MaxCuts \in Nat

VARIABLES app,      \* which client it is
          pairs,    \* auth_sessions and auth_refresh_tokens, in the order they were committed
          allowed,  \* ensure_login_allowed: the account is active
          held,     \* the pair the client holds: in memory, or in the cookies; 0 for none
          saved,    \* the pair whose token is in the keyring; 0 for none
          asked,    \* what every caller has asked the server
          asks,     \* how many calls there were
          cut,      \* the transaction that cuts the account off
          cuts,     \* how many have
          dead,     \* history: families that were revoked
          reused,   \* history: a token was presented again after its rotation
          crashed   \* history: the client crashed

authVars == <<app, pairs, allowed, held, saved, asked, asks, cut, cuts, dead, reused, crashed>>

-----------------------------------------------------------------------------
Numbers == 1..Len(pairs)
PairRow == [family: 1..MaxPairs, used: BOOLEAN, revoked: BOOLEAN, open: BOOLEAN,
            since: 0..MaxCuts, lapped: BOOLEAN, slipped: BOOLEAN]

Unspent(n) == ~pairs[n].used /\ ~pairs[n].revoked
Usable(n) == pairs[n].open \/ Unspent(n)

Quiet == [step |-> "quiet"]
NoCut == [step |-> "none"]

\* A call: the pair it sent or was given, the pairs it is about to revoke, those whose
\* token it has written, and whether the client still waits for it.
Asking(kind, step, n) ==
  [kind |-> kind, step |-> step, pair |-> n, listed |-> {}, wrote |-> {}, lost |-> FALSE,
   since |-> cuts, lapped |-> FALSE, again |-> FALSE]
AtServer == {c \in Callers : asked[c].step \in {"sent", "working", "consumed", "listed"}}

\* The token of a pair is not locked by another call.
TokenFree(c, n) == \A d \in AtServer \ {c} : n \notin asked[d].wrote
SessionFree(n) == cut.step = "tokens" => n \notin cut.closed

\* An answer, which is lost when nobody waits for it.
Answer(c, step, n) == asked' = [asked EXCEPT ![c] =
  IF @.lost THEN Quiet ELSE [@ EXCEPT !.step = step, !.pair = n, !.listed = {}, !.wrote = {}]]

-----------------------------------------------------------------------------
AuthInit == /\ app \in {"desktop", "browser"} /\ pairs = <<>> /\ allowed = TRUE
            /\ held = 0 /\ saved = 0
            /\ asked = [c \in Callers |-> Quiet] /\ asks = 0 /\ cut = NoCut /\ cuts = 0
            /\ dead = {} /\ reused = FALSE /\ crashed = FALSE

client == <<app, held, saved, crashed>>
server == <<pairs, allowed, cut, cuts, dead, reused>>

Ask(c, call) == /\ asks < MaxAsks /\ asks' = asks + 1
                /\ asked' = [asked EXCEPT ![c] = call]

\* The user signs in; the server verifies the password and the account.
AskLogin(c) == /\ asked[c] = Quiet /\ allowed
               /\ held # 0 => ~Usable(held)
               /\ Ask(c, Asking("login", "working", 0))
               /\ UNCHANGED <<client, server>>

\* refresh_current_session, _refresh_after_unauthorized: under the lock of the program; a
\* tab knows only its own.
MayRefresh(c) == app = "desktop" => \A d \in Callers : /\ asked[d] # Quiet
                                                       /\ asked[d].kind = "refresh"
                                                       => asked[d].lost

\* The client refreshes what it holds, or, when it starts, what it had saved.
AskRefresh(c) == /\ asked[c] = Quiet /\ MayRefresh(c)
                 /\ held # 0 \/ saved # 0
                 /\ Ask(c, Asking("refresh", "sent", IF held # 0 THEN held ELSE saved))
                 /\ UNCHANGED <<client, server>>

\* revoke_refresh_family: the rows it lists.
FamilyOf(n) == {m \in Numbers : pairs[m].family = pairs[n].family}

\* The user signs out.  With a session that is accepted its token is written at once; the
\* family is listed then.
AskLogout(c) == \E accepted \in BOOLEAN :
  /\ asked[c] = Quiet /\ held # 0
  /\ accepted => pairs[held].open /\ allowed
  /\ accepted => TokenFree(c, held)
  /\ Ask(c, [Asking("logout", "listed", held) EXCEPT !.listed = FamilyOf(held),
                                                     !.wrote = IF accepted THEN {held} ELSE {}])
  /\ UNCHANGED <<client, server>>

-----------------------------------------------------------------------------
\* issue_session.
Pair(family, since, lapped, slipped) ==
  [family |-> family, used |-> FALSE, revoked |-> FALSE, open |-> TRUE, since |-> since,
   lapped |-> lapped \/ cut # NoCut, slipped |-> slipped]

CommitLogin(c) == LET a == asked[c] IN
  /\ a.step = "working" /\ Len(pairs) < MaxPairs
  /\ pairs' = Append(pairs, Pair(Len(pairs) + 1, a.since, a.lapped, FALSE))
  /\ Answer(c, "answered", Len(pairs) + 1)
  /\ UNCHANGED <<client, allowed, cut, cuts, dead, reused, asks>>

\* rotate_refresh_token: the condition of its UPDATE.
MayConsume(n) == ~pairs[n].used /\ ~pairs[n].revoked

\* The token is used; one that cannot be, or of an account that is not active, takes its
\* family with it.
ConsumeToken(c) == LET n == asked[c].pair IN
  /\ asked[c].step = "sent" /\ TokenFree(c, n)
  /\ IF MayConsume(n) /\ allowed
     THEN asked' = [asked EXCEPT ![c].step = "consumed", ![c].wrote = {n},
                                 ![c].again = pairs[n].family \in dead]
     ELSE asked' = [asked EXCEPT ![c].step = "listed", ![c].listed = FamilyOf(n),
                                 ![c].wrote = IF MayConsume(n) THEN {n} ELSE {}]
  /\ reused' = (reused \/ pairs[n].used)
  /\ UNCHANGED <<client, pairs, allowed, cut, cuts, dead, asks>>

\* The session of the pair is closed, the next pair of the family issued.
CommitRotation(c) ==
  LET a == asked[c]
      family == pairs[a.pair].family
      overlapped == \/ family \in dead /\ ~a.again
                    \/ \E d \in Callers : /\ asked[d] # Quiet
                                          /\ a.pair \in asked[d].listed
                                          /\ asked[d].step = "listed"
  IN /\ a.step = "consumed" /\ Len(pairs) < MaxPairs
     /\ SessionFree(a.pair)
     /\ pairs' = Append([pairs EXCEPT ![a.pair].used = TRUE, ![a.pair].open = FALSE],
                        Pair(family, pairs[a.pair].since, pairs[a.pair].lapped \/ a.lapped,
                             pairs[a.pair].slipped \/ overlapped))
     /\ Answer(c, "answered", Len(pairs) + 1)
     /\ UNCHANGED <<client, allowed, cut, cuts, dead, reused, asks>>

\* The pairs that were listed are revoked, after whoever else is writing them.
CommitRevocation(c) ==
  LET a == asked[c]
      spent == IF a.kind = "refresh" THEN a.wrote ELSE {}
  IN /\ a.step = "listed"
     /\ \A n \in a.listed : TokenFree(c, n) /\ SessionFree(n)
     /\ pairs' = [n \in Numbers |->
                   IF n \in a.listed
                   THEN [pairs[n] EXCEPT !.revoked = TRUE, !.open = FALSE, !.used = @ \/ n \in spent]
                   ELSE pairs[n]]
     /\ dead' = dead \cup {pairs[a.pair].family}
     /\ Answer(c, IF a.kind = "logout" THEN "answered" ELSE "refused", a.pair)
     /\ UNCHANGED <<client, allowed, cut, cuts, reused, asks>>

\* A request that failed, or never arrived, is rolled back; the client has given it up.
FailCall(c) == /\ c \in AtServer /\ asked[c].lost
               /\ asked' = [asked EXCEPT ![c] = Quiet]
               /\ UNCHANGED <<client, server, asks>>

-----------------------------------------------------------------------------
\* _discard_local_session after a refresh that failed for whatever reason, and after a
\* sign-out; a browser loses its cookies only by a sign-out that the server answered.
Forgets(kind) == IF app = "desktop" /\ kind # "login" THEN held' = 0 /\ saved' = 0
                 ELSE UNCHANGED <<held, saved>>

\* install_session: keyring, then memory; or the cookies.  What was answered to a sign-out
\* clears them.
TakeAnswer(c) == LET a == asked[c] IN
  /\ a.step = "answered"
  /\ IF a.kind = "logout" THEN held' = 0 /\ saved' = 0
     ELSE held' = a.pair /\ saved' = IF app = "desktop" THEN a.pair ELSE 0
  /\ asked' = [asked EXCEPT ![c] = Quiet]
  /\ UNCHANGED <<app, crashed, server, asks>>

TakeRefusal(c) == LET a == asked[c] IN
  /\ a.step = "refused"
  /\ Forgets(a.kind)
  /\ asked' = [asked EXCEPT ![c] = Quiet]
  /\ UNCHANGED <<app, crashed, server, asks>>

\* The client waits no longer; the server may still finish.
GiveUp(c) == /\ c \in AtServer /\ ~asked[c].lost
             /\ Forgets(asked[c].kind)
             /\ asked' = [asked EXCEPT ![c].lost = TRUE]
             /\ UNCHANGED <<app, crashed, server, asks>>

\* The desktop program dies; the keyring is left.
CrashClient == /\ app = "desktop" /\ ~crashed
               /\ held' = 0 /\ crashed' = TRUE
               /\ asked' = [c \in Callers |-> IF c \in AtServer THEN [asked[c] EXCEPT !.lost = TRUE]
                                              ELSE Quiet]
               /\ UNCHANGED <<app, saved, server, asks>>

-----------------------------------------------------------------------------
\* Faulty: the refresh tokens are forgotten.
TokensToRevokeNone(keep) == {}

\* revoke_user_sessions: its second statement.
TokensToRevoke(keep) == {n \in Numbers : ~pairs[n].revoked} \ {keep}

\* A password is reset, by its owner or the staff, or changed from an open session, which
\* is kept; an account is paused, rejected or renamed.
BeginCut == \E kind \in {"password", "pause"}, keep \in {0, held} :
  /\ cut = NoCut /\ cuts < MaxCuts
  /\ keep # 0 => kind = "password" /\ pairs[keep].open
  /\ cut' = [step |-> "sessions", kind |-> kind, keep |-> keep,
             closed |-> {n \in Numbers : pairs[n].open} \ {keep}, listed |-> {}]
  /\ UNCHANGED <<client, pairs, allowed, asked, cuts, dead, reused, asks>>

CutTokens == /\ cut.step = "sessions"
             /\ cut' = [cut EXCEPT !.step = "tokens", !.listed = TokensToRevoke(cut.keep)]
             /\ UNCHANGED <<client, pairs, allowed, asked, cuts, dead, reused, asks>>

CommitCut ==
  /\ cut.step = "tokens"
  /\ \A n \in cut.listed, c \in AtServer : n \notin asked[c].wrote
  /\ pairs' = [n \in Numbers |->
                [pairs[n] EXCEPT !.open = @ /\ n \notin cut.closed,
                                 !.revoked = @ \/ n \in cut.listed,
                                 !.since = IF n = cut.keep THEN cuts + 1 ELSE @]]
  /\ asked' = [c \in Callers |-> IF c \in AtServer THEN [asked[c] EXCEPT !.lapped = TRUE]
                                 ELSE asked[c]]
  /\ allowed' = (allowed /\ cut.kind # "pause")
  /\ cut' = NoCut /\ cuts' = cuts + 1
  /\ UNCHANGED <<client, dead, reused, asks>>

FailCut == /\ cut # NoCut /\ cut' = NoCut
           /\ UNCHANGED <<client, pairs, allowed, asked, cuts, dead, reused, asks>>

\* The account is activated again.
Reactivate == /\ ~allowed /\ allowed' = TRUE
              /\ UNCHANGED <<client, pairs, asked, cut, cuts, dead, reused, asks>>

AuthNext == \/ BeginCut \/ CutTokens \/ CommitCut \/ FailCut \/ Reactivate \/ CrashClient
            \/ \E c \in Callers :
                 \/ AskLogin(c) \/ AskRefresh(c) \/ AskLogout(c)
                 \/ CommitLogin(c) \/ ConsumeToken(c) \/ CommitRotation(c) \/ CommitRevocation(c)
                 \/ FailCall(c) \/ TakeAnswer(c) \/ TakeRefusal(c) \/ GiveUp(c)
AuthSpec == AuthInit /\ [][AuthNext]_authVars

-----------------------------------------------------------------------------
(* The state is what the tables, the calls and the client can hold. *)
AuthTypeOK ==
  /\ pairs \in Seq(PairRow) /\ Len(pairs) <= MaxPairs /\ allowed \in BOOLEAN
  /\ held \in 0..Len(pairs) /\ saved \in 0..Len(pairs) /\ cuts \in 0..MaxCuts
  /\ app = "browser" => saved = 0
  /\ \A c \in Callers : asked[c] # Quiet => /\ asked[c].pair \in 0..Len(pairs)
                                            /\ asked[c].listed \cup asked[c].wrote \subseteq Numbers

(* However refreshes, sign-outs and cut-offs overlap: of every family one token at most *)
(* can still be used, so that a stolen token and the one it was stolen from never live on *)
(* side by side (rotate_refresh_token). *)
OneHeir == \A n, m \in Numbers : Unspent(n) /\ Unspent(m) /\ n # m
                                 => pairs[n].family # pairs[m].family

(* Once the account was cut off, no pair of an earlier login is of any use, unless the login *)
(* or a rotation of it overlapped the cut-off: not even when the account is active again *)
(* (revoke_user_sessions). *)
CutOffHolds == \A n \in Numbers : Usable(n) /\ pairs[n].since < cuts => pairs[n].lapped

(* Once a family was revoked, by a sign-out or because a token was presented again, nothing *)
(* of it is of any use, unless a rotation overlapped (revoke_refresh_family). *)
FamilyEnds == \A n \in Numbers : Usable(n) /\ pairs[n].family \in dead => pairs[n].slipped

(* The desktop program never presents a token again that was rotated, however its threads *)
(* refresh and whatever answers are lost, unless it was killed in the middle: it does not *)
(* take its own user for a thief (_refresh_lock, _discard_local_session). *)
NoFalseAlarm == reused => app = "browser" \/ crashed

(* What was cut off, signed out, rotated or stolen is of no use, but for the named *)
(* exceptions. *)
AuthSound == OneHeir /\ CutOffHolds /\ FamilyEnds /\ NoFalseAlarm
=============================================================================
