------------------------------ MODULE Sessions ------------------------------
(***************************************************************************)
(* The refresh token of one user and the tabs of the browser that hold it   *)
(* in a shared cookie.  A refresh replaces the token; a tab that loses the  *)
(* race looks for what the winner got in Redis, for 10 seconds, polling     *)
(* five times.  A tab has one refresh under way at a time, and any number   *)
(* one after the other.                                                    *)
(*                                                                         *)
(* Tokens are numbered in the order of their issue.  The access token, sent *)
(* along in a cookie of its own and checked by auth_session_version, is     *)
(* left out, and so is the week after which a refresh token expires.       *)
(***************************************************************************)
EXTENDS Integers, FiniteSets

CONSTANTS Tabs,        \* tabs of the browser
          MaxTokens    \* bound: tokens ever issued

ASSUME TokensAssumption == MaxTokens \in Nat \ {0}

VARIABLES live,        \* users.refresh_token, 0 when NULL
          issued,      \* tokens issued so far
          grace,       \* the Redis entries: [old |-> token, new |-> its successor]
          cookie,      \* the refresh token in the browser, 0 when cleared
          tab,         \* [tab -> its request to refresh or to log out]
          loggedOut,   \* a logout took effect and nobody logged in since
          disturbed    \* something ended the session other than a refresh

sessionVars == <<live, issued, grace, cookie, tab, loggedOut, disturbed>>

Quiet == [at |-> "idle", has |-> 0, gets |-> 0]

SessionInit ==
  /\ live = 1 /\ issued = 1 /\ cookie = 1
  /\ grace = {}
  /\ tab = [t \in Tabs |-> Quiet]
  /\ loggedOut = FALSE /\ disturbed = FALSE

\* A 401 makes the tab refresh, and the user may log out: the request takes the
\* cookie of now.
SendRequest(t) ==
  /\ tab[t] = Quiet /\ cookie # 0
  /\ \E s \in {"sent", "leaving"} : tab' = [tab EXCEPT ![t] = [Quiet EXCEPT !.at = s, !.has = cookie]]
  /\ UNCHANGED <<live, issued, grace, cookie, loggedOut, disturbed>>

Goes(t, s) == tab' = [tab EXCEPT ![t].at = s]

\* refreshToken: SELECT ... WHERE refresh_token=$1.
ReadToken(t) ==
  /\ tab[t].at = "sent"
  /\ Goes(t, IF live = tab[t].has THEN "found" ELSE "lost")
  /\ UNCHANGED <<live, issued, grace, cookie, loggedOut, disturbed>>

\* The UPDATE, as if it named the user alone.
AnyToken(t) == TRUE

\* UPDATE ... WHERE id AND refresh_token = the token sent.
StillMine(t) == live = tab[t].has

RotateToken(t) ==
  /\ tab[t].at = "found"
  /\ IF StillMine(t)
     THEN /\ issued < MaxTokens
          /\ issued' = issued + 1 /\ live' = issued + 1
          /\ tab' = [tab EXCEPT ![t].at = "rotated", ![t].gets = issued + 1]
     ELSE Goes(t, "lost") /\ UNCHANGED <<live, issued>>
  /\ UNCHANGED <<grace, cookie, loggedOut, disturbed>>

\* The key of the entry, as if it were the token handed out.
KeyOfNew(t) == tab[t].gets

EntryKey(t) == tab[t].has

\* rememberRotatedRefreshToken; Redis may not answer.
Remember(t) ==
  /\ tab[t].at = "rotated"
  /\ \/ /\ grace' = {g \in grace : g.old # EntryKey(t)}
                     \cup {[old |-> EntryKey(t), new |-> tab[t].gets]}
        /\ UNCHANGED disturbed
     \/ UNCHANGED grace /\ disturbed' = TRUE
  /\ Goes(t, "answered")
  /\ UNCHANGED <<live, issued, cookie, loggedOut>>

\* getRecentlyRotatedRefreshTokenWithRetry, from the same device and address.
Reuse(t) ==
  /\ tab[t].at = "lost"
  /\ \E g \in grace : /\ g.old = tab[t].has
                      /\ tab' = [tab EXCEPT ![t].at = "answered", ![t].gets = g.new]
  /\ UNCHANGED <<live, issued, grace, cookie, loggedOut, disturbed>>

\* The same from another address or device: the user's session is ended.
ReuseElsewhere(t) ==
  /\ tab[t].at = "lost"
  /\ \E g \in grace : g.old = tab[t].has
  /\ live' = 0 /\ disturbed' = TRUE
  /\ Goes(t, "answered")
  /\ UNCHANGED <<issued, grace, cookie, loggedOut>>

\* No entry: the winner, if there is one, took longer than the five polls, or the
\* entry is gone.  The answer clears the cookies.
GiveUpPolling(t) ==
  /\ tab[t].at = "lost"
  /\ \A g \in grace : g.old # tab[t].has
  /\ disturbed' = (disturbed \/ \E u \in Tabs : tab[u].at = "rotated" /\ tab[u].has = tab[t].has)
  /\ Goes(t, "answered")
  /\ UNCHANGED <<live, issued, grace, cookie, loggedOut>>

\* logout, which has no session middleware: the row that has the cookie's token.
Logout(t) ==
  /\ tab[t].at = "leaving"
  /\ IF live = tab[t].has THEN live' = 0 /\ loggedOut' = TRUE ELSE UNCHANGED <<live, loggedOut>>
  /\ disturbed' = TRUE
  /\ Goes(t, "answered")
  /\ UNCHANGED <<issued, grace, cookie>>

\* The answer arrives: its Set-Cookie replaces or clears the browser's token.
Receive(t) ==
  /\ tab[t].at = "answered"
  /\ cookie' = tab[t].gets
  /\ tab' = [tab EXCEPT ![t] = Quiet]
  /\ UNCHANGED <<live, issued, grace, loggedOut, disturbed>>

\* createAuthenticatedSession of a login: in this browser, or on another device.
Login ==
  /\ issued < MaxTokens
  /\ issued' = issued + 1 /\ live' = issued + 1
  /\ cookie' \in {cookie, issued + 1}
  /\ loggedOut' = FALSE /\ disturbed' = TRUE
  /\ UNCHANGED <<grace, tab>>

\* The 10 seconds of an entry, the oldest first.  No request takes as long, so none
\* that needs the entry is under way; a browser that still holds the old token,
\* from an answer overtaken by a later refresh, has lost its session.
GraceEnds ==
  /\ \E g \in grace :
       /\ \A h \in grace : g.new <= h.new
       /\ \A t \in Tabs : tab[t].has # g.old
       /\ grace' = grace \ {g}
       /\ disturbed' = (disturbed \/ cookie = g.old)
  /\ UNCHANGED <<live, issued, cookie, tab, loggedOut>>

SessionNext ==
  \/ \E t \in Tabs : \/ SendRequest(t) \/ ReadToken(t) \/ RotateToken(t) \/ Remember(t)
                     \/ Reuse(t) \/ ReuseElsewhere(t) \/ GiveUpPolling(t) \/ Logout(t) \/ Receive(t)
  \/ Login \/ GraceEnds

SessionSpec == SessionInit /\ [][SessionNext]_sessionVars

-----------------------------------------------------------------------------
SessionTypeOK ==
  /\ issued \in 1..MaxTokens /\ live \in 0..issued /\ cookie \in 0..issued
  /\ \A g \in grace : g.old \in 1..issued /\ g.new \in 1..issued
  /\ \A t \in Tabs : /\ tab[t].at \in {"idle", "sent", "leaving", "found", "lost", "rotated", "answered"}
                     /\ tab[t].has \in 0..issued /\ tab[t].gets \in 0..issued
  /\ loggedOut \in BOOLEAN /\ disturbed \in BOOLEAN

\* The tokens a holder of token n gets from the entries in Redis.
Onward(n) ==
  {m \in 1..MaxTokens :
     \E path \in SUBSET grace :
       /\ \E g \in path : g.old = n
       /\ \E g \in path : g.new = m
       /\ \A g \in path : g.new = m \/ \E h \in path : h.old = g.new}

\* Tabs that refresh with one token at once do not sign the user out: while nobody
\* logged in or out and Redis answered in time, the browser's token, or what Redis
\* gives for it, is the live one.
TabsStaySignedIn ==
  (~disturbed /\ \A t \in Tabs : tab[t] = Quiet) => cookie = live \/ live \in Onward(cookie)

\* "Logged out successfully": no refresh that was under way when the user logged
\* out, nor one that comes late, gives the user a session again.
LogoutSticks == loggedOut => live = 0
=============================================================================
