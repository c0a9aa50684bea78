------------------------------ MODULE Sessions ------------------------------
(***************************************************************************)
(* The pages of one browser, the pair of tokens they share in local        *)
(* storage, and the refresh tokens the server keeps.  A request that is    *)
(* answered 401 waits for a refresh, of which a page runs one at a time,   *)
(* and is sent once more.  On the server a refresh locks the row of the    *)
(* token it is given; transactions of different pages interleave.          *)
(*                                                                         *)
(* The access and the refresh token of an answer are stored and cleared    *)
(* together, so a pair is one number.  How old an access token is is not   *)
(* kept: the server may find any of them expired.                          *)
(***************************************************************************)
EXTENDS Integers, FiniteSets

CONSTANTS
    Page,        \* tabs of the browser
    Call,        \* requests to the API
    Home,        \* the page that makes each call
    MaxIssued    \* bound: pairs of tokens ever issued

ASSUME HomeAssumption == Home \in [Call -> Page]
ASSUME MaxIssuedAssumption == MaxIssued \in Nat

Token == 1 .. MaxIssued
Nothing == 0    \* no token

VARIABLES
    stored,   \* the pair in local storage
    issued,   \* how many pairs there are
    live,     \* refresh tokens that are not revoked
    login,    \* the first pair of the sign-in a token descends from
    at,       \* what each page shows
    call,     \* the progress of each call
    refresh,  \* the progress of each page's refresh
    offered,  \* the refresh token this load of the page presents, or last did
    granted,  \* what the server does with it: the pair issued, the rows to revoke
    ended     \* the refresh token each page's sign-out revokes

server == <<issued, live, login>>
rotation == <<refresh, offered, granted>>
vars == <<stored, server, at, call, rotation, ended>>

TypeOK ==
    /\ stored \in Token \cup {Nothing}
    /\ issued \in 0 .. MaxIssued
    /\ live \subseteq Token
    /\ login \in [Token -> Token \cup {Nothing}]
    /\ at \in [Page -> {"login", "app"}]
    /\ call \in [Call -> {"idle", "sent", "waiting"}]
    /\ refresh \in [Page -> {"none", "posted", "rotating", "revoking", "granted", "refused"}]
    /\ offered \in [Page -> Token \cup {Nothing}]
    /\ granted \in [Page -> SUBSET Token]
    /\ ended \in [Page -> Token \cup {Nothing}]
    \* A refresh presents a token.
    /\ \A p \in Page : refresh[p] # "none" => offered[p] \in Token

Init ==
    /\ stored = Nothing
    /\ issued = 0
    /\ live = {}
    /\ login = [n \in Token |-> Nothing]
    /\ at = [p \in Page |-> "login"]
    /\ call = [c \in Call |-> "idle"]
    /\ refresh = [p \in Page |-> "none"]
    /\ offered = [p \in Page |-> Nothing]
    /\ granted = [p \in Page |-> {}]
    /\ ended = [p \in Page |-> Nothing]

-----------------------------------------------------------------------------
(* What a page does to local storage, and what a load of it forgets. *)

IsLoggedIn == stored # Nothing

SetTokens(n) == stored' = n

ClearTokens == stored' = Nothing

\* refreshPromise is null again.
ForgetRefresh(p) ==
    /\ refresh' = [refresh EXCEPT ![p] = "none"]
    /\ granted' = [granted EXCEPT ![p] = {}]

\* Everything that lives in the page's memory goes with it.  A refresh that is
\* on its way is dropped; one the server is working on is waited for (to leave
\* then is to leave when its answer is on its way).
Unload(p) ==
    /\ refresh[p] \notin {"rotating", "revoking"}
    /\ call' = [c \in Call |-> IF Home[c] = p THEN "idle" ELSE call[c]]
    /\ ForgetRefresh(p)
    /\ offered' = [offered EXCEPT ![p] = Nothing]
    /\ ended' = [ended EXCEPT ![p] = Nothing]

\* The calls that wait for the page's refresh end without an answer to show.
DropWaiting(p) ==
    /\ call' = [c \in Call |-> IF Home[c] = p /\ call[c] = "waiting" THEN "idle" ELSE call[c]]
    /\ ForgetRefresh(p)
    /\ UNCHANGED <<offered, ended>>

\* No load of /login when the page shows it already.
RedirectToLogin(p) ==
    /\ ClearTokens
    /\ IF at[p] = "login" THEN DropWaiting(p) ELSE Unload(p)
    /\ at' = [at EXCEPT ![p] = "login"]

-----------------------------------------------------------------------------
(* Signing in and moving between pages. *)

Issue(n, first) ==
    /\ issued < MaxIssued
    /\ n = issued + 1
    /\ issued' = n
    /\ live' = live \cup {n}
    /\ login' = [login EXCEPT ![n] = first]

\* The form is sent and answered.
Login(p) ==
    /\ at[p] = "login"
    /\ \E n \in Token :
        /\ Issue(n, n)
        /\ SetTokens(n)
    /\ at' = [at EXCEPT ![p] = "app"]
    /\ UNCHANGED <<call, rotation, ended>>

\* The page renders a guarded route, loaded anew by its address.
Enter(p) ==
    /\ at[p] = "login" /\ IsLoggedIn
    /\ at' = [at EXCEPT ![p] = "app"]
    /\ Unload(p)
    /\ UNCHANGED <<stored, server>>

\* ... or finds, on rendering one, that the tokens are gone.
SendToLogin(p) ==
    /\ at[p] = "app" /\ ~IsLoggedIn
    /\ at' = [at EXCEPT ![p] = "login"]
    /\ UNCHANGED <<stored, server, call, rotation, ended>>

Reload(p) ==
    /\ at[p] = "app"
    /\ Unload(p)
    /\ at' = [at EXCEPT ![p] = IF IsLoggedIn THEN "app" ELSE "login"]
    /\ UNCHANGED <<stored, server>>

-----------------------------------------------------------------------------
(* Calls. *)

Send(c) ==
    /\ call[c] = "idle"
    /\ at[Home[c]] = "app"
    /\ call' = [call EXCEPT ![c] = "sent"]
    /\ UNCHANGED <<stored, server, at, rotation, ended>>

\* Answered by anything but a 401, or not at all.
Answer(c) ==
    /\ call[c] = "sent"
    /\ call' = [call EXCEPT ![c] = "idle"]
    /\ UNCHANGED <<stored, server, at, rotation, ended>>

StartRefresh(p) ==
    /\ refresh' = [refresh EXCEPT ![p] = "posted"]
    /\ offered' = [offered EXCEPT ![p] = stored]

\* A 401, its access token having expired: the call joins the page's
\* refresh, or starts one.
Unauthorized(c) ==
    LET p == Home[c] IN
    /\ call[c] = "sent"
    /\ IsLoggedIn \/ refresh[p] # "none"
    /\ call' = [call EXCEPT ![c] = "waiting"]
    /\ IF refresh[p] = "none"
       THEN StartRefresh(p)
       ELSE UNCHANGED <<refresh, offered>>
    /\ UNCHANGED <<stored, server, at, granted, ended>>

\* A 401 and no refresh token to present: there is nothing to send.
NothingToRefresh(c) ==
    LET p == Home[c] IN
    /\ call[c] = "sent"
    /\ ~IsLoggedIn /\ refresh[p] = "none"
    /\ ClearTokens
    /\ IF at[p] = "login"
       THEN /\ call' = [call EXCEPT ![c] = "idle"]
            /\ UNCHANGED <<rotation, ended>>
       ELSE Unload(p)
    /\ at' = [at EXCEPT ![p] = "login"]
    /\ UNCHANGED <<server>>

-----------------------------------------------------------------------------
(* A refresh. *)

\* MUTANT of LockedBy: the row of the token is read without FOR UPDATE.
LockedByNobody(n) == {}

\* The refreshes whose transaction has the row of token n locked.
LockedBy(n) == {p \in Page : refresh[p] \in {"rotating", "revoking"} /\ offered[p] = n}

\* SELECT ... FOR UPDATE of the token, and what its row says: a token that was
\* used before ends every session of the account; a live one may have expired.
ReadToken(p) ==
    /\ refresh[p] = "posted"
    /\ LockedBy(offered[p]) = {}
    /\ LET n == offered[p] IN
        \/ /\ n \notin live
           /\ refresh' = [refresh EXCEPT ![p] = "revoking"]
           /\ granted' = [granted EXCEPT ![p] = live]
        \/ /\ n \in live
           /\ \E answer \in {"rotating", "refused"} : refresh' = [refresh EXCEPT ![p] = answer]
           /\ UNCHANGED granted
    /\ UNCHANGED <<stored, server, at, call, offered, ended>>

\* MUTANT of Rotate: revoked_at is not set.
RotateKeepsOld(p) ==
    /\ refresh[p] = "rotating"
    /\ \E n \in Token :
        /\ Issue(n, login[offered[p]])
        /\ granted' = [granted EXCEPT ![p] = {n}]
    /\ refresh' = [refresh EXCEPT ![p] = "granted"]
    /\ UNCHANGED <<stored, at, call, offered, ended>>

\* The successor is inserted, the token revoked, and both committed.
Rotate(p) ==
    /\ refresh[p] = "rotating"
    /\ issued < MaxIssued
    /\ LET n == issued + 1 IN
        /\ issued' = n
        /\ live' = (live \ {offered[p]}) \cup {n}
        /\ login' = [login EXCEPT ![n] = login[offered[p]]]
        /\ granted' = [granted EXCEPT ![p] = {n}]
    /\ refresh' = [refresh EXCEPT ![p] = "granted"]
    /\ UNCHANGED <<stored, at, call, offered, ended>>

\* The UPDATE revokes the rows that were live when it started, and waits for
\* those a refresh has locked; a row committed since is not among them.
RevokeAllForUser(p) ==
    /\ refresh[p] = "revoking"
    /\ \A n \in granted[p] : LockedBy(n) \subseteq {p}
    /\ live' = live \ granted[p]
    /\ refresh' = [refresh EXCEPT ![p] = "refused"]
    /\ granted' = [granted EXCEPT ![p] = {}]
    /\ UNCHANGED <<stored, issued, login, at, call, offered, ended>>

\* Every call of the page that waits is sent once more, with the new token.
\* Whatever answers that is its answer, so it is over here.
SendAgain(p) ==
    /\ call' = [c \in Call |->
                 IF Home[c] = p /\ call[c] = "waiting" THEN "idle" ELSE call[c]]

\* MUTANT of Granted: only one of the calls that wait is told.
GrantedToOne(p) ==
    /\ refresh[p] = "granted"
    /\ \E n \in granted[p], c \in Call :
        /\ Home[c] = p /\ call[c] = "waiting"
        /\ SetTokens(n)
        /\ call' = [call EXCEPT ![c] = "idle"]
    /\ ForgetRefresh(p)
    /\ UNCHANGED <<server, at, offered, ended>>

\* The answer arrives: the pair is stored and every call that waits is sent
\* again with it.
Granted(p) ==
    /\ refresh[p] = "granted"
    /\ \E n \in granted[p] : SetTokens(n)
    /\ SendAgain(p)
    /\ ForgetRefresh(p)
    /\ UNCHANGED <<server, at, offered, ended>>

\* The transaction fails and is undone.
RefreshFails(p) ==
    /\ refresh[p] \in {"rotating", "revoking"}
    /\ refresh' = [refresh EXCEPT ![p] = "refused"]
    /\ granted' = [granted EXCEPT ![p] = {}]
    /\ UNCHANGED <<stored, server, at, call, offered, ended>>

\* A refusal arrives, or the request or its answer is lost.
NotGranted(p) ==
    /\ refresh[p] \in {"posted", "granted", "refused"}
    /\ RedirectToLogin(p)
    /\ UNCHANGED <<server>>

-----------------------------------------------------------------------------
(* Signing out. *)

\* revokeSession posts the refresh token.
StartLogout(p) ==
    /\ at[p] = "app" /\ IsLoggedIn
    /\ ended[p] = Nothing
    /\ ended' = [ended EXCEPT ![p] = stored]
    /\ UNCHANGED <<stored, server, at, call, rotation>>

\* The token is revoked, unless the access token beside it has expired (a 401
\* of this path starts no refresh) or the request is lost.  Then, as when there
\* is no token to post, the page clears what is stored now and goes.
FinishLogout(p) ==
    /\ \/ ended[p] # Nothing /\ LockedBy(ended[p]) = {} /\ live' = live \ {ended[p]}
       \/ ended[p] # Nothing /\ UNCHANGED live
       \/ at[p] = "app" /\ ended[p] = Nothing /\ ~IsLoggedIn /\ UNCHANGED live
    /\ ClearTokens
    /\ Unload(p)
    /\ at' = [at EXCEPT ![p] = "login"]
    /\ UNCHANGED <<issued, login>>

-----------------------------------------------------------------------------
(* The next-state relation. *)

CallStep(c) == Answer(c) \/ Unauthorized(c) \/ NothingToRefresh(c)

RefreshStep(p) ==
    \/ ReadToken(p) \/ Rotate(p) \/ RevokeAllForUser(p) \/ RefreshFails(p)
    \/ Granted(p) \/ NotGranted(p)

PageStep(p) ==
    \/ Login(p) \/ Enter(p) \/ SendToLogin(p) \/ Reload(p)
    \/ StartLogout(p) \/ FinishLogout(p)

Next ==
    \/ \E c \in Call : Send(c) \/ CallStep(c)
    \/ \E p \in Page : RefreshStep(p) \/ PageStep(p)

\* Requests are answered or time out, and so do refreshes.
Fairness ==
    /\ \A c \in Call : WF_vars(CallStep(c))
    /\ \A p \in Page : WF_vars(RefreshStep(p))

Spec == Init /\ [][Next]_vars /\ Fairness

-----------------------------------------------------------------------------
(* Properties. *)

\* One sign-in has at most one refresh token that works, whatever its pages
\* present at the same time: what rotation under the row lock is for.
OneLivePerLogin == \A m, n \in live : login[m] = login[n] => m = n

\* The answers to refreshes of different pages never put back an older pair of
\* the same sign-in.
PairNeverGoesBack ==
    [][IsLoggedIn /\ stored' \in Token /\ login'[stored'] = login[stored]
        => stored' >= stored]_vars

\* A call that waits for a refresh is sent again, or its page is sent to the
\* sign-in form; either way it ends.
CallsSettle == \A c \in Call : call[c] = "waiting" ~> call[c] = "idle"
=============================================================================
