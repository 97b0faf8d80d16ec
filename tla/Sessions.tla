------------------------------ MODULE Sessions ------------------------------
(***************************************************************************)
(* The sessions of one account: the token operations of AuthService        *)
(* (src/backend/src/modules/auth/auth.service.ts) together with the two    *)
(* clients that keep tokens, the browser tabs (lib/api.ts and              *)
(* stores/authStore.ts of the frontend) and the cookie jar of the          *)
(* administration pages (app/api/admin of the frontend).                   *)
(*                                                                         *)
(* A pair is an access token and the refresh token issued with it; it is   *)
(* identified by the order in which pairs are issued.  A call runs from    *)
(* the client through the handler and back, one step per await, so calls   *)
(* interleave where the code awaits.  What the user types is right or      *)
(* wrong; passwords, profiles and the rest of a user row are left out.     *)
(***************************************************************************)
EXTENDS Integers, FiniteSets

CONSTANTS
    Calls,      \* calls that may be in flight at the same time
    Tabs,       \* tabs of the browser: they share its storage
    Jars,       \* cookie jars of the administration pages
    None,       \* no client
    MaxPairs,   \* bound: pairs issued
    MaxRevs     \* bound: revocations of every session

ASSUME ClientAssumption == Tabs \intersect Jars = {} /\ None \notin Tabs \union Jars
ASSUME EndedAssumption == "ended" \notin Tabs \union Jars \union {None}
ASSUME BoundAssumption == {MaxPairs, MaxRevs} \subseteq Nat

VARIABLES
    rows,       \* RefreshToken: the pairs whose row exists
    issued,     \* number of pairs issued so far
    epoch,      \* revocations that had run when the holder of a pair proved itself
    expired,    \* the access tokens of pairs 1..expired are over
    account,    \* the user row: accessible, suspended or deleted
    held,       \* the pair each client holds, or 0
    storage,    \* the pair in the localStorage of the browser, or 0
    call,       \* the calls in flight
    revs,       \* revocations of every session so far
    loose,      \* pairs that descend from what a revocation could not reach
    fate        \* how a pair ended: None, the client that exchanged it, or "ended"
                \* by a logout, a revocation, time or a lost reply

server  == <<rows, issued, epoch, loose>>
vars == <<server, expired, account, held, storage, call, revs,
          fate>>

Pairs   == 1..MaxPairs
Clients == Tabs \union Jars

-----------------------------------------------------------------------------
(* Calls *)

\* Which operation a request is for matters once its caller is known: "change",
\* "logoutAll" and "delete" then wait to remove the sessions of the account.
Revoking == {"change", "logoutAll", "delete"}
PC == {"idle", "sent", "refreshing", "rotating", "issuing", "granted", "refused",
       "login", "bar", "logout", "drop", "signout", "deliver"} \union Revoking

Call == [pc: PC, client: Clients \union {None}, acc: 0..MaxPairs,
         tok: 0..MaxPairs, retry: BOOLEAN, grant: 0..MaxPairs, epoch: 0..MaxRevs, loose: BOOLEAN]

Idle == [pc |-> "idle", client |-> None, acc |-> 0, tok |-> 0,
         retry |-> FALSE, grant |-> 0, epoch |-> 0, loose |-> FALSE]

Begin(c, cl, pc, acc, tok) ==
    /\ call[c].pc = "idle"
    /\ call' = [call EXCEPT ![c] = [Idle EXCEPT !.pc = pc, !.client = cl, !.acc = acc,
                                               !.tok = tok, !.retry = acc # 0]]
At(c, pc)   == call[c].pc = pc
Goto(c, pc) == call' = [call EXCEPT ![c].pc = pc]
End(c)      == call' = [call EXCEPT ![c] = Idle]

Ended(S) == [n \in Pairs |-> IF n \in S THEN "ended" ELSE fate[n]]

\* A handler that proved its caller and will issue a pair whatever happens next.
InHand(q) == q.pc = "issuing"

Init ==
    /\ rows = {} /\ issued = 0 /\ loose = {}
    /\ epoch = [n \in Pairs |-> 0]
    /\ fate = [n \in Pairs |-> None]
    /\ expired = 0 /\ revs = 0
    /\ account = "ok"
    /\ held = [cl \in Clients |-> 0] /\ storage = 0
    /\ call = [c \in Calls |-> Idle]

-----------------------------------------------------------------------------
(* The clients *)

\* setTokens: a tab writes its store and the shared storage, a jar its cookies.
Hold(cl, n) ==
    /\ held' = [held EXCEPT ![cl] = n]
    /\ storage' = IF cl \in Tabs THEN n ELSE storage

\* A tab is opened or reloaded: hydrateFromStorage.
Hydrate(cl) ==
    /\ cl \in Tabs
    /\ held[cl] # storage
    /\ held' = [held EXCEPT ![cl] = storage]
    /\ UNCHANGED <<server, expired, account, storage, call, revs, fate>>

\* requestWithAuth, and handle of the administration proxy: the access token is
\* read now; a jar hands over both of its cookies now, a tab reads its refresh
\* token when it needs it.
Send(c, cl) ==
    /\ held[cl] # 0
    /\ Begin(c, cl, "sent", held[cl], IF cl \in Jars THEN held[cl] ELSE 0)
    /\ UNCHANGED <<server, expired, account, held, storage, revs, fate>>

\* JwtStrategy.validate: an access token counts while it and the account last.
Accepted(n) == n > expired /\ account = "ok"

\* The request is answered.  The proxy sets the cookies it refreshed only now.
Answer(c) ==
    IF call[c].client \in Jars /\ call[c].grant # 0 THEN Goto(c, "deliver") ELSE End(c)

Authorise(c) ==
    /\ At(c, "sent")
    /\ Accepted(call[c].acc)
    /\ \/ Answer(c)    \* served, or refused for another reason than 401
       \/ \* an operation of AuthService; updateNickname and updateEmail issue at once
          /\ call[c].client \in Tabs
          /\ \E op \in Revoking \union {"issuing"}:
               call' = [call EXCEPT ![c] = [Idle EXCEPT !.pc = op, !.client = call[c].client,
                          !.epoch = epoch[call[c].acc],
                          !.loose = epoch[call[c].acc] < revs]]
    /\ UNCHANGED <<server, expired, account, held, storage, revs, fate>>

\* 401: the first time the client tries to refresh, the second time it gives up.
\* changePassword and deleteMe also answer 401, to a wrong password.
Unauthorised(c) ==
    LET cl == call[c].client IN
    /\ At(c, "sent")
    /\ Accepted(call[c].acc) => cl \in Tabs
    /\ IF ~call[c].retry THEN Answer(c)
       ELSE IF cl \in Tabs /\ held[cl] = 0 THEN Goto(c, "refused")
       ELSE call' = [call EXCEPT ![c].pc = "refreshing", ![c].acc = 0,
                         ![c].tok = IF cl \in Jars THEN @ ELSE held[cl]]
    /\ UNCHANGED <<server, expired, account, held, storage, revs, fate>>

\* Mutated form: a tab stores the access token only (setAccessToken).
ReceiveAccessOnly(c) ==
    LET q == call[c] IN LET refreshed == q.tok # 0 IN
    /\ At(c, "granted")
    /\ IF refreshed THEN UNCHANGED <<held, storage>> ELSE Hold(q.client, q.grant)
    /\ IF refreshed
       THEN call' = [call EXCEPT ![c] = [Idle EXCEPT !.pc = "sent", !.client = q.client, !.acc = q.grant]]
       ELSE End(c)
    /\ UNCHANGED <<server, expired, account, revs, fate>>

\* The tokens arrive: tryRefresh stores them and sends the request once more;
\* login, changePassword and the profile pages store them and are done.
Receive(c) ==
    LET q == call[c] IN LET refreshed == q.tok # 0 IN
    /\ At(c, "granted")
    /\ IF refreshed /\ q.client \in Jars THEN UNCHANGED <<held, storage>>
       ELSE Hold(q.client, q.grant)
    /\ IF refreshed
       THEN call' = [call EXCEPT ![c] = [Idle EXCEPT !.pc = "sent", !.client = q.client, !.acc = q.grant,
                         !.tok = IF q.client \in Jars THEN q.tok ELSE 0,
                         !.grant = IF q.client \in Jars THEN q.grant ELSE 0]]
       ELSE End(c)
    /\ UNCHANGED <<server, expired, account, revs, fate>>

\* The answer of the proxy reaches the browser with the new cookies.
Deliver(c) ==
    /\ At(c, "deliver")
    /\ Hold(call[c].client, call[c].grant)
    /\ End(c)
    /\ UNCHANGED <<server, expired, account, revs, fate>>

\* tryRefresh was refused: clearTokens, and the browser goes to the login page.
Refused(c) ==
    /\ At(c, "refused")
    /\ Hold(call[c].client, 0)
    /\ End(c)
    /\ UNCHANGED <<server, expired, account, revs, fate>>

\* The request or the reply is lost, or the server stops in the middle: a tab
\* takes a lost refresh for a refusal, a jar keeps the cookies it had.  The
\* token that was presented may be gone.
Lose(c) ==
    LET q == call[c] IN
    /\ q.pc \in {"refreshing", "rotating", "issuing", "granted", "deliver"}
    /\ IF q.tok # 0 /\ q.client \in Tabs THEN Goto(c, "refused") ELSE End(c)
    /\ fate' = Ended(IF q.pc \in {"refreshing", "rotating"} THEN {} ELSE {q.tok})
    /\ UNCHANGED <<server, expired, account, held, storage, revs>>

-----------------------------------------------------------------------------
(* refreshTokens and generateTokenPair *)

\* findMany with the user, bcrypt.compare, and the check of the row that was read.
RefreshFind(c) ==
    LET t == call[c].tok IN
    /\ At(c, "refreshing")
    /\ call' = [call EXCEPT ![c].pc =
                    IF t \in rows /\ account = "ok" THEN "rotating" ELSE "refused"]
    /\ UNCHANGED <<server, expired, account, held, storage, revs, fate>>

\* Mutated form: the row is removed with deleteMany, which does not fail when
\* another request was faster.
RefreshDeleteUnchecked(c) ==
    LET t == call[c].tok IN
    /\ At(c, "rotating")
    /\ rows' = rows \ {t}
    /\ call' = [call EXCEPT ![c].pc = "issuing", ![c].epoch = epoch[t],
                            ![c].loose = t \in loose]
    /\ fate' = [fate EXCEPT ![t] = call[c].client]
    /\ UNCHANGED <<issued, epoch, loose, expired, account, held,
                   storage, revs>>

\* delete by id throws when the row is gone.
RefreshDelete(c) ==
    LET t == call[c].tok IN
    /\ At(c, "rotating")
    /\ IF t \in rows
       THEN /\ rows' = rows \ {t}
            /\ call' = [call EXCEPT ![c].pc = "issuing", ![c].epoch = epoch[t],
                                    ![c].loose = t \in loose]
            /\ fate' = [fate EXCEPT ![t] = call[c].client]
       ELSE Goto(c, "refused") /\ UNCHANGED <<rows, fate>>
    /\ UNCHANGED <<issued, epoch, loose, expired, account, held,
                   storage, revs>>

\* The end of every handler that answers with a pair.
Issue(c) ==
    LET q == call[c] IN LET n == issued + 1 IN
    /\ At(c, "issuing")
    /\ issued < MaxPairs
    /\ rows' = rows \union {n}
    /\ issued' = n
    /\ epoch' = [epoch EXCEPT ![n] = q.epoch]
    /\ loose' = IF q.loose THEN loose \union {n} ELSE loose
    /\ call' = [call EXCEPT ![c].pc = "granted", ![c].grant = n]
    /\ UNCHANGED <<expired, account, held, storage, revs, fate>>

-----------------------------------------------------------------------------
(* login and adminLogin *)

\* proxy.ts: a browser that has the token cookie is sent from the login page to
\* the planner; the login page of the administration is always shown.
LoginPage(cl) == cl \in Tabs => storage = 0

\* The callback of an OAuth provider: oauthLogin checks the row it was given.
OAuthLogin(c, cl) ==
    /\ cl \in Tabs /\ LoginPage(cl)
    /\ account = "ok"
    /\ At(c, "idle")
    /\ call' = [call EXCEPT ![c] = [Idle EXCEPT !.pc = "issuing", !.client = cl,
                                               !.epoch = revs]]
    /\ UNCHANGED <<server, expired, account, held, storage, revs, fate>>

LoginStart(c, cl) ==
    /\ LoginPage(cl)
    /\ Begin(c, cl, "login", 0, 0)
    /\ UNCHANGED <<server, expired, account, held, storage, revs, fate>>

\* The user row is read and the password compared with it.  The lock and the
\* counter of wrong passwords are those of Verification: here a login is
\* turned away for any reason, or will issue a pair.
LoginCompare(c) ==
    /\ At(c, "login")
    /\ \/ End(c)
       \/ /\ account = "ok"
          /\ call' = [call EXCEPT ![c].pc = "issuing", ![c].epoch = revs]
    /\ UNCHANGED <<server, expired, account, held, storage, revs, fate>>

-----------------------------------------------------------------------------
(* logout, logoutAll, changePassword, deleteMe *)

\* The client sends the refresh token it holds; the endpoint asks for no session.
LogoutStart(c, cl) ==
    /\ held[cl] # 0
    /\ Begin(c, cl, "logout", 0, held[cl])
    /\ UNCHANGED <<server, expired, account, held, storage, revs, fate>>

LogoutFind(c) ==
    /\ At(c, "logout")
    /\ Goto(c, IF call[c].tok \in rows THEN "drop" ELSE "signout")
    /\ UNCHANGED <<server, expired, account, held, storage, revs, fate>>

\* delete throws when the row is gone; the client signs out all the same.
LogoutDelete(c) ==
    /\ At(c, "drop")
    /\ rows' = rows \ {call[c].tok}
    /\ fate' = Ended(rows \intersect {call[c].tok})
    /\ Goto(c, "signout")
    /\ UNCHANGED <<issued, epoch, loose, expired, account, held,
                   storage, revs>>

\* Where a revocation leads: changePassword goes on to issue a pair, deleteMe to
\* mark the account, logoutAll answers.
AfterRevoke(c) ==
    CASE At(c, "change") -> "issuing"
      [] At(c, "delete") -> "bar"
      [] At(c, "logoutAll") -> "signout"

\* The caller has proved itself again; the handlers in hand are out of reach.
Revoked(c, removed) ==
    /\ call[c].pc \in Revoking
    /\ revs < MaxRevs
    /\ revs' = revs + 1
    /\ rows' = rows \ removed
    /\ fate' = Ended(removed)
    /\ call' = [d \in Calls |->
         CASE d = c -> [call[c] EXCEPT !.pc = AfterRevoke(c), !.epoch = revs + 1, !.loose = FALSE]
           [] d # c /\ InHand(call[d]) -> [call[d] EXCEPT !.loose = TRUE]
           [] OTHER -> call[d]]
    /\ UNCHANGED <<issued, epoch, loose, expired, account, held, storage>>

\* Mutated form: the session of the caller is kept.
RevokeOthers(c) == Revoked(c, rows \ {held[call[c].client]})

\* deleteMany of every refresh token of the account.
Revoke(c) == Revoked(c, rows)

\* deleteMe marks the account after its sessions are gone.
Bar(c) ==
    /\ At(c, "bar")
    /\ account' = "deleted"
    /\ Goto(c, "signout")
    /\ UNCHANGED <<server, expired, held, storage, revs, fate>>

SignOut(c) ==
    /\ At(c, "signout")
    /\ Hold(call[c].client, 0)
    /\ End(c)
    /\ UNCHANGED <<server, expired, account, revs, fate>>

-----------------------------------------------------------------------------
(* Time and the administrator *)

\* Access tokens live equally long, so they end in the order of their issue.
ExpireAccess ==
    /\ expired < issued
    /\ expired' = expired + 1
    /\ UNCHANGED <<server, account, held, storage, call, revs, fate>>

\* A refresh token outlives its access token; a row that has expired is no
\* longer found.
ExpireRefresh(n) ==
    /\ n \in rows
    /\ n <= expired
    /\ \A m \in rows: n <= m
    /\ rows' = rows \ {n}
    /\ fate' = Ended({n})
    /\ UNCHANGED <<issued, epoch, loose, expired, account, held,
                   storage, call, revs>>

\* AdminService.suspendUser.
Suspend ==
    /\ account # "deleted"
    /\ account' = IF account = "ok" THEN "suspended" ELSE "ok"
    /\ UNCHANGED <<server, expired, held, storage, call, revs, fate>>

Next ==
    \/ \E c \in Calls:
        \/ \E cl \in Clients:
            Send(c, cl) \/ LoginStart(c, cl) \/ OAuthLogin(c, cl) \/ LogoutStart(c, cl)
        \/ Authorise(c) \/ Unauthorised(c) \/ Receive(c) \/ Refused(c) \/ Deliver(c) \/ Lose(c)
        \/ RefreshFind(c) \/ RefreshDelete(c) \/ Issue(c)
        \/ LoginCompare(c) \/ LogoutFind(c) \/ LogoutDelete(c) \/ Revoke(c) \/ Bar(c) \/ SignOut(c)
    \/ \E cl \in Clients: Hydrate(cl)
    \/ \E n \in Pairs: ExpireRefresh(n)
    \/ ExpireAccess \/ Suspend

Spec == Init /\ [][Next]_vars

-----------------------------------------------------------------------------
(* Properties *)

\* A token whose row is deleted and whose successor is not yet issued is still
\* to be exchanged.
Redeemable == (rows \union {call[c].tok: c \in {d \in Calls: At(d, "issuing")}}) \ {0}
R == INSTANCE Rotation WITH Tokens <- Pairs, live <- Redeemable,
                            spent <- (1..issued) \ Redeemable

(***************************************************************************)
(* However refreshes with the same token, logouts and revocations overlap, *)
(* a refresh token is exchanged at most once and never works again: the    *)
(* find and the delete of refreshTokens are two statements, and the second *)
(* one is what decides (auth.service.ts:331).                              *)
(***************************************************************************)
Rotates == R!Spec

(***************************************************************************)
(* After logoutAll, changePassword or deleteMe removed the sessions, a     *)
(* session that was proved before can only descend from a handler that had *)
(* already proved it and not yet stored its row, or from an access token   *)
(* that had not run out.                                                   *)
(***************************************************************************)
RevokedSessionsEnd == \A n \in rows: epoch[n] < revs => n \in loose

(***************************************************************************)
(* A client that holds a refresh token that no longer works is not left    *)
(* with it by its own requests: a request of its own is still exchanging   *)
(* it, or it was ended (logout, revocation, time, a lost reply), or        *)
(* another client exchanged it, a second tab that shared the storage.      *)
(***************************************************************************)
StoredTokenWorks ==
    \A cl \in Clients: held[cl] # 0 /\ held[cl] \notin rows =>
        \/ \E c \in Calls: call[c].client = cl /\ call[c].tok = held[cl]
        \/ fate[held[cl]] \notin {cl, None}
=============================================================================
