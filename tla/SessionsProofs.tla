--------------------------- MODULE SessionsProofs ---------------------------
(***************************************************************************)
(* Proofs about Sessions for any number of tabs, cookie jars and calls in  *)
(* flight, and any bounds of pairs and revocations.                        *)
(***************************************************************************)
EXTENDS Sessions, TLAPS

USE ClientAssumption, EndedAssumption, BoundAssumption

-----------------------------------------------------------------------------
(* Types *)

\* What a call carries beside the types of its fields: only a caller that was
\* identified is asked for its tokens; a call that presents no refresh token has
\* none; a pair on its way to a jar stays with the call until it is delivered.
CallOK(q) ==
    /\ q \in Call
    /\ q.pc # "idle" => q.client \in Clients
    /\ q.pc = "sent" => q.acc # 0
    /\ q.pc \in {"login", "bar"} \union Revoking => q.tok = 0
    /\ q.pc = "granted" => q.grant # 0
    /\ q.grant # 0 => q.pc \in {"granted", "sent", "deliver", "refused"}
    /\ q.grant # 0 /\ q.pc = "sent" => q.client \in Jars /\ ~q.retry

CallsOK == call \in [Calls -> Call] /\ \A c \in Calls : CallOK(call[c])

TablesOK ==
    /\ rows \subseteq Pairs /\ loose \subseteq Pairs
    /\ issued \in 0..MaxPairs /\ expired \in 0..MaxPairs
    /\ epoch \in [Pairs -> 0..MaxRevs] /\ revs \in 0..MaxRevs
    /\ fate \in [Pairs -> Clients \union {None, "ended"}]
    /\ account \in {"ok", "suspended", "deleted"}
    /\ held \in [Clients -> 0..MaxPairs] /\ storage \in 0..MaxPairs

TypeInv == TablesOK /\ CallsOK

-----------------------------------------------------------------------------
(* The inductive invariant *)

(***************************************************************************)
(* A pair is known only once it has been issued.                           *)
(***************************************************************************)
Known ==
    /\ rows \subseteq 1..issued
    /\ storage <= issued
    /\ \A cl \in Clients : held[cl] <= issued
    /\ \A c \in Calls : call[c].tok <= issued /\ call[c].grant <= issued

(***************************************************************************)
(* delete by id lets one request per token go on to issue a pair: the      *)
(* token's row is gone, and no other request is exchanging the token.      *)
(***************************************************************************)
ExchangedOnce ==
    \A c \in Calls : (At(c, "issuing") /\ call[c].tok # 0) =>
        /\ call[c].tok \notin rows
        /\ \A d \in Calls \ {c} : At(d, "issuing") => call[d].tok # call[c].tok

(***************************************************************************)
(* A pair on its way to its client is nobody else's, and nobody presents   *)
(* its refresh token yet: it works, or it has been ended.                  *)
(***************************************************************************)
OnItsWay(n, c) ==
    /\ n \in rows \/ fate[n] = "ended"
    /\ storage # n
    /\ \A cl \in Clients : held[cl] # n
    /\ \A d \in Calls : call[d].tok # n /\ (d # c => call[d].grant # n)

GrantsApart == \A c \in Calls : call[c].grant # 0 => OnItsWay(call[c].grant, c)

(***************************************************************************)
(* A client that exchanged the pair it holds has the call that did it      *)
(* still under way.                                                        *)
(***************************************************************************)
Exchanges(q) == q.pc \in {"issuing", "granted", "deliver"} \/ (q.pc = "sent" /\ q.grant # 0)

Exchanging(cl, n) == \E c \in Calls : call[c].client = cl /\ call[c].tok = n /\ Exchanges(call[c])

FateOK(cl, n) == (n \in 1..issued /\ n \notin rows /\ fate[n] = cl) => Exchanging(cl, n)

Fates ==
    /\ \A n \in 1..issued : n \notin rows => fate[n] # None
    /\ \A cl \in Clients : FateOK(cl, held[cl])
    /\ \A cl \in Tabs : FateOK(cl, storage)

(***************************************************************************)
(* A handler that a revocation could not reach is marked as such.          *)
(***************************************************************************)
InHandMarked == \A c \in Calls : At(c, "issuing") /\ call[c].epoch < revs => call[c].loose

SessionInv ==
    /\ TypeInv /\ Known /\ ExchangedOnce /\ GrantsApart /\ Fates
    /\ RevokedSessionsEnd /\ InHandMarked

-----------------------------------------------------------------------------
(* The kinds of steps *)

\* The call c becomes q.
Becomes(c, q) == CallOK(q) /\ call' = [call EXCEPT ![c] = q]

\* A call goes on without touching a pair; if it was exchanging one it still is.
Quiet(c, q) ==
    /\ Becomes(c, q)
    /\ q.tok \in {0, call[c].tok} \union {held[cl] : cl \in Clients}
    /\ q.grant \in {0, call[c].grant}
    /\ q.pc = "issuing" => q.tok = 0 /\ (q.epoch < revs => q.loose)
    /\ Exchanges(call[c]) => Exchanges(q) /\ q.client = call[c].client /\ q.tok = call[c].tok
    /\ account' \in {"ok", "suspended", "deleted"}
    /\ UNCHANGED <<server, expired, held, storage, revs, fate>>

\* Its client takes the pair the call brings, or signs out.
Hands(c, q, n) ==
    /\ Becomes(c, q)
    /\ q.tok = 0 /\ q.grant = 0 /\ q.pc # "issuing"
    /\ call[c].client \in Clients
    /\ n \in {0, call[c].grant}
    /\ Hold(call[c].client, n)
    /\ UNCHANGED <<server, expired, account, revs, fate>>

\* The call is lost.
Loses(c, q) ==
    /\ Becomes(c, q)
    /\ q.tok \in {0, call[c].tok} /\ q.grant \in {0, call[c].grant}
    /\ q.pc # "issuing"
    /\ call[c].pc \in {"refreshing", "rotating", "issuing", "granted", "deliver"}
    /\ fate' = Ended(IF call[c].pc \in {"refreshing", "rotating"} THEN {} ELSE {call[c].tok})
    /\ UNCHANGED <<server, expired, account, held, storage, revs>>

\* The row of a token is deleted for the call that presents it.
Consumes(c, t) ==
    /\ t = call[c].tok /\ t \in rows /\ At(c, "rotating")
    /\ rows' = rows \ {t}
    /\ call' = [call EXCEPT ![c].pc = "issuing", ![c].epoch = epoch[t], ![c].loose = t \in loose]
    /\ fate' = [fate EXCEPT ![t] = call[c].client]
    /\ UNCHANGED <<issued, epoch, loose, expired, account, held, storage, revs>>

\* Pairs are ended.
Removes(S) ==
    /\ S \subseteq rows
    /\ rows' = rows \ S /\ fate' = Ended(S)
    /\ CallsOK'
    /\ \A d \in Calls :
        /\ call'[d].client = call[d].client /\ call'[d].tok = call[d].tok
        /\ call'[d].grant = call[d].grant
        /\ Exchanges(call[d]) => Exchanges(call'[d])
        /\ call'[d].pc = "issuing" => At(d, "issuing") \/ call[d].tok = 0
    /\ revs' \in 0..MaxRevs
    /\ \/ /\ revs' = revs
          /\ \A d \in Calls : call'[d].pc = "issuing" => call'[d] = call[d]
       \/ /\ S = rows
          /\ \A d \in Calls : call'[d].pc = "issuing" => call'[d].loose \/ call'[d].epoch = revs'
    /\ UNCHANGED <<issued, epoch, loose, expired, account, held, storage>>

\* Nothing happens to sessions or calls.
Aside ==
    /\ expired' \in 0..MaxPairs
    /\ account' \in {"ok", "suspended", "deleted"}
    /\ UNCHANGED <<server, held, storage, call, revs, fate>>

Kind ==
    \/ \E c \in Calls :
        \/ \E q : Quiet(c, q) \/ Loses(c, q) \/ \E n : Hands(c, q, n)
        \/ \E t : Consumes(c, t)
        \/ Issue(c)
    \/ \E S : Removes(S)
    \/ \E cl \in Clients : Hydrate(cl)
    \/ Aside

\* A free call is well formed.
LEMMA IdleOK == CallOK(Idle)
  BY DEF CallOK, Idle, Call, PC, Revoking, Clients

\* A call that begins is well formed and exchanges nothing.
LEMMA BeginKind ==
  ASSUME TypeInv, NEW c \in Calls, NEW cl \in Clients,
         Send(c, cl) \/ LoginStart(c, cl) \/ OAuthLogin(c, cl) \/ LogoutStart(c, cl)
  PROVE  \E q : Quiet(c, q)
<1>1. /\ call[c].pc = "idle" /\ held[cl] \in 0..MaxPairs /\ revs \in 0..MaxRevs
      /\ account \in {"ok", "suspended", "deleted"}
  BY DEF TypeInv, TablesOK, Send, LoginStart, OAuthLogin, LogoutStart, Begin, At
<1>2. ~Exchanges(call[c])
  BY <1>1, IdleOK DEF TypeInv, CallsOK, CallOK, Exchanges
<1>3. ASSUME NEW pc \in {"sent", "login", "logout"}, NEW acc \in 0..MaxPairs, NEW tok \in {0, held[cl]},
             Begin(c, cl, pc, acc, tok), pc = "sent" => acc # 0, pc = "login" => tok = 0,
             UNCHANGED <<server, expired, account, held, storage, revs, fate>>
      PROVE  \E q : Quiet(c, q)
  <2> DEFINE q == [Idle EXCEPT !.pc = pc, !.client = cl, !.acc = acc, !.tok = tok, !.retry = acc # 0]
  <2>1. CallOK(q) /\ q.tok = tok /\ q.grant = 0 /\ q.pc = pc
    <3>1. /\ q = [Idle EXCEPT !.pc = pc, !.client = cl, !.acc = acc, !.tok = tok, !.retry = acc # 0]
          /\ q.pc = pc /\ q.client = cl /\ q.acc = acc /\ q.tok = tok /\ q.grant = 0
      BY DEF Idle
    <3>2. q \in Call
      <4>1. Idle \in Call /\ pc \in PC /\ (acc # 0) \in BOOLEAN
        BY IdleOK DEF CallOK, PC
      <4>2. cl \in Clients \union {None} /\ acc \in 0..MaxPairs /\ tok \in 0..MaxPairs
        BY <1>1, IdleOK DEF CallOK, Call, Idle
      <4> QED
        BY <4>1, <4>2 DEF Call
    <3> HIDE DEF q
    <3> QED
      BY <1>1, <1>3, <3>1, <3>2 DEF CallOK, Revoking
  <2>2. call' = [call EXCEPT ![c] = q]
    BY <1>3 DEF Begin
  <2> HIDE DEF q
  <2>3. Quiet(c, q)
    BY <1>1, <1>2, <1>3, <2>1, <2>2 DEF Quiet, Becomes
  <2> QED
    BY <2>3
<1>4. CASE OAuthLogin(c, cl)
  <2> DEFINE q == [Idle EXCEPT !.pc = "issuing", !.client = cl, !.epoch = revs]
  <2>1. CallOK(q) /\ q.tok = 0 /\ q.grant = 0 /\ q.epoch = revs
    <3>1. q.pc = "issuing" /\ q.client = cl /\ q.tok = 0 /\ q.grant = 0 /\ q.epoch = revs
      BY DEF Idle
    <3>2. q \in Call
      BY <1>1, IdleOK DEF CallOK, Call, PC
    <3> HIDE DEF q
    <3> QED
      BY <1>1, <3>1, <3>2 DEF CallOK, Revoking
  <2>2. call' = [call EXCEPT ![c] = q] /\ UNCHANGED <<server, expired, account, held, storage, revs, fate>>
    BY <1>4 DEF OAuthLogin
  <2> HIDE DEF q
  <2>3. Quiet(c, q)
    BY <1>1, <1>2, <2>1, <2>2 DEF Quiet, Becomes
  <2> QED
    BY <2>3
<1>5. CASE Send(c, cl)
  BY <1>1, <1>3, <1>5 DEF Send
<1>6. CASE LoginStart(c, cl)
  BY <1>1, <1>3, <1>6 DEF LoginStart
<1>7. CASE LogoutStart(c, cl)
  BY <1>1, <1>3, <1>7 DEF LogoutStart
<1> QED
  BY <1>4, <1>5, <1>6, <1>7

\* A handler that goes on to pc, keeping what the call carries.
LEMMA GotoKind ==
  ASSUME TypeInv, NEW c \in Calls, NEW pc \in {"drop", "signout", "rotating", "refused", "deliver"},
         call[c].pc # "idle", Goto(c, pc),
         call[c].grant # 0 => pc \in {"deliver", "refused"},
         Exchanges(call[c]) => pc = "deliver",
         account' \in {"ok", "suspended", "deleted"},
         UNCHANGED <<server, expired, held, storage, revs, fate>>
  PROVE  \E q : Quiet(c, q)
<1> DEFINE q == [call[c] EXCEPT !.pc = pc]
<1>1. CallOK(call[c])
  BY DEF TypeInv, CallsOK
<1>2. /\ CallOK(q) /\ q.pc = pc /\ q.tok = call[c].tok /\ q.grant = call[c].grant
      /\ q.client = call[c].client
  BY <1>1 DEF CallOK, Call, PC, Revoking
<1>3. call' = [call EXCEPT ![c] = q]
  BY DEF Goto
<1> HIDE DEF q
<1>4. Quiet(c, q)
  BY <1>2, <1>3 DEF Quiet, Becomes, Exchanges
<1> QED
  BY <1>4

\* A call that is over.
LEMMA EndKind ==
  ASSUME TypeInv, NEW c \in Calls, End(c), ~Exchanges(call[c]),
         UNCHANGED <<server, expired, account, held, storage, revs, fate>>
  PROVE  \E q : Quiet(c, q)
<1>1. Idle.tok = 0 /\ Idle.grant = 0 /\ Idle.pc = "idle"
  BY DEF Idle
<1>2. account' \in {"ok", "suspended", "deleted"}
  BY DEF TypeInv, TablesOK
<1>3. Quiet(c, Idle)
  BY <1>1, <1>2, IdleOK DEF Quiet, Becomes, End
<1> QED
  BY <1>3

\* Answering a request keeps a pair that is on its way to a jar.
LEMMA AnswerKind ==
  ASSUME TypeInv, NEW c \in Calls, At(c, "sent"), Answer(c),
         UNCHANGED <<server, expired, account, held, storage, revs, fate>>
  PROVE  \E q : Quiet(c, q)
<1>1. CallOK(call[c]) /\ account \in {"ok", "suspended", "deleted"}
  BY DEF TypeInv, CallsOK, TablesOK
<1>2. CASE call[c].client \in Jars /\ call[c].grant # 0
  BY <1>1, <1>2, GotoKind DEF Answer, At
<1>3. CASE ~(call[c].client \in Jars /\ call[c].grant # 0)
  BY <1>1, <1>3, EndKind DEF Answer, At, CallOK, Exchanges
<1> QED
  BY <1>2, <1>3

\* The guard lets a request through to an operation, or answers it.
LEMMA AuthoriseKind ==
  ASSUME TypeInv, NEW c \in Calls, Authorise(c) PROVE \E q : Quiet(c, q)
<1>1. /\ CallOK(call[c]) /\ call[c].pc = "sent" /\ revs \in 0..MaxRevs
      /\ epoch \in [Pairs -> 0..MaxRevs] /\ account \in {"ok", "suspended", "deleted"}
  BY DEF TypeInv, CallsOK, TablesOK, Authorise, At
<1>2. CASE Answer(c)
  BY <1>2, AnswerKind DEF Authorise
<1>3. ASSUME NEW op \in Revoking \union {"issuing"}, call[c].client \in Tabs,
             call' = [call EXCEPT ![c] = [Idle EXCEPT !.pc = op, !.client = call[c].client,
                          !.epoch = epoch[call[c].acc],
                          !.loose = epoch[call[c].acc] < revs]]
      PROVE  \E q : Quiet(c, q)
  <2> DEFINE proved  == epoch[call[c].acc]
             earlier == proved < revs
             q       == [Idle EXCEPT !.pc = op, !.client = call[c].client, !.epoch = proved,
                                     !.loose = earlier]
  <2>1. proved \in 0..MaxRevs /\ earlier \in BOOLEAN
    BY <1>1 DEF CallOK, Call, Pairs
  <2>2. /\ q.pc = op /\ q.client = call[c].client /\ q.tok = 0 /\ q.grant = 0
        /\ q.epoch = proved /\ q.loose = earlier
    BY DEF Idle
  <2>3. q \in Call
    <3> HIDE DEF proved, earlier
    <3> QED
      BY <1>1, <1>3, <2>1, IdleOK DEF CallOK, Call, PC, Revoking
  <2>4. call' = [call EXCEPT ![c] = q]
    BY <1>3
  <2> HIDE DEF q, proved
  <2>5. CallOK(q)
    BY <1>3, <2>2, <2>3 DEF CallOK, Revoking, Clients
  <2>6. ~Exchanges(call[c])
    BY <1>1, <1>3 DEF CallOK, Exchanges
  <2>7. UNCHANGED <<server, expired, account, held, storage, revs, fate>>
    BY DEF Authorise
  <2>8. Quiet(c, q)
    BY <1>1, <2>2, <2>4, <2>5, <2>6, <2>7 DEF Quiet, Becomes
  <2> QED
    BY <2>8
<1> QED
  BY <1>2, <1>3 DEF Authorise

\* A request that was refused ends, or tries to refresh with the token its client holds.
LEMMA UnauthorisedKind ==
  ASSUME TypeInv, NEW c \in Calls, Unauthorised(c) PROVE \E q : Quiet(c, q)
<1>1. /\ CallOK(call[c]) /\ call[c].pc = "sent" /\ call[c].client \in Clients
      /\ held \in [Clients -> 0..MaxPairs] /\ account \in {"ok", "suspended", "deleted"}
      /\ UNCHANGED <<server, expired, account, held, storage, revs, fate>>
  BY DEF TypeInv, CallsOK, CallOK, TablesOK, Unauthorised, At
<1>2. CASE ~call[c].retry
  BY <1>1, <1>2, AnswerKind DEF Unauthorised
<1>3. CASE call[c].retry
  <2>1. call[c].grant = 0
    BY <1>1, <1>3 DEF CallOK
  <2>2. CASE Goto(c, "refused")
    BY <1>1, <2>1, <2>2, GotoKind DEF Exchanges
  <2>3. CASE ~Goto(c, "refused")
    <3> DEFINE tok == IF call[c].client \in Jars THEN call[c].tok ELSE held[call[c].client]
               q   == [call[c] EXCEPT !.pc = "refreshing", !.acc = 0, !.tok = tok]
    <3>1. call' = [call EXCEPT ![c] = q]
      BY <1>1, <1>3, <2>3 DEF Unauthorised, TypeInv, CallsOK, CallOK, Call
    <3>2. tok \in 0..MaxPairs /\ tok \in {call[c].tok} \union {held[cl] : cl \in Clients}
      BY <1>1 DEF CallOK, Call
    <3> HIDE DEF tok
    <3>3. /\ q \in Call /\ q.pc = "refreshing" /\ q.client = call[c].client /\ q.tok = tok
          /\ q.grant = 0
      BY <1>1, <2>1, <3>2 DEF CallOK, Call, PC
    <3> HIDE DEF q
    <3>4. CallOK(q)
      BY <1>1, <3>3 DEF CallOK, Revoking
    <3>5. ~Exchanges(call[c])
      BY <1>1, <2>1 DEF Exchanges
    <3>6. Quiet(c, q)
      BY <1>1, <3>1, <3>2, <3>3, <3>4, <3>5 DEF Quiet, Becomes
    <3> QED
      BY <3>6
  <2> QED
    BY <2>2, <2>3
<1> QED
  BY <1>2, <1>3

\* A handler that only reads goes on; the one that marks the account as well.
LEMMA ReadKind ==
  ASSUME TypeInv, NEW c \in Calls, RefreshFind(c) \/ LoginCompare(c) \/ LogoutFind(c) \/ Bar(c)
  PROVE  \E q : Quiet(c, q)
<1>1. /\ CallOK(call[c]) /\ call[c].grant = 0 /\ ~Exchanges(call[c]) /\ call[c].pc # "idle"
      /\ account \in {"ok", "suspended", "deleted"} /\ revs \in 0..MaxRevs
  BY DEF TypeInv, CallsOK, CallOK, TablesOK, Exchanges, At, RefreshFind, LoginCompare, LogoutFind, Bar
<1>2. CASE RefreshFind(c)
  <2>1. \E pc \in {"rotating", "refused"} : Goto(c, pc)
    BY <1>2 DEF RefreshFind, Goto
  <2> QED
    BY <1>1, <1>2, <2>1, GotoKind DEF RefreshFind
<1>3. CASE LogoutFind(c)
  <2>1. \E pc \in {"drop", "signout"} : Goto(c, pc)
    BY <1>3 DEF LogoutFind
  <2> QED
    BY <1>1, <1>3, <2>1, GotoKind DEF LogoutFind
<1>4. CASE Bar(c)
  BY <1>1, <1>4, GotoKind DEF Bar
<1>5. CASE LoginCompare(c)
  <2>1. CASE End(c)
    BY <1>1, <1>5, <2>1, EndKind DEF LoginCompare
  <2>2. CASE ~End(c)
    <3> DEFINE q == [call[c] EXCEPT !.pc = "issuing", !.epoch = revs]
    <3>1. call' = [call EXCEPT ![c] = q]
      BY <1>5, <2>2 DEF LoginCompare, TypeInv, CallsOK, CallOK, Call
    <3>2. /\ q \in Call /\ q.pc = "issuing" /\ q.client = call[c].client /\ q.grant = 0
          /\ q.epoch = revs /\ q.tok = 0
      BY <1>1, <1>5 DEF CallOK, Call, PC, LoginCompare, At
    <3> HIDE DEF q
    <3>3. CallOK(q)
      BY <1>1, <3>2 DEF CallOK, Revoking
    <3>4. Quiet(c, q)
      BY <1>1, <1>5, <3>1, <3>2, <3>3 DEF Quiet, Becomes, LoginCompare
    <3> QED
      BY <3>4
  <2> QED
    BY <2>1, <2>2
<1> QED
  BY <1>2, <1>3, <1>4, <1>5

\* A pair reaches its client, or the client signs out; a jar waits for the answer.
LEMMA HandKind ==
  ASSUME TypeInv, NEW c \in Calls, Receive(c) \/ Deliver(c) \/ Refused(c) \/ SignOut(c)
  PROVE  \E q : Quiet(c, q) \/ \E n : Hands(c, q, n)
<1>1. /\ CallOK(call[c]) /\ call[c].client \in Clients
      /\ account \in {"ok", "suspended", "deleted"}
  BY DEF TypeInv, CallsOK, CallOK, TablesOK, At, Receive, Deliver, Refused, SignOut
<1>2. Idle.tok = 0 /\ Idle.grant = 0 /\ Idle.pc = "idle"
  BY DEF Idle
<1>3. CASE Deliver(c) \/ Refused(c) \/ SignOut(c)
  <2>1. \E n : Hands(c, Idle, n)
    BY <1>1, <1>2, <1>3, IdleOK DEF Hands, Becomes, Deliver, Refused, SignOut, End
  <2> QED
    BY <2>1
<1>4. CASE Receive(c)
  <2>1. call[c].pc = "granted" /\ call[c].grant # 0
    BY <1>1, <1>4 DEF Receive, At, CallOK
  <2>2. CASE call[c].tok = 0
    <3>1. Hands(c, Idle, call[c].grant)
      BY <1>1, <1>2, <1>4, <2>2, IdleOK DEF Hands, Becomes, Receive, End
    <3> QED
      BY <3>1
  <2>3. CASE call[c].tok # 0
    <3> DEFINE jar == call[c].client \in Jars
               tok == IF jar THEN call[c].tok ELSE 0
               new == IF jar THEN call[c].grant ELSE 0
               q   == [Idle EXCEPT !.pc = "sent", !.client = call[c].client, !.acc = call[c].grant,
                                   !.tok = tok, !.grant = new]
    <3>1. call' = [call EXCEPT ![c] = q]
      BY <1>4, <2>3 DEF Receive
    <3>2. /\ q.pc = "sent" /\ q.client = call[c].client /\ q.acc = call[c].grant /\ ~q.retry
          /\ q.tok = tok /\ q.grant = new
      BY DEF Idle
    <3>3. q \in Call
      <4>1. tok \in 0..MaxPairs /\ new \in 0..MaxPairs
        BY <1>1 DEF CallOK, Call
      <4> HIDE DEF tok, new
      <4> QED
        BY <1>1, <4>1, IdleOK DEF CallOK, Call, PC
    <3> HIDE DEF q
    <3>4. CallOK(q)
      BY <1>1, <2>1, <3>2, <3>3 DEF CallOK, Revoking
    <3>5. CASE jar
      <4>1. Quiet(c, q)
        BY <1>1, <1>4, <2>1, <2>3, <3>1, <3>2, <3>4, <3>5 DEF Quiet, Becomes, Receive, Exchanges
      <4> QED
        BY <4>1
    <3>6. CASE ~jar
      <4>1. Hands(c, q, call[c].grant)
        BY <1>1, <1>4, <2>3, <3>1, <3>2, <3>4, <3>6 DEF Hands, Becomes, Receive
      <4> QED
        BY <4>1
    <3> QED
      BY <3>5, <3>6
  <2> QED
    BY <2>2, <2>3
<1> QED
  BY <1>3, <1>4

\* A lost call leaves its tab refused, or nothing.
LEMMA LoseKind == ASSUME TypeInv, NEW c \in Calls, Lose(c) PROVE \E q : Loses(c, q)
<1>1. CallOK(call[c]) /\ call[c].pc # "idle"
  BY DEF TypeInv, CallsOK, Lose
<1>2. CASE Goto(c, "refused")
  <2> DEFINE q == [call[c] EXCEPT !.pc = "refused"]
  <2>1. /\ CallOK(q) /\ q.pc = "refused" /\ q.tok = call[c].tok /\ q.grant = call[c].grant
        /\ call' = [call EXCEPT ![c] = q]
    BY <1>1, <1>2 DEF CallOK, Call, PC, Revoking, Goto
  <2> HIDE DEF q
  <2>2. Loses(c, q)
    BY <2>1 DEF Loses, Becomes, Lose
  <2> QED
    BY <2>2
<1>3. CASE End(c)
  <2>1. Idle.tok = 0 /\ Idle.grant = 0 /\ Idle.pc = "idle"
    BY DEF Idle
  <2>2. Loses(c, Idle)
    BY <1>3, <2>1, IdleOK DEF Loses, Becomes, Lose, End
  <2> QED
    BY <2>2
<1> QED
  BY <1>2, <1>3 DEF Lose

\* The delete of refreshTokens takes the row, or fails.
LEMMA DeleteKind ==
  ASSUME TypeInv, NEW c \in Calls, RefreshDelete(c)
  PROVE  (\E q : Quiet(c, q)) \/ \E t : Consumes(c, t)
<1>1. /\ CallOK(call[c]) /\ call[c].pc = "rotating" /\ call[c].grant = 0 /\ ~Exchanges(call[c])
      /\ account \in {"ok", "suspended", "deleted"}
  BY DEF TypeInv, CallsOK, CallOK, TablesOK, RefreshDelete, At, Exchanges
<1>2. CASE call[c].tok \in rows
  <2>1. Consumes(c, call[c].tok)
    BY <1>2 DEF RefreshDelete, Consumes
  <2> QED
    BY <2>1
<1>3. CASE call[c].tok \notin rows
  BY <1>1, <1>3, GotoKind DEF RefreshDelete, server
<1> QED
  BY <1>2, <1>3

\* A revocation ends every pair and marks the handlers it cannot reach.
LEMMA RevokeKind == ASSUME TypeInv, NEW c \in Calls, Revoke(c) PROVE Removes(rows)
<1> DEFINE q(d) == CASE d = c -> [call[c] EXCEPT !.pc = AfterRevoke(c), !.epoch = revs + 1, !.loose = FALSE]
                     [] d # c /\ InHand(call[d]) -> [call[d] EXCEPT !.loose = TRUE]
                     [] OTHER -> call[d]
<1>1. /\ \A d \in Calls : CallOK(call[d])
      /\ call[c].pc \in Revoking /\ revs + 1 \in 0..MaxRevs
  BY DEF TypeInv, CallsOK, TablesOK, Revoke, Revoked
<1>2. AfterRevoke(c) \in {"issuing", "bar", "signout"}
  BY <1>1 DEF AfterRevoke, Revoking, At
<1>3. ASSUME NEW d \in Calls
      PROVE  /\ CallOK(q(d)) /\ q(d).client = call[d].client /\ q(d).tok = call[d].tok
             /\ q(d).grant = call[d].grant
             /\ Exchanges(call[d]) => Exchanges(q(d))
             /\ q(d).pc = "issuing" =>
                    (At(d, "issuing") \/ call[d].tok = 0) /\ (q(d).loose \/ q(d).epoch = revs + 1)
  <2>1. CASE d = c
    <3> DEFINE p == [call[c] EXCEPT !.pc = AfterRevoke(c), !.epoch = revs + 1, !.loose = FALSE]
    <3>1. /\ p \in Call /\ p.pc = AfterRevoke(c) /\ p.client = call[c].client /\ p.tok = call[c].tok
          /\ p.grant = call[c].grant /\ p.epoch = revs + 1
      BY ZenonT(30), <1>1, <1>2 DEF CallOK, Call, PC
    <3> HIDE DEF p
    <3>2. call[c].tok = 0 /\ call[c].grant = 0 /\ ~Exchanges(call[c])
      BY <1>1 DEF CallOK, Exchanges, Revoking
    <3>3. CallOK(p)
      BY <1>1, <1>2, <3>1, <3>2 DEF CallOK, Revoking
    <3>4. q(d) = p
      BY <2>1 DEF p
    <3> QED
      BY <2>1, <3>1, <3>2, <3>3, <3>4
  <2>2. CASE d # c /\ InHand(call[d])
    <3> DEFINE p == [call[d] EXCEPT !.loose = TRUE]
    <3>1. /\ p \in Call /\ p.pc = call[d].pc /\ p.client = call[d].client /\ p.tok = call[d].tok
          /\ p.grant = call[d].grant /\ p.acc = call[d].acc /\ p.retry = call[d].retry /\ p.loose
      BY <1>1 DEF CallOK, Call
    <3> HIDE DEF p
    <3>2. CallOK(p)
      BY <1>1, <3>1 DEF CallOK
    <3>3. q(d) = p
      BY <2>2 DEF p
    <3> QED
      BY <2>2, <3>1, <3>2, <3>3 DEF Exchanges, InHand, At
  <2>3. CASE d # c /\ ~InHand(call[d])
    BY <1>1, <2>3 DEF InHand
  <2> QED
    BY <2>1, <2>2, <2>3
<1>4. call' = [d \in Calls |-> q(d)]
  BY DEF Revoke, Revoked
<1> HIDE DEF q
<1>5. call' \in [Calls -> Call] /\ \A d \in Calls : call'[d] = q(d)
  BY <1>3, <1>4 DEF CallOK
<1>6. CallsOK'
  BY <1>3, <1>5 DEF CallsOK, CallOK
<1>7. /\ revs' = revs + 1 /\ rows' = rows \ rows /\ fate' = Ended(rows)
      /\ UNCHANGED <<issued, epoch, loose, expired, account, held, storage>>
  BY DEF Revoke, Revoked
<1>8. \A d \in Calls : call'[d].pc = "issuing" => call'[d].loose \/ call'[d].epoch = revs'
  BY <1>3, <1>5, <1>7
<1> QED
  BY <1>1, <1>3, <1>5, <1>6, <1>7, <1>8 DEF Removes

\* A logout, or the time, ends one pair.
LEMMA EndPairKind ==
  ASSUME TypeInv,
         (\E c \in Calls : LogoutDelete(c)) \/ (\E n \in Pairs : ExpireRefresh(n))
  PROVE  \E S : Removes(S)
<1>1. CallsOK /\ revs \in 0..MaxRevs
  BY DEF TypeInv, TablesOK
<1>2. ASSUME NEW c \in Calls, LogoutDelete(c) PROVE Removes(rows \intersect {call[c].tok})
  <2> DEFINE q == [call[c] EXCEPT !.pc = "signout"]
  <2>1. CallOK(call[c]) /\ call[c].pc = "drop" /\ call[c].grant = 0 /\ ~Exchanges(call[c])
    BY <1>1, <1>2 DEF CallsOK, CallOK, LogoutDelete, At, Exchanges
  <2>2. /\ CallOK(q) /\ q.pc = "signout" /\ q.client = call[c].client /\ q.tok = call[c].tok
        /\ q.grant = call[c].grant
    BY <2>1 DEF CallOK, Call, PC, Revoking
  <2>3. call' = [call EXCEPT ![c] = q]
    BY <1>2 DEF LogoutDelete, Goto
  <2> HIDE DEF q
  <2>4. CallsOK'
    BY <1>1, <2>2, <2>3 DEF CallsOK, CallOK
  <2>5. \A d \in Calls : call'[d] = IF d = c THEN q ELSE call[d]
    BY <1>1, <2>3 DEF CallsOK
  <2> QED
    BY <1>1, <1>2, <2>1, <2>2, <2>4, <2>5 DEF Removes, LogoutDelete, At
<1>3. ASSUME NEW n \in Pairs, ExpireRefresh(n) PROVE Removes({n})
  BY <1>1, <1>3 DEF Removes, ExpireRefresh, CallsOK, CallOK, At
<1> QED
  BY <1>2, <1>3

\* Every step is of one of the kinds.
LEMMA StepKinds == TypeInv /\ [Next]_vars => Kind
<1> SUFFICES ASSUME TypeInv, [Next]_vars PROVE Kind
  OBVIOUS
<1>1. ASSUME NEW c \in Calls, NEW cl \in Clients,
             Send(c, cl) \/ LoginStart(c, cl) \/ OAuthLogin(c, cl) \/ LogoutStart(c, cl)
      PROVE  Kind
  BY <1>1, BeginKind DEF Kind
<1>2. ASSUME NEW c \in Calls,
             \/ Authorise(c) \/ Unauthorised(c) \/ RefreshFind(c) \/ LoginCompare(c)
             \/ LogoutFind(c) \/ Bar(c)
      PROVE  Kind
  BY <1>2, AuthoriseKind, UnauthorisedKind, ReadKind DEF Kind
<1>3. ASSUME NEW c \in Calls, Receive(c) \/ Refused(c) \/ Deliver(c) \/ SignOut(c) PROVE Kind
  BY <1>3, HandKind DEF Kind
<1>4. ASSUME NEW c \in Calls, Lose(c) \/ RefreshDelete(c) \/ Issue(c) PROVE Kind
  BY <1>4, LoseKind, DeleteKind DEF Kind
<1>5. ASSUME NEW c \in Calls, LogoutDelete(c) \/ Revoke(c) PROVE Kind
  BY <1>5, RevokeKind, EndPairKind DEF Kind
<1>6. CASE \E n \in Pairs : ExpireRefresh(n)
  BY <1>6, EndPairKind DEF Kind
<1>7. CASE ExpireAccess \/ Suspend \/ UNCHANGED vars
  BY <1>7 DEF ExpireAccess, Suspend, vars, Kind, Aside, TypeInv, TablesOK
<1>8. CASE \E cl \in Clients : Hydrate(cl)
  BY <1>8 DEF Kind
<1> QED
  BY <1>1, <1>2, <1>3, <1>4, <1>5, <1>6, <1>7, <1>8 DEF Next

\* What the calls are after a step of each kind.
LEMMA BecomesCalls ==
  ASSUME TypeInv, NEW c \in Calls, NEW q, Becomes(c, q)
  PROVE  CallsOK' /\ \A d \in Calls : call'[d] = IF d = c THEN q ELSE call[d]
<1>1. q \in Call
  BY DEF Becomes, CallOK
<1> QED
  BY <1>1 DEF TypeInv, CallsOK, Becomes

\* The same for the call whose token was taken.
LEMMA ConsumesCalls ==
  ASSUME TypeInv, NEW c \in Calls, NEW t, Consumes(c, t)
  PROVE  /\ CallsOK'
         /\ \A d \in Calls \ {c} : call'[d] = call[d]
         /\ call'[c].pc = "issuing" /\ call'[c].client = call[c].client
         /\ call'[c].tok = t /\ call'[c].grant = 0 /\ call[c].grant = 0
         /\ call'[c].epoch = epoch[t] /\ (t \in loose => call'[c].loose)
         /\ t \in Pairs /\ call[c].client \in Clients /\ ~Exchanges(call[c])
         /\ call[c].tok = t /\ t \in rows /\ rows' = rows \ {t}
         /\ \A n \in Pairs : fate'[n] = IF n = t THEN call[c].client ELSE fate[n]
         /\ UNCHANGED <<issued, epoch, loose, held, storage, revs>>
<1> DEFINE was  == epoch[t]
           free == t \in loose
           q    == [call[c] EXCEPT !.pc = "issuing", !.epoch = was, !.loose = free]
<1>1. /\ CallOK(call[c]) /\ call[c].pc = "rotating" /\ call[c].grant = 0 /\ t \in Pairs
      /\ call[c].client \in Clients /\ call[c].tok = t /\ was \in 0..MaxRevs /\ free \in BOOLEAN
  BY DEF TypeInv, CallsOK, CallOK, TablesOK, Consumes, At
<1>2. call' = [call EXCEPT ![c] = q]
  BY DEF Consumes, TypeInv, CallsOK, CallOK, Call
<1>3. /\ q \in Call /\ q.pc = "issuing" /\ q.client = call[c].client /\ q.tok = t /\ q.grant = 0
      /\ q.epoch = was /\ q.loose = free
  <2> HIDE DEF was, free
  <2> QED
    BY <1>1 DEF CallOK, Call, PC
<1> HIDE DEF q
<1>4. CallOK(q)
  BY <1>1, <1>3 DEF CallOK, Revoking
<1>5. Becomes(c, q)
  BY <1>2, <1>4 DEF Becomes
<1>6. CallsOK' /\ \A d \in Calls : call'[d] = IF d = c THEN q ELSE call[d]
  BY <1>5, BecomesCalls
<1>7. /\ t \in rows /\ rows' = rows \ {t}
      /\ \A n \in Pairs : fate'[n] = IF n = t THEN call[c].client ELSE fate[n]
      /\ UNCHANGED <<issued, epoch, loose, held, storage, revs>>
  BY DEF Consumes, TypeInv, TablesOK
<1> QED
  BY <1>1, <1>3, <1>6, <1>7 DEF Exchanges

\* And for the one that was granted a pair.
LEMMA IssueCalls ==
  ASSUME TypeInv, NEW c \in Calls, Issue(c)
  PROVE  /\ CallsOK' /\ issued + 1 \in Pairs
         /\ \A d \in Calls \ {c} : call'[d] = call[d]
         /\ call'[c].pc = "granted" /\ call'[c].client = call[c].client
         /\ call'[c].tok = call[c].tok /\ call'[c].grant = issued + 1
         /\ call[c].pc = "issuing" /\ call[c].epoch \in 0..MaxRevs
         /\ rows' = rows \union {issued + 1} /\ issued' = issued + 1
         /\ UNCHANGED <<held, storage, revs, fate>>
<1> DEFINE n == issued + 1
           q == [call[c] EXCEPT !.pc = "granted", !.grant = n]
<1>1. CallOK(call[c]) /\ call[c].pc = "issuing" /\ n \in Pairs /\ n \in 0..MaxPairs /\ n # 0
  BY DEF TypeInv, CallsOK, TablesOK, Issue, At, Pairs
<1>2. call' = [call EXCEPT ![c] = q]
  BY DEF Issue, TypeInv, CallsOK, CallOK, Call
<1> HIDE DEF n
<1>3. /\ q \in Call /\ q.pc = "granted" /\ q.client = call[c].client /\ q.tok = call[c].tok
      /\ q.grant = n /\ call[c].epoch \in 0..MaxRevs
  BY <1>1 DEF CallOK, Call, PC
<1> HIDE DEF q
<1>4. CallOK(q)
  BY <1>1, <1>3 DEF CallOK, Revoking
<1>5. Becomes(c, q)
  BY <1>2, <1>4 DEF Becomes
<1>6. CallsOK' /\ \A d \in Calls : call'[d] = IF d = c THEN q ELSE call[d]
  BY <1>5, BecomesCalls
<1>7. /\ rows' = rows \union {issued + 1} /\ issued' = issued + 1
      /\ UNCHANGED <<held, storage, revs, fate>>
  BY DEF Issue
<1> QED
  BY <1>1, <1>3, <1>6, <1>7 DEF n

\* Ending pairs leaves a fate for each pair.
LEMMA EndedType ==
  ASSUME TypeInv, NEW S
  PROVE  /\ Ended(S) \in [Pairs -> Clients \union {None, "ended"}]
         /\ \A n \in Pairs : Ended(S)[n] = IF n \in S THEN "ended" ELSE fate[n]
  BY DEF TypeInv, TablesOK, Ended

\* The state stays well formed.
LEMMA TypeStep == TypeInv /\ [Next]_vars => TypeInv'
<1> SUFFICES ASSUME TypeInv, [Next]_vars PROVE TypeInv'
  OBVIOUS
<1>1. Kind
  BY StepKinds
<1>2. ASSUME NEW c \in Calls, NEW q, Quiet(c, q) PROVE TypeInv'
  BY <1>2, BecomesCalls DEF Quiet, TypeInv, TablesOK, server
<1>3. ASSUME NEW c \in Calls, NEW q, Loses(c, q) PROVE TypeInv'
  BY <1>3, BecomesCalls, EndedType DEF Loses, TypeInv, TablesOK, server
<1>4. ASSUME NEW c \in Calls, NEW q, NEW n, Hands(c, q, n) PROVE TypeInv'
  <2>1. n \in 0..MaxPairs
    BY <1>4 DEF Hands, TypeInv, CallsOK, CallOK, Call
  <2> QED
    BY <1>4, <2>1, BecomesCalls DEF Hands, Hold, TypeInv, TablesOK, server
<1>5. ASSUME NEW c \in Calls, NEW t, Consumes(c, t) PROVE TypeInv'
  <2>1. CallsOK' /\ t \in Pairs /\ call[c].client \in Clients
    BY <1>5, ConsumesCalls
  <2> QED
    BY <1>5, <2>1 DEF Consumes, TypeInv, TablesOK
<1>6. ASSUME NEW c \in Calls, Issue(c) PROVE TypeInv'
  <2>1. CallsOK' /\ issued + 1 \in Pairs /\ call[c].epoch \in 0..MaxRevs
    BY <1>6, IssueCalls
  <2>2. issued + 1 \in 0..MaxPairs
    BY <2>1 DEF Pairs
  <2> QED
    BY <1>6, <2>1, <2>2 DEF Issue, TypeInv, TablesOK
<1>7. ASSUME NEW S, Removes(S) PROVE TypeInv'
  BY <1>7, EndedType DEF Removes, TypeInv, TablesOK
<1>8. ASSUME NEW cl \in Clients, Hydrate(cl) PROVE TypeInv'
  BY <1>8 DEF Hydrate, TypeInv, TablesOK, CallsOK, server
<1>9. CASE Aside
  BY <1>9 DEF Aside, TypeInv, TablesOK, CallsOK, server
<1> QED
  BY <1>1, <1>2, <1>3, <1>4, <1>5, <1>6, <1>7, <1>8, <1>9 DEF Kind

\* Only pairs that were issued are ever known.
LEMMA KnownKept == SessionInv /\ [Next]_vars => Known'
<1> SUFFICES ASSUME SessionInv, [Next]_vars PROVE Known'
  OBVIOUS
<1>1. /\ TypeInv /\ Known /\ Kind
      /\ issued \in Nat /\ storage \in Nat /\ held \in [Clients -> 0..MaxPairs]
      /\ \A c \in Calls : call[c].tok \in Nat /\ call[c].grant \in Nat
  BY StepKinds DEF SessionInv, TypeInv, TablesOK, CallsOK, CallOK, Call
<1>2. ASSUME NEW c \in Calls, NEW q, Quiet(c, q) PROVE Known'
  BY <1>1, <1>2, BecomesCalls DEF Quiet, Known, server
<1>3. ASSUME NEW c \in Calls, NEW q, Loses(c, q) PROVE Known'
  BY <1>1, <1>3, BecomesCalls DEF Loses, Known, server
<1>4. ASSUME NEW c \in Calls, NEW q, NEW n, Hands(c, q, n) PROVE Known'
  BY <1>1, <1>4, BecomesCalls DEF Hands, Hold, Known, server
<1>5. ASSUME NEW c \in Calls, NEW t, Consumes(c, t) PROVE Known'
  <2>1. /\ \A d \in Calls \ {c} : call'[d] = call[d]
        /\ call'[c].tok = call[c].tok /\ call'[c].grant = 0
        /\ rows' \subseteq rows /\ UNCHANGED <<issued, held, storage>>
    BY <1>1, <1>5, ConsumesCalls
  <2> QED
    BY <1>1, <2>1 DEF Known
<1>6. ASSUME NEW c \in Calls, Issue(c) PROVE Known'
  <2>1. /\ \A d \in Calls \ {c} : call'[d] = call[d]
        /\ call'[c].tok = call[c].tok /\ call'[c].grant = issued + 1
        /\ rows' = rows \union {issued + 1} /\ issued' = issued + 1 /\ UNCHANGED <<held, storage>>
    BY <1>1, <1>6, IssueCalls
  <2>2. ASSUME NEW t \in rows' PROVE t \in 1..issued'
    <3>1. t \in 1..issued \/ t = issued + 1
      BY <1>1, <2>1, <2>2 DEF Known
    <3> QED
      BY <1>1, <2>1, <3>1
  <2>3. storage' <= issued' /\ \A cl \in Clients : held'[cl] <= issued'
    BY <1>1, <2>1 DEF Known
  <2>4. \A d \in Calls : call'[d].tok <= issued' /\ call'[d].grant <= issued'
    BY <1>1, <2>1 DEF Known
  <2> QED
    BY <2>2, <2>3, <2>4 DEF Known
<1>7. ASSUME NEW S, Removes(S) PROVE Known'
  BY <1>1, <1>7 DEF Removes, Known
<1>8. ASSUME NEW cl \in Clients, Hydrate(cl) PROVE Known'
  BY <1>1, <1>8 DEF Hydrate, Known, server
<1>9. CASE Aside
  BY <1>1, <1>9 DEF Aside, Known, server
<1> QED
  BY <1>1, <1>2, <1>3, <1>4, <1>5, <1>6, <1>7, <1>8, <1>9 DEF Kind

\* A token is exchanged by one call.
LEMMA ExchangedOnceKept == SessionInv /\ [Next]_vars => ExchangedOnce'
<1> SUFFICES ASSUME SessionInv, [Next]_vars PROVE ExchangedOnce'
  OBVIOUS
<1>1. TypeInv /\ Known /\ ExchangedOnce /\ Kind /\ issued \in Nat
  BY StepKinds DEF SessionInv, TypeInv, TablesOK
<1>2. ASSUME NEW c \in Calls, NEW q, Quiet(c, q) PROVE ExchangedOnce'
  BY <1>1, <1>2, BecomesCalls DEF Quiet, ExchangedOnce, At, server
<1>3. ASSUME NEW c \in Calls, NEW q, Loses(c, q) PROVE ExchangedOnce'
  BY <1>1, <1>3, BecomesCalls DEF Loses, ExchangedOnce, At, server
<1>4. ASSUME NEW c \in Calls, NEW q, NEW n, Hands(c, q, n) PROVE ExchangedOnce'
  BY <1>1, <1>4, BecomesCalls DEF Hands, ExchangedOnce, At, server
<1>5. ASSUME NEW c \in Calls, NEW t, Consumes(c, t) PROVE ExchangedOnce'
  BY <1>1, <1>5, ConsumesCalls DEF ExchangedOnce, At
<1>6. ASSUME NEW c \in Calls, Issue(c) PROVE ExchangedOnce'
  <2>1. \A d \in Calls : call[d].tok # issued + 1
    BY <1>1 DEF Known, TypeInv, CallsOK, CallOK, Call
  <2> QED
    BY <1>1, <1>6, <2>1, IssueCalls DEF ExchangedOnce, At
<1>7. ASSUME NEW S, Removes(S) PROVE ExchangedOnce'
  BY <1>1, <1>7 DEF Removes, ExchangedOnce, At
<1>8. ASSUME UNCHANGED <<rows, call>> PROVE ExchangedOnce'
  BY <1>1, <1>8 DEF ExchangedOnce, At
<1> QED
  BY <1>1, <1>2, <1>3, <1>4, <1>5, <1>6, <1>7, <1>8 DEF Kind, Hydrate, Aside, server

\* A pair on its way stays out of everybody else's hands.
LEMMA GrantsKept == SessionInv /\ [Next]_vars => GrantsApart'
<1> SUFFICES ASSUME SessionInv, [Next]_vars PROVE GrantsApart'
  OBVIOUS
<1>1. /\ TypeInv /\ Known /\ GrantsApart /\ Kind /\ issued \in Nat /\ storage \in Nat
      /\ held \in [Clients -> 0..MaxPairs]
      /\ \A c \in Calls : call[c].tok \in Nat /\ call[c].grant \in 0..issued /\ call[c].grant \in 0..MaxPairs
  BY StepKinds DEF SessionInv, TypeInv, TablesOK, CallsOK, CallOK, Call, Known
<1>2. ASSUME NEW c \in Calls, NEW q, Quiet(c, q) PROVE GrantsApart'
  BY <1>1, <1>2, BecomesCalls DEF Quiet, GrantsApart, OnItsWay, server
<1>3. ASSUME NEW c \in Calls, NEW q, Loses(c, q) PROVE GrantsApart'
  <2>1. \A n \in Pairs : fate'[n] = fate[n] \/ fate'[n] = "ended"
    BY <1>1, <1>3, EndedType DEF Loses
  <2>2. /\ q.tok \in {0, call[c].tok} /\ q.grant \in {0, call[c].grant}
        /\ UNCHANGED <<rows, held, storage>>
    BY <1>3 DEF Loses, server
  <2>3. \A d \in Calls : call'[d] = IF d = c THEN q ELSE call[d]
    BY <1>1, <1>3, BecomesCalls DEF Loses
  <2> QED
    BY <1>1, <2>1, <2>2, <2>3 DEF GrantsApart, OnItsWay, Pairs
<1>4. ASSUME NEW c \in Calls, NEW q, NEW n, Hands(c, q, n) PROVE GrantsApart'
  BY <1>1, <1>4, BecomesCalls DEF Hands, Hold, GrantsApart, OnItsWay, server
<1>5. ASSUME NEW c \in Calls, NEW t, Consumes(c, t) PROVE GrantsApart'
  BY <1>1, <1>5, ConsumesCalls DEF GrantsApart, OnItsWay, Pairs
<1>6. ASSUME NEW c \in Calls, Issue(c) PROVE GrantsApart'
  <2>1. /\ storage # issued + 1 /\ \A cl \in Clients : held[cl] # issued + 1
        /\ \A d \in Calls : call[d].tok # issued + 1 /\ call[d].grant # issued + 1
    BY <1>1 DEF Known
  <2> QED
    BY <1>1, <1>6, <2>1, IssueCalls DEF GrantsApart, OnItsWay
<1>7. ASSUME NEW S, Removes(S) PROVE GrantsApart'
  <2>1. \A n \in Pairs : fate'[n] = IF n \in S THEN "ended" ELSE fate[n]
    BY <1>1, <1>7, EndedType DEF Removes
  <2> QED
    BY <1>1, <1>7, <2>1 DEF Removes, GrantsApart, OnItsWay, Pairs
<1>8. ASSUME NEW cl \in Clients, Hydrate(cl) PROVE GrantsApart'
  BY <1>1, <1>8 DEF Hydrate, GrantsApart, OnItsWay, server
<1>9. CASE Aside
  BY <1>1, <1>9 DEF Aside, GrantsApart, OnItsWay, server
<1> QED
  BY <1>1, <1>2, <1>3, <1>4, <1>5, <1>6, <1>7, <1>8, <1>9 DEF Kind

\* What a client exchanged and still holds is being answered.
LEMMA FatesKept == SessionInv /\ [Next]_vars => Fates'
<1> SUFFICES ASSUME SessionInv, [Next]_vars PROVE Fates'
  OBVIOUS
<1>1. /\ TypeInv /\ Known /\ GrantsApart /\ Fates /\ Kind /\ issued \in 0..MaxPairs
      /\ storage \in Nat /\ held \in [Clients -> 0..MaxPairs]
      /\ \A c \in Calls : call[c].tok \in Nat /\ call[c].grant \in 0..issued
      /\ Tabs \subseteq Clients /\ \A cl \in Clients : cl # "ended" /\ cl # None
  BY StepKinds DEF SessionInv, TypeInv, TablesOK, CallsOK, CallOK, Call, Known, Clients
\* A step that ends some pairs and keeps the calls of the others.
<1>2. ASSUME UNCHANGED issued, rows' \subseteq rows,
             \A n \in Pairs : n \notin rows' => (n \notin rows /\ fate'[n] = fate[n]) \/ fate'[n] = "ended",
             \A d \in Calls : Exchanges(call[d]) =>
                \/ fate'[call[d].tok] = "ended"
                \/ /\ call'[d].client = call[d].client /\ call'[d].tok = call[d].tok
                   /\ Exchanges(call'[d])
      PROVE  /\ \A n \in 1..issued' : n \notin rows' => fate'[n] # None
             /\ \A cl \in Clients, n \in 0..MaxPairs : FateOK(cl, n) => FateOK(cl, n)'
  BY <1>1, <1>2 DEF Fates, FateOK, Exchanging, Pairs
<1>3. ASSUME NEW c \in Calls, NEW q, Quiet(c, q) PROVE Fates'
  <2>1. /\ UNCHANGED <<issued, rows, held, storage, fate>>
        /\ \A d \in Calls : Exchanges(call[d]) =>
                /\ call'[d].client = call[d].client /\ call'[d].tok = call[d].tok
                /\ Exchanges(call'[d])
    BY <1>1, <1>3, BecomesCalls DEF Quiet, server
  <2> QED
    BY <1>1, <1>2, <2>1 DEF Fates, TypeInv, TablesOK
<1>4. ASSUME NEW c \in Calls, NEW q, Loses(c, q) PROVE Fates'
  <2>1. UNCHANGED <<issued, rows, held, storage>>
    BY <1>4 DEF Loses, server
  <2>2. \A n \in Pairs : fate'[n] = fate[n] \/ fate'[n] = "ended"
    BY <1>1, <1>4, EndedType DEF Loses
  <2>3. \A d \in Calls \ {c} : call'[d] = call[d]
    BY <1>1, <1>4, BecomesCalls DEF Loses
  <2>4. Exchanges(call[c]) => \A n \in Pairs : call[c].tok = n => fate'[n] = "ended"
    BY <1>1, <1>4, EndedType DEF Loses, Exchanges
  <2>5. \A n \in 1..issued : n \notin rows => fate'[n] # None
    BY <1>1, <2>2 DEF Fates, Pairs
  <2>6. ASSUME NEW cl \in Clients, NEW n \in 0..MaxPairs, FateOK(cl, n) PROVE FateOK(cl, n)'
    BY <1>1, <2>1, <2>2, <2>3, <2>4, <2>6 DEF FateOK, Exchanging, Pairs
  <2> QED
    BY <1>1, <2>1, <2>5, <2>6 DEF Fates, TypeInv, TablesOK
<1>5. ASSUME NEW c \in Calls, NEW q, NEW n, Hands(c, q, n) PROVE Fates'
  <2> DEFINE me == call[c].client
  <2>1. /\ me \in Clients /\ held' = [held EXCEPT ![me] = n]
        /\ storage' = IF me \in Tabs THEN n ELSE storage
        /\ n \in {0, call[c].grant} /\ UNCHANGED <<issued, rows, fate>>
    BY <1>5 DEF Hands, Hold, server
  <2>2. \A d \in Calls \ {c} : call'[d] = call[d]
    BY <1>1, <1>5, BecomesCalls DEF Hands
  <2>3. \A cl \in Clients : FateOK(cl, n)'
    <3>1. n # 0 => n \in rows \/ fate[n] = "ended"
      BY <1>1, <2>1 DEF GrantsApart, OnItsWay
    <3> QED
      BY <1>1, <2>1, <3>1 DEF FateOK
  <2>4. ASSUME NEW cl \in Clients \ {me}, NEW k \in 0..MaxPairs, FateOK(cl, k) PROVE FateOK(cl, k)'
    BY <1>1, <2>1, <2>2, <2>4 DEF FateOK, Exchanging
  <2>5. \A cl \in Clients : FateOK(cl, held[cl])'
    <3>1. \A cl \in Clients : held'[cl] = IF cl = me THEN n ELSE held[cl]
      BY <1>1, <2>1
    <3>2. \A cl \in Clients \ {me} : held[cl] \in 0..MaxPairs /\ FateOK(cl, held[cl])
      BY <1>1 DEF Fates
    <3> QED
      BY <2>3, <2>4, <3>1, <3>2 DEF FateOK, Exchanging
  <2>6. \A cl \in Tabs : FateOK(cl, storage)'
    <3>1. storage \in 0..MaxPairs /\ \A cl \in Tabs : FateOK(cl, storage)
      BY <1>1 DEF Fates, TypeInv, TablesOK
    <3> QED
      BY <1>1, <2>1, <2>3, <2>4, <3>1 DEF FateOK, Exchanging
  <2> QED
    BY <1>1, <2>1, <2>5, <2>6 DEF Fates
<1>6. ASSUME NEW c \in Calls, NEW t, Consumes(c, t) PROVE Fates'
  <2>1. /\ call'[c].pc = "issuing" /\ call'[c].client = call[c].client /\ call'[c].tok = t
        /\ call[c].client \in Clients /\ ~Exchanges(call[c])
        /\ \A d \in Calls \ {c} : call'[d] = call[d]
        /\ \A n \in Pairs : fate'[n] = IF n = t THEN call[c].client ELSE fate[n]
        /\ rows' = rows \ {t} /\ UNCHANGED <<issued, held, storage>>
    BY <1>1, <1>6, ConsumesCalls
  <2>2. \A n \in 1..issued' : n \notin rows' => fate'[n] # None
    BY <1>1, <2>1 DEF Fates, Pairs
  <2>3. ASSUME NEW cl \in Clients, NEW n \in 0..MaxPairs, FateOK(cl, n) PROVE FateOK(cl, n)'
    BY <1>1, <2>1, <2>3 DEF FateOK, Exchanging, Exchanges, Pairs
  <2> QED
    BY <1>1, <2>1, <2>2, <2>3 DEF Fates, TypeInv, TablesOK
<1>7. ASSUME NEW c \in Calls, Issue(c) PROVE Fates'
  <2>1. /\ call'[c].pc = "granted" /\ call'[c].client = call[c].client /\ call'[c].tok = call[c].tok
        /\ \A d \in Calls \ {c} : call'[d] = call[d]
        /\ rows' = rows \union {issued + 1} /\ issued' = issued + 1
        /\ UNCHANGED <<held, storage, fate>>
    BY <1>1, <1>7, IssueCalls
  <2>2. \A n \in 1..issued' : n \notin rows' => fate'[n] # None
    BY <1>1, <2>1 DEF Fates
  <2>3. ASSUME NEW cl \in Clients, NEW n \in 0..MaxPairs, FateOK(cl, n) PROVE FateOK(cl, n)'
    BY <1>1, <2>1, <2>3 DEF FateOK, Exchanging, Exchanges
  <2> QED
    BY <1>1, <2>1, <2>2, <2>3 DEF Fates, TypeInv, TablesOK
<1>8. ASSUME NEW S, Removes(S) PROVE Fates'
  <2>1. /\ S \subseteq rows /\ rows' = rows \ S /\ UNCHANGED <<issued, held, storage>>
        /\ \A d \in Calls : Exchanges(call[d]) =>
                /\ call'[d].client = call[d].client /\ call'[d].tok = call[d].tok
                /\ Exchanges(call'[d])
    BY <1>8 DEF Removes
  <2>2. \A n \in Pairs : fate'[n] = IF n \in S THEN "ended" ELSE fate[n]
    BY <1>1, <1>8, EndedType DEF Removes
  <2> QED
    BY <1>1, <1>2, <2>1, <2>2 DEF Fates, TypeInv, TablesOK
<1>9. ASSUME NEW me \in Clients, Hydrate(me) PROVE Fates'
  <2>1. /\ me \in Tabs /\ UNCHANGED <<issued, rows, storage, fate, call>>
        /\ \A cl \in Clients : held'[cl] = IF cl = me THEN storage ELSE held[cl]
    BY <1>1, <1>9 DEF Hydrate, server
  <2> QED
    BY <1>1, <2>1 DEF Fates, FateOK, Exchanging
<1>10. CASE Aside
  BY <1>1, <1>10 DEF Aside, Fates, FateOK, Exchanging, server
<1> QED
  BY <1>1, <1>3, <1>4, <1>5, <1>6, <1>7, <1>8, <1>9, <1>10 DEF Kind

\* What a revocation could not reach is marked, in the table and in hand.
LEMMA MarksKept == SessionInv /\ [Next]_vars => (RevokedSessionsEnd /\ InHandMarked)'
<1> SUFFICES ASSUME SessionInv, [Next]_vars PROVE (RevokedSessionsEnd /\ InHandMarked)'
  OBVIOUS
<1>1. /\ TypeInv /\ Known /\ RevokedSessionsEnd /\ InHandMarked /\ Kind /\ issued \in Nat /\ revs \in Nat
  BY StepKinds DEF SessionInv, TypeInv, TablesOK
<1>2. ASSUME UNCHANGED <<rows, epoch, revs, loose>> PROVE RevokedSessionsEnd'
  BY <1>1, <1>2 DEF RevokedSessionsEnd
<1>3. ASSUME NEW c \in Calls, NEW q, Quiet(c, q) PROVE (RevokedSessionsEnd /\ InHandMarked)'
  BY <1>1, <1>2, <1>3, BecomesCalls DEF Quiet, InHandMarked, At, server
<1>4. ASSUME NEW c \in Calls, NEW q, Loses(c, q) \/ \E n : Hands(c, q, n)
      PROVE  (RevokedSessionsEnd /\ InHandMarked)'
  <2>1. /\ q.pc # "issuing" /\ UNCHANGED <<rows, epoch, revs, loose>>
        /\ \A d \in Calls \ {c} : call'[d] = call[d]
        /\ call'[c] = q
    BY <1>1, <1>4, BecomesCalls DEF Loses, Hands, server
  <2> QED
    BY <1>1, <1>2, <2>1 DEF InHandMarked, At
<1>5. ASSUME NEW c \in Calls, NEW t, Consumes(c, t) PROVE (RevokedSessionsEnd /\ InHandMarked)'
  BY <1>1, <1>5, ConsumesCalls DEF RevokedSessionsEnd, InHandMarked, At
<1>6. ASSUME NEW c \in Calls, Issue(c) PROVE (RevokedSessionsEnd /\ InHandMarked)'
  <2> DEFINE n == issued + 1
  <2>1. /\ \A m \in Pairs : epoch'[m] = IF m = n THEN call[c].epoch ELSE epoch[m]
        /\ loose \subseteq loose' /\ (call[c].loose => n \in loose')
    BY <1>1, <1>6 DEF Issue, TypeInv, TablesOK
  <2> QED
    BY <1>1, <1>6, <2>1, IssueCalls DEF RevokedSessionsEnd, InHandMarked, At, TypeInv, TablesOK
<1>7. ASSUME NEW S, Removes(S) PROVE (RevokedSessionsEnd /\ InHandMarked)'
  <2>1. CASE revs' = revs /\ \A d \in Calls : call'[d].pc = "issuing" => call'[d] = call[d]
    BY <1>1, <1>7, <2>1 DEF Removes, RevokedSessionsEnd, InHandMarked, At
  <2>2. CASE /\ S = rows
             /\ \A d \in Calls : call'[d].pc = "issuing" => call'[d].loose \/ call'[d].epoch = revs'
    <3>1. rows' = {} /\ revs' \in Nat
      BY <1>7, <2>2 DEF Removes
    <3> QED
      BY <2>2, <3>1 DEF RevokedSessionsEnd, InHandMarked, At
  <2> QED
    BY <1>7, <2>1, <2>2 DEF Removes
<1>8. ASSUME UNCHANGED <<server, revs, call>> PROVE (RevokedSessionsEnd /\ InHandMarked)'
  BY <1>1, <1>2, <1>8 DEF InHandMarked, At, server
<1> QED
  BY <1>1, <1>3, <1>4, <1>5, <1>6, <1>7, <1>8 DEF Kind, Hydrate, Aside

\* The sessions are sound in every reachable state.
LEMMA SessionAlways == Spec => []SessionInv
<1>1. Init => SessionInv
  <2> SUFFICES ASSUME Init PROVE SessionInv
    OBVIOUS
  <2>1. TypeInv
    BY IdleOK DEF Init, TypeInv, TablesOK, CallsOK, CallOK, Clients
  <2>2. \A c \in Calls : call[c].pc = "idle" /\ call[c].tok = 0 /\ call[c].grant = 0
    BY DEF Init, Idle
  <2>3. Known /\ Fates
    BY <2>2 DEF Init, Known, Fates, FateOK
  <2> QED
    BY <2>1, <2>2, <2>3 DEF Init, SessionInv, ExchangedOnce, GrantsApart, RevokedSessionsEnd,
                            InHandMarked, At
<1>2. SessionInv /\ [Next]_vars => SessionInv'
  BY TypeStep, KnownKept, ExchangedOnceKept, GrantsKept, FatesKept, MarksKept DEF SessionInv
<1> QED
  BY <1>1, <1>2, PTL DEF Spec

-----------------------------------------------------------------------------
(* Theorems *)

\* Every reachable state is well typed, and a call carries what its next step uses.
THEOREM TypeCorrect == Spec => []TypeInv
<1>1. SessionInv => TypeInv
  BY DEF SessionInv
<1> QED
  BY <1>1, SessionAlways, PTL

\* After a revocation, a session that was proved before it descends from what the
\* revocation could not reach.
THEOREM RevocationsCorrect == Spec => []RevokedSessionsEnd
<1>1. SessionInv => RevokedSessionsEnd
  BY DEF SessionInv
<1> QED
  BY <1>1, SessionAlways, PTL

\* A client is not left with a refresh token that its own requests used up.
THEOREM StoredTokensCorrect == Spec => []StoredTokenWorks
<1>1. SessionInv => StoredTokenWorks
  <2> SUFFICES ASSUME SessionInv, NEW cl \in Clients, held[cl] # 0, held[cl] \notin rows
               PROVE  \/ \E c \in Calls: call[c].client = cl /\ call[c].tok = held[cl]
                      \/ fate[held[cl]] \notin {cl, None}
    BY DEF StoredTokenWorks
  <2>1. held[cl] \in 1..issued
    BY DEF SessionInv, TypeInv, TablesOK, Known
  <2>2. fate[held[cl]] # None /\ FateOK(cl, held[cl])
    BY <2>1 DEF SessionInv, Fates
  <2> QED
    BY <2>1, <2>2 DEF FateOK, Exchanging
<1> QED
  BY <1>1, SessionAlways, PTL

\* A step that issues nothing makes no token redeemable, and what stops being
\* redeemable is spent.
LEMMA RevokeStep ==
  ASSUME Redeemable \subseteq 1..issued, UNCHANGED issued, Redeemable' \subseteq Redeemable
  PROVE  [R!Next]_(R!vars)
<1> DEFINE S == Redeemable \ Redeemable'
<1>1. S \in SUBSET Redeemable /\ R!Revoke(S)
  BY DEF R!Revoke
<1> QED
  BY <1>1 DEF R!Next

\* A step that keeps the rows and gives no other token to exchange.
LEMMA RedeemableKept ==
  ASSUME TypeInv, rows' \subseteq rows,
         \A d \in Calls : call'[d].pc = "issuing" =>
            call'[d].tok = 0 \/ call'[d].tok \in rows \/ (At(d, "issuing") /\ call'[d].tok = call[d].tok)
  PROVE  Redeemable' \subseteq Redeemable
  BY DEF Redeemable, At

\* However refreshes, logouts and revocations overlap, a refresh token is exchanged
\* at most once and never works again: the sessions implement Rotation.
THEOREM RotationCorrect == Spec => Rotates
<1>1. Init => R!Init
  <2> SUFFICES ASSUME Init PROVE R!Init
    OBVIOUS
  <2>1. Redeemable = {} /\ 1..issued = {}
    BY DEF Init, Redeemable, At, Idle
  <2> QED
    BY <2>1 DEF R!Init
<1>2. SessionInv /\ [Next]_vars => [R!Next]_(R!vars)
  <2> SUFFICES ASSUME SessionInv, [Next]_vars PROVE [R!Next]_(R!vars)
    OBVIOUS
  <2>1. /\ TypeInv /\ Known /\ ExchangedOnce /\ Kind /\ issued \in Nat /\ rows \subseteq Pairs
        /\ \A d \in Calls : call[d].tok \in 0..issued
    BY StepKinds DEF SessionInv, TypeInv, TablesOK, CallsOK, CallOK, Call, Known
  <2>2. Redeemable \subseteq 1..issued
    <3>1. rows \subseteq 1..issued /\ \A d \in Calls : call[d].tok \in (1..issued) \union {0}
      BY <2>1 DEF Known
    <3> QED
      BY <3>1 DEF Redeemable
  <2>3. ASSUME UNCHANGED issued, Redeemable' \subseteq Redeemable PROVE [R!Next]_(R!vars)
    BY <2>2, <2>3, RevokeStep
  <2>4. ASSUME NEW c \in Calls, NEW q, Quiet(c, q) PROVE [R!Next]_(R!vars)
    <3>1. /\ UNCHANGED <<rows, issued>> /\ (q.pc = "issuing" => q.tok = 0)
          /\ \A d \in Calls : call'[d] = IF d = c THEN q ELSE call[d]
      BY <2>1, <2>4, BecomesCalls DEF Quiet, server
    <3> QED
      BY <2>1, <2>3, <3>1, RedeemableKept DEF At
  <2>5. ASSUME NEW c \in Calls, NEW q, Loses(c, q) \/ \E n : Hands(c, q, n) PROVE [R!Next]_(R!vars)
    BY <2>1, <2>3, <2>5, RedeemableKept, BecomesCalls DEF Loses, Hands, At, server
  <2>6. ASSUME NEW c \in Calls, NEW t, Consumes(c, t) PROVE [R!Next]_(R!vars)
    BY <2>1, <2>3, <2>6, RedeemableKept, ConsumesCalls DEF At
  <2>7. ASSUME NEW S, Removes(S) PROVE [R!Next]_(R!vars)
    BY <2>1, <2>3, <2>7, RedeemableKept DEF Removes
  <2>8. ASSUME UNCHANGED <<rows, issued, call>> PROVE [R!Next]_(R!vars)
    BY <2>1, <2>3, <2>8, RedeemableKept DEF At
  <2>9. ASSUME NEW c \in Calls, Issue(c) PROVE [R!Next]_(R!vars)
    <3> DEFINE n   == issued + 1
               tok == call[c].tok
    <3>1. /\ n \in Pairs /\ rows' = rows \union {n} /\ issued' = n
          /\ call[c].pc = "issuing" /\ call'[c].pc = "granted"
          /\ \A d \in Calls \ {c} : call'[d] = call[d]
      BY <2>1, <2>9, IssueCalls
    <3>2. R!Fresh(n)
      BY <2>1, <2>2, <3>1 DEF R!Fresh
    <3>3. CASE tok = 0
      <4>1. Redeemable' = Redeemable \union {n}
        BY <2>1, <3>1, <3>3 DEF Redeemable, At, Pairs
      <4>2. R!Grant(n)
        BY <2>1, <2>2, <3>1, <3>2, <4>1 DEF R!Grant
      <4> QED
        BY <3>1, <4>2 DEF R!Next
    <3>4. CASE tok # 0
      <4>1. tok \in Pairs /\ tok \in Redeemable /\ tok \in 1..issued
        BY <2>1, <3>1, <3>4 DEF Redeemable, At, Pairs, TypeInv, TablesOK
      <4>2. tok \notin rows /\ \A d \in Calls \ {c} : At(d, "issuing") => call[d].tok # tok
        BY <2>1, <3>1, <3>4 DEF ExchangedOnce, At
      <4>3. Redeemable' = (Redeemable \ {tok}) \union {n}
        BY <2>1, <3>1, <3>4, <4>1, <4>2 DEF Redeemable, At
      <4>4. (1..issued') \ Redeemable' = ((1..issued) \ Redeemable) \union {tok}
        BY <2>1, <2>2, <3>1, <4>1, <4>3
      <4>5. R!Exchange(tok, n)
        BY <3>2, <4>1, <4>3, <4>4 DEF R!Exchange
      <4> QED
        BY <3>1, <4>1, <4>5 DEF R!Next
    <3> QED
      BY <3>3, <3>4
  <2> QED
    BY <2>1, <2>4, <2>5, <2>6, <2>7, <2>8, <2>9 DEF Kind, Hydrate, Aside, server
<1> QED
  BY <1>1, <1>2, SessionAlways, PTL DEF Spec, Rotates, R!Spec
=============================================================================
