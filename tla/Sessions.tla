------------------------------ MODULE Sessions -------------------------------
(***************************************************************************)
(* The sessions of one account: TokenService, AuthService and              *)
(* PasswordResetService of the API, and what proxy.ts, session.ts and the  *)
(* auth actions of the web server do with the browser's cookies.           *)
(*                                                                         *)
(* A call is one HTTP request that reaches the API.  Each of its database  *)
(* queries is a step, and calls interleave between them.  The accounts are *)
(* independent of each other, so one is enough.                            *)
(***************************************************************************)
EXTENDS Naturals, Sequences, FiniteSets

CONSTANTS Browsers,
          Calls,         \* the slots of calls in flight
          MaxTokens,     \* bound: refresh tokens issued in one behaviour
          MaxPassword,   \* bound: passwords the account has had
          MaxLinks,      \* bound: reset links mailed
          MaxCalls,      \* bound: calls made
          MaxUpsets      \* bound: calls lost or cut off, and rows that expire

ASSUME SessionBounds ==
    /\ MaxTokens \in Nat /\ MaxPassword \in Nat \ {0} /\ MaxLinks \in Nat
    /\ MaxCalls \in Nat /\ MaxUpsets \in Nat

VARIABLES
    password,   \* the number of the password that passwordHash stands for; 0: no account
    tokens,     \* the refresh_tokens rows, in the order they were issued
    links,      \* for each password_reset_tokens row: can it still be used
    jars,       \* each browser's cookies: is the access token fresh, the refresh token
    calls,      \* the calls in flight
    made,       \* how many calls were made
    upsets,     \* how many were lost or cut off, and how many rows expired
    renewed,    \* history: the newest password whose reset ended the sessions
    troubled,   \* history: the sessions whose calls overlapped, were lost or were cut off
    alarms,     \* history: the sessions in which a token was taken for reused
    signedOut   \* history: the sessions that were signed out

tables == <<password, tokens, links>>
history == <<renewed, troubled, alarms, signedOut>>
vars == <<password, tokens, links, jars, calls, made, upsets,
          renewed, troubled, alarms, signedOut>>

NoToken == 0
TokenIds == 1..MaxTokens

(* A refresh token.  A session is the sign-in it descends from, named by   *)
(* its first token.  `under` is the password that was checked, and         *)
(* `crossed` is history: a call that was past its check when all sessions   *)
(* were revoked has issued it, or one of its ancestors.                     *)
Token == [session : TokenIds, under : 1..MaxPassword, crossed : BOOLEAN,
          revoked : BOOLEAN, expired : BOOLEAN]

Live(t) == ~tokens[t].revoked /\ ~tokens[t].expired
SessionOf(t) == tokens[t].session

Jar == [access : BOOLEAN, refresh : {NoToken} \cup TokenIds]
EmptyJar == [access |-> FALSE, refresh |-> NoToken]

(* A call in flight: `at` is the step that comes next, `by` the browser     *)
(* that waits (empty when none does any more), `token` the one presented,   *)
(* `new` the one issued, `under` the password checked or set.               *)
Kinds == {"sign-up", "sign-in", "rotate", "sign-out", "request", "confirm"}
Steps == {"create", "issue", "load", "alarm", "retire", "answer", "denied",
          "clear", "retire-links", "mail", "set", "end-sessions"}
Idle == [kind |-> "idle"]
Call == [kind : Kinds, at : Steps, by : {{b} : b \in Browsers} \cup {{}},
         token : {NoToken} \cup TokenIds, new : {NoToken} \cup TokenIds,
         under : 0..MaxPassword, crossed : BOOLEAN, link : 0..MaxLinks]
NewCall == [kind |-> "sign-in", at |-> "issue", by |-> {}, token |-> NoToken,
            new |-> NoToken, under |-> 0, crossed |-> FALSE, link |-> 0]

Init ==
    /\ password = 0
    /\ tokens = <<>>
    /\ links = <<>>
    /\ jars = [b \in Browsers |-> EmptyJar]
    /\ calls = [c \in Calls |-> Idle]
    /\ made = 0 /\ upsets = 0
    /\ renewed = 0
    /\ troubled = {} /\ alarms = {} /\ signedOut = {}

Busy == {c \in Calls : calls[c] # Idle}
IsAt(c, kind, at) == calls[c] # Idle /\ calls[c].kind = kind /\ calls[c].at = at
GoTo(c, at) == calls' = [calls EXCEPT ![c].at = at]
End(c) == calls' = [calls EXCEPT ![c] = Idle]
Start(c, call) ==
    /\ calls[c] = Idle /\ made < MaxCalls
    /\ calls' = [calls EXCEPT ![c] = call]
    /\ made' = made + 1 /\ UNCHANGED upsets
Upset == upsets < MaxUpsets /\ upsets' = upsets + 1 /\ UNCHANGED made
Quietly == UNCHANGED <<made, upsets>>

(* The sessions whose token this call presents. *)
Touches(c) == IF calls[c] = Idle \/ calls[c].token = NoToken THEN {}
              ELSE {SessionOf(calls[c].token)}
Overlap(t) == {SessionOf(t)} \cap UNION {Touches(c) : c \in Calls}
Trouble(sessions) == troubled' = troubled \cup sessions

-----------------------------------------------------------------------------
(* Queries of the API that several calls share. *)

(* issueTokens: the row of a new refresh token. *)
Issued(session, under, crossed) ==
    [session |-> session, under |-> under, crossed |-> crossed,
     revoked |-> FALSE, expired |-> FALSE]

Revoked(t) == [tokens EXCEPT ![t].revoked = TRUE]

(* Mutant of RevokedAll: only the sessions of the new password. *)
RevokedNewOnly(under) ==
    [t \in DOMAIN tokens |->
        IF tokens[t].under = under THEN [tokens[t] EXCEPT !.revoked = TRUE] ELSE tokens[t]]

(* revokeAllForUser, and `under` the password it is called for. *)
RevokedAll(under) == [t \in DOMAIN tokens |-> [tokens[t] EXCEPT !.revoked = TRUE]]

(* The calls that are past their check and have yet to issue, or have not   *)
(* yet been seen by a revocation: what they issue is not revoked by it.     *)
Crossed(c) == [d \in Calls |->
    IF d # c /\ calls[d] # Idle /\ calls[d].at = "issue"
    THEN [calls[d] EXCEPT !.crossed = TRUE] ELSE calls[d]]

RevokeAll(c, under, next) ==
    /\ tokens' = RevokedAll(under)
    /\ Trouble({SessionOf(t) : t \in {u \in DOMAIN tokens : ~tokens[u].revoked}})
    /\ calls' = [Crossed(c) EXCEPT ![c] = next]

-----------------------------------------------------------------------------
(* Signing up and signing in. *)

(* The check of signUp; the account must not exist. *)
SignUp(b, c) ==
    /\ ~jars[b].access
    /\ password = 0
    /\ Start(c, [NewCall EXCEPT !.kind = "sign-up", !.at = "create", !.by = {b}])
    /\ UNCHANGED <<tables, jars, history>>

(* Its transaction; the email is unique. *)
CreateAccount(c) ==
    /\ IsAt(c, "sign-up", "create")
    /\ IF password = 0
       THEN /\ password' = 1
            /\ calls' = [calls EXCEPT ![c].at = "issue", ![c].under = 1]
       ELSE End(c) /\ UNCHANGED password
    /\ Quietly
    /\ UNCHANGED <<tokens, links, jars, history>>

(* signIn reads the hash and verifies the password that was typed.  The     *)
(* page is public: proxy.ts lets it through when no access token is fresh.  *)
SignIn(b, c) ==
    /\ ~jars[b].access
    /\ password # 0
    /\ Start(c, [NewCall EXCEPT !.by = {b}, !.under = password])
    /\ UNCHANGED <<tables, jars, history>>

(* issueTokens, the last query of signUp and signIn. *)
IssueFirst(c) ==
    /\ IsAt(c, "sign-up", "issue") \/ IsAt(c, "sign-in", "issue")
    /\ Len(tokens) < MaxTokens
    /\ LET new == Len(tokens) + 1 IN
       /\ tokens' = Append(tokens, Issued(new, calls[c].under, calls[c].crossed))
       /\ calls' = [calls EXCEPT ![c].at = "answer", ![c].new = new]
    /\ Quietly
    /\ UNCHANGED <<password, links, jars, history>>

-----------------------------------------------------------------------------
(* A page: proxy.ts refreshes the session when the access token is missing  *)
(* or runs out within its margin.  A browser may load several at once.      *)

LoadPage(b, c) ==
    /\ ~jars[b].access
    /\ jars[b].refresh # NoToken
    /\ Start(c, [NewCall EXCEPT !.kind = "rotate", !.at = "load", !.by = {b},
                                !.token = jars[b].refresh])
    /\ Trouble(Overlap(jars[b].refresh))
    /\ UNCHANGED <<tables, jars, renewed, alarms, signedOut>>

(* rotate: the presented token as it is stored now. *)
LoadToken(c) ==
    /\ IsAt(c, "rotate", "load")
    /\ LET t == calls[c].token IN
       \/ /\ tokens[t].expired
          /\ GoTo(c, "denied")
          /\ UNCHANGED alarms
       \/ /\ ~tokens[t].expired /\ tokens[t].revoked
          /\ GoTo(c, "alarm")
          /\ alarms' = alarms \cup {SessionOf(t)}
       \/ /\ Live(t)
          /\ calls' = [calls EXCEPT ![c].at = "issue", ![c].under = tokens[t].under,
                                    ![c].crossed = tokens[t].crossed]
          /\ UNCHANGED alarms
    /\ Quietly
    /\ UNCHANGED <<tables, jars, renewed, troubled, signedOut>>

(* A revoked token is taken for a reused one. *)
RevokeFamily(c) ==
    /\ IsAt(c, "rotate", "alarm")
    /\ RevokeAll(c, password, [calls[c] EXCEPT !.at = "denied"])
    /\ Quietly
    /\ UNCHANGED <<password, links, jars, renewed, alarms, signedOut>>

(* The successor is issued, *)
IssueNext(c) ==
    /\ IsAt(c, "rotate", "issue")
    /\ Len(tokens) < MaxTokens
    /\ tokens' = Append(tokens,
           Issued(SessionOf(calls[c].token), calls[c].under, calls[c].crossed))
    /\ calls' = [calls EXCEPT ![c].at = "retire", ![c].new = Len(tokens) + 1]
    /\ Quietly
    /\ UNCHANGED <<password, links, jars, history>>

(* Mutant of RetireToken: the presented token is left alive. *)
LeavesTokenAlive(c) ==
    /\ IsAt(c, "rotate", "retire")
    /\ GoTo(c, "answer")
    /\ Quietly
    /\ UNCHANGED <<tables, jars, history>>

(* and then the presented token is revoked, whatever it is by now. *)
RetireToken(c) ==
    /\ IsAt(c, "rotate", "retire")
    /\ tokens' = Revoked(calls[c].token)
    /\ GoTo(c, "answer")
    /\ Quietly
    /\ UNCHANGED <<password, links, jars, history>>

-----------------------------------------------------------------------------
(* Signing out. *)

(* signOutAction runs behind the proxy, with a fresh access token. *)
SignOut(b, c) ==
    /\ jars[b].access
    /\ jars[b].refresh # NoToken
    /\ Start(c, [NewCall EXCEPT !.kind = "sign-out", !.at = "retire", !.by = {b},
                                !.token = jars[b].refresh])
    /\ Trouble(Overlap(jars[b].refresh))
    /\ UNCHANGED <<tables, jars, renewed, alarms, signedOut>>

(* revoke, a no-op for a token that is revoked already. *)
RevokeOne(c) ==
    /\ IsAt(c, "sign-out", "retire")
    /\ tokens' = Revoked(calls[c].token)
    /\ signedOut' = signedOut \cup {SessionOf(calls[c].token)}
    /\ GoTo(c, "clear")
    /\ Quietly
    /\ UNCHANGED <<password, links, jars, renewed, troubled, alarms>>

(* POST /auth/sign-out-all: one query, and the cookies stay. *)
SignOutAll(b, c) ==
    /\ jars[b].access
    /\ calls[c] = Idle /\ made < MaxCalls
    /\ RevokeAll(c, password, Idle)
    /\ made' = made + 1 /\ UNCHANGED upsets
    /\ UNCHANGED <<password, links, jars, renewed, alarms, signedOut>>

-----------------------------------------------------------------------------
(* Resetting the password. *)

RequestReset(c) ==
    /\ password # 0
    /\ Len(links) < MaxLinks
    /\ Start(c, [NewCall EXCEPT !.kind = "request", !.at = "retire-links"])
    /\ UNCHANGED <<tables, jars, history>>

RetireLinks(c) ==
    /\ IsAt(c, "request", "retire-links")
    /\ links' = [l \in DOMAIN links |-> FALSE]
    /\ GoTo(c, "mail")
    /\ Quietly
    /\ UNCHANGED <<password, tokens, jars, history>>

CreateLink(c) ==
    /\ IsAt(c, "request", "mail")
    /\ Len(links) < MaxLinks
    /\ links' = Append(links, TRUE)
    /\ End(c)
    /\ Quietly
    /\ UNCHANGED <<password, tokens, jars, history>>

(* confirm: the check of the link, *)
UseLink(c, l) ==
    /\ links[l]
    /\ Start(c, [NewCall EXCEPT !.kind = "confirm", !.at = "set", !.link = l])
    /\ UNCHANGED <<tables, jars, history>>

(* Mutant of SetPassword: the link is used up, the password stays. *)
SpendsLinkOnly(c) ==
    /\ IsAt(c, "confirm", "set")
    /\ password < MaxPassword
    /\ links' = [links EXCEPT ![calls[c].link] = FALSE]
    /\ calls' = [calls EXCEPT ![c].at = "end-sessions", ![c].under = password + 1]
    /\ Quietly
    /\ UNCHANGED <<password, tokens, jars, history>>

(* the transaction, which does not check the link again, *)
SetPassword(c) ==
    /\ IsAt(c, "confirm", "set")
    /\ password < MaxPassword
    /\ password' = password + 1
    /\ links' = [links EXCEPT ![calls[c].link] = FALSE]
    /\ calls' = [calls EXCEPT ![c].at = "end-sessions", ![c].under = password + 1]
    /\ Quietly
    /\ UNCHANGED <<tokens, jars, history>>

(* and, after it, the end of every session. *)
EndSessions(c) ==
    /\ IsAt(c, "confirm", "end-sessions")
    /\ RevokeAll(c, calls[c].under, Idle)
    /\ renewed' = IF calls[c].under > renewed THEN calls[c].under ELSE renewed
    /\ Quietly
    /\ UNCHANGED <<password, links, jars, alarms, signedOut>>

-----------------------------------------------------------------------------
(* What the browser is told. *)

SetCookies(c, jar) == jars' = [b \in Browsers |-> IF b \in calls[c].by THEN jar ELSE jars[b]]

(* Mutant of Answer: the successor's cookie is not set. *)
KeepsOldCookie(c) ==
    /\ calls[c] # Idle /\ calls[c].at = "answer"
    /\ jars' = [b \in Browsers |-> IF b \in calls[c].by
           THEN [access |-> TRUE,
                 refresh |-> IF calls[c].token = NoToken THEN calls[c].new ELSE calls[c].token]
           ELSE jars[b]]
    /\ End(c)
    /\ Quietly
    /\ UNCHANGED <<tables, history>>

(* Both cookies of the new pair. *)
Answer(c) ==
    /\ calls[c] # Idle /\ calls[c].at = "answer"
    /\ SetCookies(c, [access |-> TRUE, refresh |-> calls[c].new])
    /\ End(c)
    /\ Quietly
    /\ UNCHANGED <<tables, history>>

(* A refused refresh, or the end of a sign-out: both cookies are deleted. *)
Deny(c) ==
    /\ calls[c] # Idle /\ calls[c].at \in {"denied", "clear"}
    /\ SetCookies(c, EmptyJar)
    /\ End(c)
    /\ Quietly
    /\ UNCHANGED <<tables, history>>

(* The web server loses the API, which dies there or goes on alone.  The    *)
(* proxy takes it for a refusal, signOutAction for a success; a sign-in     *)
(* shows an error.                                                          *)
Dropped(c) ==
    /\ calls[c].by # {}
    /\ Trouble(Touches(c))
    /\ Upset
    /\ IF calls[c].kind \in {"rotate", "sign-out"} THEN SetCookies(c, EmptyJar)
       ELSE UNCHANGED jars
    /\ UNCHANGED <<tables, renewed, alarms, signedOut>>

LoseApi(c) ==
    /\ calls[c] # Idle
    /\ \/ Dropped(c) /\ calls' = [calls EXCEPT ![c].by = {}]
       \/ Dropped(c) /\ End(c)

(* The API dies with a call nobody waits for; a reset is such a call here,  *)
(* its page holds no cookie.                                                *)
Crash(c) ==
    /\ calls[c] # Idle
    /\ calls[c].by = {}
    /\ End(c)
    /\ Upset
    /\ Trouble(Touches(c))
    /\ UNCHANGED <<tables, jars, renewed, alarms, signedOut>>

(* The browser never gets the answer: it keeps its cookies. *)
LoseAnswer(c) ==
    /\ calls[c] # Idle
    /\ calls[c].at \in {"answer", "denied", "clear"}
    /\ End(c)
    /\ Trouble(Touches(c))
    /\ Upset
    /\ UNCHANGED <<tables, jars, renewed, alarms, signedOut>>

-----------------------------------------------------------------------------
(* Time. *)

(* The access token is about to expire, and then its cookie is gone. *)
AccessExpires(b) ==
    /\ jars[b].access
    /\ jars' = [jars EXCEPT ![b].access = FALSE]
    /\ Quietly
    /\ UNCHANGED <<tables, calls, history>>

TokenExpires(t) ==
    /\ ~tokens[t].expired
    /\ tokens' = [tokens EXCEPT ![t].expired = TRUE]
    /\ Upset
    /\ UNCHANGED <<password, links, jars, calls, history>>

LinkExpires(l) ==
    /\ links[l]
    /\ links' = [links EXCEPT ![l] = FALSE]
    /\ Upset
    /\ UNCHANGED <<password, tokens, jars, calls, history>>

-----------------------------------------------------------------------------
Next ==
    \/ \E b \in Browsers, c \in Calls :
          SignUp(b, c) \/ SignIn(b, c) \/ LoadPage(b, c) \/ SignOut(b, c) \/ SignOutAll(b, c)
    \/ \E c \in Calls :
          \/ CreateAccount(c) \/ IssueFirst(c)
          \/ LoadToken(c) \/ RevokeFamily(c) \/ IssueNext(c) \/ RetireToken(c)
          \/ RevokeOne(c)
          \/ RequestReset(c) \/ RetireLinks(c) \/ CreateLink(c)
          \/ SetPassword(c) \/ EndSessions(c)
          \/ Answer(c) \/ Deny(c) \/ LoseApi(c) \/ Crash(c) \/ LoseAnswer(c)
    \/ \E c \in Calls, l \in DOMAIN links : UseLink(c, l)
    \/ \E b \in Browsers : AccessExpires(b)
    \/ \E t \in DOMAIN tokens : TokenExpires(t)
    \/ \E l \in DOMAIN links : LinkExpires(l)

Spec == Init /\ [][Next]_vars

-----------------------------------------------------------------------------
TypeOK ==
    /\ password \in 0..MaxPassword
    /\ tokens \in Seq(Token) /\ Len(tokens) <= MaxTokens
    /\ links \in Seq(BOOLEAN) /\ Len(links) <= MaxLinks
    /\ jars \in [Browsers -> Jar]
    /\ calls \in [Calls -> Call \cup {Idle}]
    /\ made \in 0..MaxCalls /\ upsets \in 0..MaxUpsets
    /\ renewed \in 0..password
    /\ troubled \subseteq TokenIds /\ alarms \subseteq TokenIds /\ signedOut \subseteq TokenIds

(* password-reset.service.ts:19-22: a reset ends every session.  When it    *)
(* is through, a token that is alive was earned with the new password or a  *)
(* later one, or issued by a call that had its check behind it.             *)
ResetEndsSessions ==
    \A t \in DOMAIN tokens :
        Live(t) => tokens[t].under >= renewed \/ tokens[t].crossed

(* The calls that are between a token's issue and its predecessor's end. *)
Rotating(s) == \E c \in Calls :
    IsAt(c, "rotate", "retire") /\ SessionOf(calls[c].token) = s

LiveTokens(s) == {t \in DOMAIN tokens : Live(t) /\ SessionOf(t) = s}

(* token.service.ts:88-90: rotation is one-shot.  A session whose calls did *)
(* not overlap, get lost or die has one live token at most, and none after  *)
(* it was signed out.                                                       *)
OneLiveToken ==
    \A s \in TokenIds \ troubled :
        /\ Cardinality(LiveTokens(s)) <= IF Rotating(s) THEN 2 ELSE 1
        /\ s \in signedOut => LiveTokens(s) = {}

(* The alarm that ends all of a user's sessions is never raised over a      *)
(* session whose requests came one after the other, whose answers arrived   *)
(* and that no revocation of all sessions had ended.                        *)
AlarmsHaveACause == alarms \subseteq troubled
=============================================================================
