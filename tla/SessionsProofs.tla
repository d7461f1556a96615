--------------------------- MODULE SessionsProofs ---------------------------
(***************************************************************************)
(* Proofs about Sessions, for any browsers, slots and bounds.              *)
(***************************************************************************)
EXTENDS Sessions, FiniteSetTheorems, TLAPS

-----------------------------------------------------------------------------
(* The steps each kind of call goes through. *)
OnItsPath(call) ==
    \/ call.kind = "sign-up" /\ call.at \in {"create", "issue", "answer"}
    \/ call.kind = "sign-in" /\ call.at \in {"issue", "answer"}
    \/ call.kind = "rotate"
          /\ call.at \in {"load", "alarm", "issue", "retire", "answer", "denied"}
    \/ call.kind = "sign-out" /\ call.at \in {"retire", "clear"}
    \/ call.kind = "request" /\ call.at \in {"retire-links", "mail"}
    \/ call.kind = "confirm" /\ call.at \in {"set", "end-sessions"}

(* What a call carries exists: the token it presents, the one it has        *)
(* issued, which is of the same session, the password it was checked for or *)
(* has set, and the link.                                                   *)
CallOK(call) ==
    /\ OnItsPath(call)
    /\ call.kind \in {"rotate", "sign-out"} => call.token \in DOMAIN tokens
    /\ call.kind \notin {"rotate", "sign-out"} => call.token = NoToken
    /\ call.at \in {"issue", "end-sessions"} => call.under \in 1..password
    /\ call.at = "answer" \/ (call.kind = "rotate" /\ call.at = "retire") =>
          /\ call.new \in DOMAIN tokens
          /\ call.kind = "rotate" => SessionOf(call.new) = SessionOf(call.token)
    /\ call.kind = "confirm" => call.link \in DOMAIN links

(* So do the first token of a session, the passwords of the tokens and the  *)
(* tokens in the cookies.                                                   *)
ShapeInv ==
    /\ \A c \in Calls : calls[c] # Idle => CallOK(calls[c])
    /\ \A t \in DOMAIN tokens : SessionOf(t) <= t /\ tokens[t].under \in 1..password
    /\ \A b \in Browsers : jars[b].refresh \in {NoToken} \cup DOMAIN tokens
    /\ signedOut \subseteq DOMAIN tokens

-----------------------------------------------------------------------------
(* Records of calls. *)

(* Idle is no call. *)
LEMMA IdleIsNoCall == Idle \notin Call
  BY DEF Idle, Call, Kinds

(* A call that moves to another step is a call that differs in nothing else. *)
LEMMA Moved ==
    ASSUME NEW call \in Call, NEW at \in Steps
    PROVE  LET next == [call EXCEPT !.at = at] IN
           /\ next \in Call /\ next # Idle /\ next.at = at
           /\ next.kind = call.kind /\ next.by = call.by /\ next.token = call.token
           /\ next.new = call.new /\ next.under = call.under
           /\ next.crossed = call.crossed /\ next.link = call.link
  <1> DEFINE next == [call EXCEPT !.at = at]
  <1>1. next \in Call /\ next.at = at
    BY DEF Call
  <1>2. /\ next.kind = call.kind /\ next.by = call.by /\ next.token = call.token
        /\ next.new = call.new /\ next.under = call.under
        /\ next.crossed = call.crossed /\ next.link = call.link
    BY DEF Call
  <1> QED
    BY <1>1, <1>2, IdleIsNoCall

(* A new call is a call with the fields it was given. *)
LEMMA NewCallType ==
    /\ NewCall \in Call
    /\ NewCall.kind = "sign-in" /\ NewCall.at = "issue" /\ NewCall.by = {}
    /\ NewCall.token = NoToken /\ NewCall.new = NoToken /\ NewCall.under = 0
    /\ NewCall.crossed = FALSE /\ NewCall.link = 0
  BY SessionBounds DEF NewCall, Call, Kinds, Steps

-----------------------------------------------------------------------------
(* Tokens. *)

(* A token row and its place. *)
LEMMA TokenFacts ==
    ASSUME TypeOK
    PROVE  /\ Len(tokens) \in Nat /\ DOMAIN tokens = 1..Len(tokens)
           /\ \A t \in DOMAIN tokens :
                 /\ tokens[t] \in Token /\ t \in TokenIds
                 /\ SessionOf(t) \in TokenIds /\ tokens[t].under \in 1..MaxPassword
                 /\ tokens[t].revoked \in BOOLEAN /\ tokens[t].expired \in BOOLEAN
                 /\ tokens[t].crossed \in BOOLEAN
  <1>1. Len(tokens) \in Nat /\ DOMAIN tokens = 1..Len(tokens) /\ Len(tokens) <= MaxTokens
        /\ \A t \in DOMAIN tokens : tokens[t] \in Token
    BY DEF TypeOK
  <1>2. \A t \in DOMAIN tokens : t \in TokenIds
    BY <1>1, SessionBounds DEF TokenIds
  <1> QED
    BY <1>1, <1>2 DEF Token, SessionOf

(* One more token. *)
LEMMA AppendedToken ==
    ASSUME TypeOK, NEW token \in Token, Len(tokens) < MaxTokens,
           tokens' = Append(tokens, token)
    PROVE  /\ tokens' \in Seq(Token) /\ Len(tokens') <= MaxTokens
           /\ Len(tokens') = Len(tokens) + 1
           /\ DOMAIN tokens' = DOMAIN tokens \cup {Len(tokens) + 1}
           /\ Len(tokens) + 1 \in TokenIds /\ Len(tokens) + 1 \notin DOMAIN tokens
           /\ \A t \in DOMAIN tokens : tokens'[t] = tokens[t]
           /\ tokens'[Len(tokens) + 1] = token
  <1>1. tokens \in Seq(Token) /\ Len(tokens) \in Nat /\ DOMAIN tokens = 1..Len(tokens)
    BY DEF TypeOK
  <1>2. /\ tokens' \in Seq(Token) /\ Len(tokens') = Len(tokens) + 1
        /\ DOMAIN tokens' = 1..(Len(tokens) + 1)
        /\ \A t \in 1..Len(tokens) : tokens'[t] = tokens[t]
        /\ tokens'[Len(tokens) + 1] = token
    BY <1>1
  <1>3. Len(tokens) + 1 \in TokenIds
    BY <1>1, SessionBounds DEF TokenIds
  <1> QED
    BY <1>1, <1>2, <1>3, SessionBounds

(* A token that is revoked or expires stays the same otherwise. *)
LEMMA ChangedToken ==
    ASSUME TypeOK, NEW t \in DOMAIN tokens,
           \/ tokens' = Revoked(t)
           \/ tokens' = [tokens EXCEPT ![t].expired = TRUE]
    PROVE  /\ tokens' \in Seq(Token) /\ Len(tokens') = Len(tokens)
           /\ DOMAIN tokens' = DOMAIN tokens
           /\ \A u \in DOMAIN tokens \ {t} : tokens'[u] = tokens[u]
           /\ tokens'[t].session = tokens[t].session
           /\ tokens'[t].under = tokens[t].under /\ tokens'[t].crossed = tokens[t].crossed
           /\ tokens[t].expired => tokens'[t].expired
           /\ tokens[t].revoked => tokens'[t].revoked
           /\ tokens' = Revoked(t) => tokens'[t].revoked
           /\ tokens' # Revoked(t) => tokens'[t].revoked = tokens[t].revoked
  <1>1. tokens \in Seq(Token) /\ Len(tokens) \in Nat /\ DOMAIN tokens = 1..Len(tokens)
        /\ tokens[t] \in Token
    BY TokenFacts DEF TypeOK
  <1>2. PICK row \in Token :
            /\ tokens' = [tokens EXCEPT ![t] = row]
            /\ row.session = tokens[t].session
            /\ row.under = tokens[t].under /\ row.crossed = tokens[t].crossed
            /\ tokens[t].expired => row.expired
            /\ tokens[t].revoked => row.revoked
            /\ tokens' = Revoked(t) => row.revoked
            /\ tokens' # Revoked(t) => row.revoked = tokens[t].revoked
    <2>1. CASE tokens' = Revoked(t)
      <3> DEFINE row == [tokens[t] EXCEPT !.revoked = TRUE]
      <3>1. row \in Token /\ row.session = tokens[t].session /\ row.under = tokens[t].under
            /\ row.crossed = tokens[t].crossed /\ row.expired = tokens[t].expired
            /\ row.revoked = TRUE
        BY <1>1 DEF Token
      <3>2. tokens' = [tokens EXCEPT ![t] = row]
        BY <2>1 DEF Revoked
      <3> HIDE DEF row
      <3> QED
        BY <3>1, <3>2, <2>1
    <2>2. CASE tokens' # Revoked(t)
      <3> DEFINE row == [tokens[t] EXCEPT !.expired = TRUE]
      <3>1. row \in Token /\ row.session = tokens[t].session /\ row.under = tokens[t].under
            /\ row.crossed = tokens[t].crossed /\ row.expired = TRUE
            /\ row.revoked = tokens[t].revoked
        BY <1>1 DEF Token
      <3>2. tokens' = [tokens EXCEPT ![t] = row]
        BY <2>2
      <3> HIDE DEF row
      <3> QED
        BY <3>1, <3>2, <2>2
    <2> QED
      BY <2>1, <2>2
  <1>3. /\ tokens' \in Seq(Token) /\ Len(tokens') = Len(tokens)
        /\ DOMAIN tokens' = DOMAIN tokens
        /\ \A u \in DOMAIN tokens \ {t} : tokens'[u] = tokens[u]
        /\ tokens'[t] = row
    BY <1>1, <1>2
  <1> QED
    BY <1>2, <1>3

(* All of them revoked: nothing else of them changes. *)
LEMMA AllRevoked ==
    ASSUME TypeOK, NEW under, tokens' = RevokedAll(under)
    PROVE  /\ tokens' \in Seq(Token) /\ Len(tokens') = Len(tokens)
           /\ DOMAIN tokens' = DOMAIN tokens
           /\ \A t \in DOMAIN tokens :
                 /\ tokens'[t].revoked = TRUE
                 /\ tokens'[t].session = tokens[t].session
                 /\ tokens'[t].under = tokens[t].under
                 /\ tokens'[t].crossed = tokens[t].crossed
                 /\ tokens'[t].expired = tokens[t].expired
  <1>1. Len(tokens) \in Nat /\ DOMAIN tokens = 1..Len(tokens)
        /\ \A t \in DOMAIN tokens : tokens[t] \in Token
    BY TokenFacts
  <1>2. \A t \in DOMAIN tokens :
           LET row == [tokens[t] EXCEPT !.revoked = TRUE] IN
           /\ row \in Token /\ row.session = tokens[t].session /\ row.under = tokens[t].under
           /\ row.crossed = tokens[t].crossed /\ row.expired = tokens[t].expired
           /\ row.revoked = TRUE
    BY <1>1 DEF Token
  <1>3. /\ DOMAIN tokens' = 1..Len(tokens)
        /\ \A t \in DOMAIN tokens : tokens'[t] = [tokens[t] EXCEPT !.revoked = TRUE]
    BY <1>1 DEF RevokedAll
  <1>4. tokens' \in [1..Len(tokens) -> Token]
    <2>1. tokens' = [t \in 1..Len(tokens) |-> tokens'[t]]
      BY <1>1 DEF RevokedAll
    <2> QED
      BY <1>1, <1>2, <1>3, <2>1
  <1>5. tokens' \in Seq(Token) /\ Len(tokens') = Len(tokens)
    BY <1>1, <1>3, <1>4
  <1> QED
    BY <1>1, <1>2, <1>3, <1>5

-----------------------------------------------------------------------------
(* Types and shapes. *)

(* Rows are added and changed, never removed, and none changes its session. *)
Grows ==
    /\ password <= password' /\ password' \in 0..MaxPassword
    /\ DOMAIN tokens \subseteq DOMAIN tokens' /\ DOMAIN links \subseteq DOMAIN links'
    /\ \A t \in DOMAIN tokens : tokens'[t].session = tokens[t].session

(* While rows are only added, a call that does not move stays as it should  *)
(* be; so all do when the one that moves is.                                *)
LEMMA CallsAfter ==
    ASSUME TypeOK, ShapeInv, Grows, NEW c \in Calls, NEW next \in Call \cup {Idle},
           next # Idle => CallOK(next)', calls' = [calls EXCEPT ![c] = next]
    PROVE  /\ calls' \in [Calls -> Call \cup {Idle}]
           /\ \A d \in Calls : (calls[d] # Idle => CallOK(calls[d]))'
  <1>1. calls' \in [Calls -> Call \cup {Idle}]
    BY DEF TypeOK
  <1>2. ASSUME NEW d \in Calls PROVE (calls[d] # Idle => CallOK(calls[d]))'
    <2>1. CASE d = c
      <3>1. calls'[c] = next
        BY DEF TypeOK
      <3> QED
        BY <2>1, <3>1 DEF CallOK, OnItsPath, SessionOf
    <2>2. CASE d # c
      <3> DEFINE call == calls[d]
      <3>1. calls'[d] = call
        BY <2>2 DEF TypeOK
      <3>2. call # Idle => CallOK(call)
        BY DEF ShapeInv
      <3>3. call # Idle => CallOK(call)'
        BY <3>1, <3>2 DEF CallOK, OnItsPath, SessionOf, Grows, TypeOK
      <3> QED
        BY <3>1, <3>3
    <2> QED
      BY <2>1, <2>2
  <1> QED
    BY <1>1, <1>2

TypeInv == TypeOK /\ ShapeInv

(* The first state has the types and shapes it should. *)
LEMMA TypeInit == Init => TypeInv
  <1> SUFFICES ASSUME Init PROVE TypeOK /\ ShapeInv
    BY DEF TypeInv
  <1>1. EmptyJar \in Jar /\ EmptyJar.refresh = NoToken
    BY DEF EmptyJar, Jar
  <1>2. tokens = <<>> /\ links = <<>> /\ password = 0 /\ made = 0 /\ upsets = 0 /\ renewed = 0
        /\ jars = [b \in Browsers |-> EmptyJar] /\ calls = [c \in Calls |-> Idle]
        /\ troubled = {} /\ alarms = {} /\ signedOut = {}
    BY DEF Init
  <1>3. /\ tokens \in Seq(Token) /\ Len(tokens) = 0 /\ DOMAIN tokens = {}
        /\ links \in Seq(BOOLEAN) /\ Len(links) = 0
    BY <1>2
  <1>4. /\ jars \in [Browsers -> Jar] /\ \A b \in Browsers : jars[b].refresh = NoToken
        /\ calls \in [Calls -> Call \cup {Idle}] /\ \A c \in Calls : calls[c] = Idle
    BY <1>1, <1>2
  <1> QED
    BY <1>2, <1>3, <1>4, SessionBounds DEF TypeOK, ShapeInv

(* A call that starts as it should. *)
LEMMA Started ==
    ASSUME TypeOK, ShapeInv, NEW c \in Calls, NEW call \in Call, CallOK(call),
           Start(c, call), UNCHANGED <<tables, jars, renewed, alarms, signedOut>>,
           troubled' \subseteq TokenIds
    PROVE  TypeInv'
  <1>1. /\ calls' = [calls EXCEPT ![c] = call] /\ made' = made + 1 /\ made < MaxCalls
        /\ password' = password /\ tokens' = tokens /\ links' = links
        /\ UNCHANGED <<jars, renewed, alarms, signedOut, upsets>>
    BY DEF Start, tables
  <1>2. Grows
    BY <1>1 DEF Grows, TypeOK
  <1>3. CallOK(call)'
    BY <1>1 DEF CallOK, OnItsPath, SessionOf
  <1>4. /\ calls' \in [Calls -> Call \cup {Idle}]
        /\ \A d \in Calls : (calls[d] # Idle => CallOK(calls[d]))'
    BY <1>1, <1>2, <1>3, CallsAfter
  <1>5. made' \in 0..MaxCalls
    BY <1>1, SessionBounds DEF TypeOK
  <1>6. TypeOK'
    BY <1>1, <1>4, <1>5 DEF TypeOK
  <1>7. ShapeInv'
    BY <1>1, <1>4 DEF ShapeInv, SessionOf
  <1> QED
    BY <1>6, <1>7 DEF TypeInv

(* The calls that start. *)
Starts ==
    \/ \E b \in Browsers, c \in Calls :
          SignUp(b, c) \/ SignIn(b, c) \/ LoadPage(b, c) \/ SignOut(b, c)
    \/ \E c \in Calls : RequestReset(c)
    \/ \E c \in Calls, l \in DOMAIN links : UseLink(c, l)

(* The session of a token a browser or a call presents. *)
LEMMA TroubleType ==
    ASSUME TypeOK, ShapeInv
    PROVE  /\ \A c \in Calls : Touches(c) \subseteq TokenIds
           /\ \A b \in Browsers : jars[b].refresh # NoToken =>
                 /\ jars[b].refresh \in DOMAIN tokens
                 /\ Overlap(jars[b].refresh) \subseteq TokenIds
  <1>1. ASSUME NEW c \in Calls PROVE Touches(c) \subseteq TokenIds
    <2>1. calls[c] # Idle /\ calls[c].token # NoToken => calls[c].token \in DOMAIN tokens
      BY DEF ShapeInv, CallOK
    <2> QED
      BY <2>1, TokenFacts DEF Touches
  <1>2. ASSUME NEW b \in Browsers, jars[b].refresh # NoToken
        PROVE  /\ jars[b].refresh \in DOMAIN tokens
               /\ Overlap(jars[b].refresh) \subseteq TokenIds
    BY <1>2, TokenFacts DEF ShapeInv, Overlap
  <1> QED
    BY <1>1, <1>2

(* What starting a call does: of a session it presents a token of, it       *)
(* troubles what other calls are busy with.                                 *)
LEMMA StartFacts ==
    ASSUME TypeOK, ShapeInv, Starts
    PROVE  \E c \in Calls, call \in Call :
              /\ calls[c] = Idle /\ Start(c, call) /\ CallOK(call)
              /\ UNCHANGED <<tables, jars, renewed, alarms, signedOut>>
              /\ \/ /\ call.token = NoToken /\ call.at \in {"create", "retire-links", "set"}
                    /\ troubled' = troubled
                 \/ /\ call.token = NoToken /\ call.at = "issue" /\ call.under = password
                    /\ troubled' = troubled
                 \/ \E b \in Browsers :
                       /\ jars[b].refresh \in DOMAIN tokens /\ call.token = jars[b].refresh
                       /\ call.by = {b}
                       /\ \/ call.kind = "rotate" /\ call.at = "load"
                          \/ call.kind = "sign-out" /\ call.at = "retire"
                       /\ troubled' = troubled \cup Overlap(call.token)
  <1> DEFINE Goal ==
          \E c \in Calls, call \in Call :
              /\ calls[c] = Idle /\ Start(c, call) /\ CallOK(call)
              /\ UNCHANGED <<tables, jars, renewed, alarms, signedOut>>
              /\ \/ /\ call.token = NoToken /\ call.at \in {"create", "retire-links", "set"}
                    /\ troubled' = troubled
                 \/ /\ call.token = NoToken /\ call.at = "issue" /\ call.under = password
                    /\ troubled' = troubled
                 \/ \E b \in Browsers :
                       /\ jars[b].refresh \in DOMAIN tokens /\ call.token = jars[b].refresh
                       /\ call.by = {b}
                       /\ \/ call.kind = "rotate" /\ call.at = "load"
                          \/ call.kind = "sign-out" /\ call.at = "retire"
                       /\ troubled' = troubled \cup Overlap(call.token)
  <1>1. ASSUME NEW b \in Browsers, NEW c \in Calls, SignUp(b, c) PROVE Goal
    <2> DEFINE call == [NewCall EXCEPT !.kind = "sign-up", !.at = "create", !.by = {b}]
    <2>1. /\ call \in Call /\ call.kind = "sign-up" /\ call.at = "create"
          /\ call.token = NoToken
      BY NewCallType DEF Call, Kinds, Steps
    <2>2. /\ Start(c, call) /\ UNCHANGED <<tables, jars, history>> /\ calls[c] = Idle
      BY <1>1 DEF SignUp, Start
    <2> HIDE DEF call
    <2>3. CallOK(call)
      BY <2>1 DEF CallOK, OnItsPath
    <2> QED
      BY <2>1, <2>2, <2>3 DEF history
  <1>2. ASSUME NEW b \in Browsers, NEW c \in Calls, SignIn(b, c) PROVE Goal
    <2> DEFINE call == [NewCall EXCEPT !.by = {b}, !.under = password]
    <2>1. /\ call \in Call /\ call.kind = "sign-in" /\ call.at = "issue"
          /\ call.token = NoToken /\ call.under = password
      BY NewCallType DEF Call, Kinds, Steps, TypeOK
    <2>2. password \in 1..password
      BY <1>2, SessionBounds DEF TypeOK, SignIn
    <2>3. /\ Start(c, call) /\ UNCHANGED <<tables, jars, history>> /\ calls[c] = Idle
      BY <1>2 DEF SignIn, Start
    <2> HIDE DEF call
    <2>4. CallOK(call)
      BY <2>1, <2>2 DEF CallOK, OnItsPath
    <2> QED
      BY <2>1, <2>3, <2>4 DEF history
  <1>3. ASSUME NEW b \in Browsers, NEW c \in Calls, LoadPage(b, c) PROVE Goal
    <2> DEFINE call == [NewCall EXCEPT !.kind = "rotate", !.at = "load", !.by = {b},
                                       !.token = jars[b].refresh]
    <2>1. jars[b].refresh \in DOMAIN tokens /\ jars[b].refresh \in TokenIds
      BY <1>3, TroubleType, TokenFacts DEF LoadPage
    <2>2. /\ call \in Call /\ call.kind = "rotate" /\ call.at = "load" /\ call.by = {b}
          /\ call.token = jars[b].refresh
      BY <2>1, NewCallType DEF Call, Kinds, Steps
    <2>3. /\ Start(c, call) /\ UNCHANGED <<tables, jars, renewed, alarms, signedOut>>
          /\ calls[c] = Idle /\ troubled' = troubled \cup Overlap(jars[b].refresh)
      BY <1>3 DEF LoadPage, Trouble, Start
    <2> HIDE DEF call
    <2>4. CallOK(call)
      BY <2>1, <2>2 DEF CallOK, OnItsPath
    <2> QED
      BY <2>1, <2>2, <2>3, <2>4
  <1>4. ASSUME NEW b \in Browsers, NEW c \in Calls, SignOut(b, c) PROVE Goal
    <2> DEFINE call == [NewCall EXCEPT !.kind = "sign-out", !.at = "retire", !.by = {b},
                                       !.token = jars[b].refresh]
    <2>1. jars[b].refresh \in DOMAIN tokens /\ jars[b].refresh \in TokenIds
      BY <1>4, TroubleType, TokenFacts DEF SignOut
    <2>2. /\ call \in Call /\ call.kind = "sign-out" /\ call.at = "retire" /\ call.by = {b}
          /\ call.token = jars[b].refresh
      BY <2>1, NewCallType DEF Call, Kinds, Steps
    <2>3. /\ Start(c, call) /\ UNCHANGED <<tables, jars, renewed, alarms, signedOut>>
          /\ calls[c] = Idle /\ troubled' = troubled \cup Overlap(jars[b].refresh)
      BY <1>4 DEF SignOut, Trouble, Start
    <2> HIDE DEF call
    <2>4. CallOK(call)
      BY <2>1, <2>2 DEF CallOK, OnItsPath
    <2> QED
      BY <2>1, <2>2, <2>3, <2>4
  <1>5. ASSUME NEW c \in Calls, RequestReset(c) PROVE Goal
    <2> DEFINE call == [NewCall EXCEPT !.kind = "request", !.at = "retire-links"]
    <2>1. /\ call \in Call /\ call.kind = "request" /\ call.at = "retire-links"
          /\ call.token = NoToken
      BY NewCallType DEF Call, Kinds, Steps
    <2>2. /\ Start(c, call) /\ UNCHANGED <<tables, jars, history>> /\ calls[c] = Idle
      BY <1>5 DEF RequestReset, Start
    <2> HIDE DEF call
    <2>3. CallOK(call)
      BY <2>1 DEF CallOK, OnItsPath
    <2> QED
      BY <2>1, <2>2, <2>3 DEF history
  <1>6. ASSUME NEW c \in Calls, NEW l \in DOMAIN links, UseLink(c, l) PROVE Goal
    <2> DEFINE call == [NewCall EXCEPT !.kind = "confirm", !.at = "set", !.link = l]
    <2>1. l \in 0..MaxLinks
      BY SessionBounds DEF TypeOK
    <2>2. /\ call \in Call /\ call.kind = "confirm" /\ call.at = "set"
          /\ call.token = NoToken /\ call.link = l
      BY <2>1, NewCallType DEF Call, Kinds, Steps
    <2>3. /\ Start(c, call) /\ UNCHANGED <<tables, jars, history>> /\ calls[c] = Idle
      BY <1>6 DEF UseLink, Start
    <2> HIDE DEF call
    <2>4. CallOK(call)
      BY <2>2 DEF CallOK, OnItsPath
    <2> QED
      BY <2>2, <2>3, <2>4 DEF history
  <1> HIDE DEF Goal
  <1>7. Goal
    BY <1>1, <1>2, <1>3, <1>4, <1>5, <1>6 DEF Starts
  <1> QED
    BY <1>7 DEF Goal

(* Starting a call keeps the types. *)
LEMMA StartType == TypeOK /\ ShapeInv /\ Starts => TypeInv'
  <1> SUFFICES ASSUME TypeOK, ShapeInv, Starts PROVE TypeInv'
    OBVIOUS
  <1>1. PICK c \in Calls, call \in Call :
           /\ Start(c, call) /\ CallOK(call)
           /\ UNCHANGED <<tables, jars, renewed, alarms, signedOut>>
           /\ \/ troubled' = troubled
              \/ \E b \in Browsers :
                    /\ jars[b].refresh \in DOMAIN tokens /\ call.token = jars[b].refresh
                    /\ troubled' = troubled \cup Overlap(call.token)
    BY StartFacts
  <1>2. troubled' \subseteq TokenIds
    <2>1. CASE troubled' = troubled
      BY <2>1 DEF TypeOK
    <2>2. CASE troubled' # troubled
      <3>1. PICK b \in Browsers : /\ jars[b].refresh \in DOMAIN tokens
                                  /\ troubled' = troubled \cup Overlap(jars[b].refresh)
        BY <1>1, <2>2
      <3>2. jars[b].refresh # NoToken
        BY <3>1, TokenFacts DEF NoToken, TokenIds
      <3> QED
        BY <3>1, <3>2, TroubleType DEF TypeOK
    <2> QED
      BY <2>1, <2>2
  <1> QED
    BY <1>1, <1>2, Started

(* The tables and the history as they should be, the calls apart. *)
TablesOK ==
    /\ password \in 0..MaxPassword /\ made \in 0..MaxCalls /\ upsets \in 0..MaxUpsets
    /\ tokens \in Seq(Token) /\ Len(tokens) <= MaxTokens
    /\ \A t \in DOMAIN tokens : SessionOf(t) <= t /\ tokens[t].under \in 1..password
    /\ links \in Seq(BOOLEAN) /\ Len(links) <= MaxLinks
    /\ jars \in [Browsers -> Jar]
    /\ \A b \in Browsers : jars[b].refresh \in {NoToken} \cup DOMAIN tokens
    /\ renewed \in 0..password
    /\ troubled \subseteq TokenIds /\ alarms \subseteq TokenIds
    /\ signedOut \subseteq DOMAIN tokens /\ signedOut \subseteq TokenIds

(* The two parts together. *)
LEMMA InParts ==
    /\ TypeOK /\ ShapeInv => TablesOK
    /\ TablesOK' /\ calls' \in [Calls -> Call \cup {Idle}]
          /\ (\A c \in Calls : (calls[c] # Idle => CallOK(calls[c]))') => TypeInv'
  <1>1. TypeOK /\ ShapeInv => TablesOK
    BY DEF TablesOK, TypeOK, ShapeInv
  <1>2. ASSUME TablesOK', calls' \in [Calls -> Call \cup {Idle}],
               \A c \in Calls : (calls[c] # Idle => CallOK(calls[c]))'
        PROVE  TypeOK' /\ ShapeInv'
    <2>1. TypeOK'
      BY <1>2 DEF TablesOK, TypeOK
    <2>2. ShapeInv'
      BY <1>2 DEF TablesOK, ShapeInv
    <2> QED
      BY <2>1, <2>2
  <1> QED
    BY <1>1, <1>2 DEF TypeInv

(* A call that moves from one step to the next, or ends. *)
LEMMA Stepped ==
    ASSUME TypeOK, ShapeInv, TablesOK', Grows, NEW c \in Calls,
           NEW next \in Call \cup {Idle}, next # Idle => CallOK(next)',
           calls' = [calls EXCEPT ![c] = next]
    PROVE  TypeInv'
  BY CallsAfter, InParts

(* Cookies that are set or deleted. *)
LEMMA CookiesSet ==
    ASSUME TypeOK, ShapeInv, NEW c \in Calls, NEW jar \in Jar,
           jar.refresh \in {NoToken} \cup DOMAIN tokens, SetCookies(c, jar)
    PROVE  /\ jars' \in [Browsers -> Jar]
           /\ \A b \in Browsers :
                 /\ b \in calls[c].by => jars'[b] = jar
                 /\ b \notin calls[c].by => jars'[b] = jars[b]
                 /\ jars'[b].refresh \in {NoToken} \cup DOMAIN tokens
  BY DEF SetCookies, TypeOK, ShapeInv

(* A call and what it carries. *)
LEMMA CallFacts ==
    ASSUME TypeOK, ShapeInv, NEW c \in Calls, calls[c] # Idle
    PROVE  /\ calls[c] \in Call /\ CallOK(calls[c]) /\ OnItsPath(calls[c])
           /\ calls[c].new \in {NoToken} \cup TokenIds /\ calls[c].under \in 0..MaxPassword
           /\ calls[c].crossed \in BOOLEAN
           /\ calls[c].by = {} \/ \E b \in Browsers : calls[c].by = {b}
  <1>1. calls[c] \in Call
    BY DEF TypeOK
  <1> QED
    BY <1>1 DEF ShapeInv, CallOK, Call

(* A call that goes to its next step. *)
LEMMA GoesTo ==
    ASSUME TypeOK, NEW c \in Calls, calls[c] # Idle, NEW at \in Steps, GoTo(c, at)
    PROVE  \E next \in Call :
              /\ next # Idle /\ next.at = at /\ calls' = [calls EXCEPT ![c] = next]
              /\ next.kind = calls[c].kind /\ next.by = calls[c].by
              /\ next.token = calls[c].token /\ next.new = calls[c].new
              /\ next.under = calls[c].under /\ next.link = calls[c].link
  <1> DEFINE next == [calls[c] EXCEPT !.at = at]
  <1>1. calls[c] \in Call
    BY DEF TypeOK
  <1>2. /\ next \in Call /\ next # Idle /\ next.at = at
        /\ next.kind = calls[c].kind /\ next.by = calls[c].by
        /\ next.token = calls[c].token /\ next.new = calls[c].new
        /\ next.under = calls[c].under /\ next.link = calls[c].link
    BY <1>1, Moved
  <1>3. calls' = [calls EXCEPT ![c] = next]
    BY DEF GoTo, TypeOK
  <1> HIDE DEF next
  <1> QED
    BY <1>2, <1>3

-----------------------------------------------------------------------------
(* Steps that touch no token. *)
Walks(c) ==
    \/ CreateAccount(c) \/ LoadToken(c) \/ RetireLinks(c) \/ CreateLink(c) \/ SetPassword(c)

(* What loading a token does: an expired one is refused, a revoked one      *)
(* raises the alarm, and a live one hands on what it was earned with.       *)
LEMMA LoadFacts ==
    ASSUME TypeOK, ShapeInv, NEW c \in Calls, LoadToken(c)
    PROVE  LET call == calls[c]
               t == calls[c].token
           IN
           /\ call # Idle /\ call.kind = "rotate" /\ call.at = "load" /\ t \in DOMAIN tokens
           /\ UNCHANGED <<password, tokens, links, jars, made, upsets, renewed, troubled, signedOut>>
           /\ \E next \in Call :
                 /\ next # Idle /\ calls' = [calls EXCEPT ![c] = next]
                 /\ next.kind = "rotate" /\ next.token = t /\ next.by = call.by
                 /\ next.new = call.new
                 /\ \/ next.at = "denied" /\ alarms' = alarms
                    \/ /\ next.at = "alarm" /\ tokens[t].revoked
                       /\ alarms' = alarms \cup {SessionOf(t)}
                    \/ /\ next.at = "issue" /\ Live(t) /\ alarms' = alarms
                       /\ next.under = tokens[t].under /\ next.crossed = tokens[t].crossed
  <1> DEFINE t == calls[c].token
  <1>1. calls[c] # Idle /\ calls[c].kind = "rotate" /\ calls[c].at = "load"
    BY DEF LoadToken, IsAt
  <1>2. calls[c] \in Call /\ t \in DOMAIN tokens
        /\ tokens[t].under \in 1..MaxPassword /\ tokens[t].crossed \in BOOLEAN
    BY <1>1, CallFacts, TokenFacts DEF CallOK
  <1>3. UNCHANGED <<password, tokens, links, jars, made, upsets, renewed, troubled, signedOut>>
    BY DEF LoadToken, Quietly, tables
  <1>4. ASSUME NEW at \in {"denied", "alarm"}, GoTo(c, at)
        PROVE  \E next \in Call :
                  /\ next # Idle /\ calls' = [calls EXCEPT ![c] = next]
                  /\ next.kind = "rotate" /\ next.token = t /\ next.by = calls[c].by
                  /\ next.new = calls[c].new /\ next.at = at
    <2>1. at \in Steps
      BY DEF Steps
    <2> QED
      BY <1>1, <1>4, <2>1, GoesTo
  <1>5. ASSUME calls' = [calls EXCEPT ![c].at = "issue", ![c].under = tokens[t].under,
                                      ![c].crossed = tokens[t].crossed]
        PROVE  \E next \in Call :
                  /\ next # Idle /\ calls' = [calls EXCEPT ![c] = next]
                  /\ next.kind = "rotate" /\ next.token = t /\ next.by = calls[c].by
                  /\ next.new = calls[c].new /\ next.at = "issue"
                  /\ next.under = tokens[t].under /\ next.crossed = tokens[t].crossed
    <2> DEFINE next == [calls[c] EXCEPT !.at = "issue", !.under = tokens[t].under,
                                        !.crossed = tokens[t].crossed]
    <2>1. tokens[t].under \in 0..MaxPassword
      BY <1>2, SessionBounds
    <2>2. /\ next \in Call /\ next.kind = "rotate" /\ next.token = t /\ next.by = calls[c].by
          /\ next.new = calls[c].new /\ next.at = "issue"
          /\ next.under = tokens[t].under /\ next.crossed = tokens[t].crossed
      BY <1>1, <1>2, <2>1 DEF Call, Steps
    <2>3. calls' = [calls EXCEPT ![c] = next]
      BY <1>5 DEF TypeOK
    <2> HIDE DEF next
    <2> QED
      BY <2>2, <2>3, IdleIsNoCall
  <1>6. \E next \in Call :
           /\ next # Idle /\ calls' = [calls EXCEPT ![c] = next]
           /\ next.kind = "rotate" /\ next.token = t /\ next.by = calls[c].by
           /\ next.new = calls[c].new
           /\ \/ next.at = "denied" /\ alarms' = alarms
              \/ /\ next.at = "alarm" /\ tokens[t].revoked
                 /\ alarms' = alarms \cup {SessionOf(t)}
              \/ /\ next.at = "issue" /\ Live(t) /\ alarms' = alarms
                 /\ next.under = tokens[t].under /\ next.crossed = tokens[t].crossed
    <2>1. CASE GoTo(c, "denied") /\ alarms' = alarms
      BY <1>4, <2>1
    <2>2. CASE GoTo(c, "alarm") /\ tokens[t].revoked /\ alarms' = alarms \cup {SessionOf(t)}
      BY <1>4, <2>2
    <2>3. CASE /\ calls' = [calls EXCEPT ![c].at = "issue", ![c].under = tokens[t].under,
                                         ![c].crossed = tokens[t].crossed]
               /\ Live(t) /\ alarms' = alarms
      BY <1>5, <2>3
    <2> QED
      BY <2>1, <2>2, <2>3 DEF LoadToken
  <1> QED
    BY <1>1, <1>2, <1>3, <1>6

(* The other steps that touch no token are those of calls that present none. *)
WalksOn(c) ==
    /\ calls[c] # Idle /\ calls[c].token = NoToken
    /\ UNCHANGED <<tokens, jars, renewed, troubled, alarms, signedOut>>
    /\ \E next \in Call \cup {Idle} :
          /\ calls' = [calls EXCEPT ![c] = next]
          /\ next # Idle => /\ next.token = NoToken
                            /\ next.at \in {"issue", "mail", "end-sessions"}
                            /\ next.at = "issue" => next.under = 1 /\ password = 0

(* They keep the types. *)
LEMMA WalkType ==
    ASSUME TypeOK, ShapeInv, NEW c \in Calls, Walks(c)
    PROVE  TypeInv' /\ (LoadToken(c) \/ WalksOn(c))
  <1>0. TablesOK /\ DOMAIN tokens \subseteq TokenIds
        /\ \A t \in DOMAIN tokens : tokens[t].under \in 1..MaxPassword
    BY InParts, TokenFacts
  <1>1. CASE CreateAccount(c)
    <2>1. calls[c] # Idle /\ calls[c].kind = "sign-up" /\ calls[c].at = "create"
      BY <1>1 DEF CreateAccount, IsAt
    <2>2. calls[c] \in Call /\ calls[c].token = NoToken
      BY <2>1, CallFacts DEF CallOK
    <2>3. CASE password = 0
      <3>1. PICK next \in Call :
               /\ next.kind = "sign-up" /\ next.at = "issue" /\ next.under = 1
               /\ next.token = NoToken /\ calls' = [calls EXCEPT ![c] = next]
        <4> DEFINE call == [calls[c] EXCEPT !.at = "issue", !.under = 1]
        <4>1. 1 \in 0..MaxPassword
          BY SessionBounds
        <4>2. call \in Call /\ call.kind = "sign-up" /\ call.at = "issue" /\ call.under = 1
              /\ call.token = NoToken
          BY <2>1, <2>2, <4>1 DEF Call, Steps
        <4>3. calls' = [calls EXCEPT ![c] = call]
          BY <1>1, <2>3 DEF CreateAccount, TypeOK
        <4> HIDE DEF call
        <4> QED
          BY <4>2, <4>3
      <3>2. password' = 1 /\ UNCHANGED <<tokens, links, jars, history, made, upsets>>
        BY <1>1, <2>3 DEF CreateAccount, Quietly
      <3>3. Grows
        BY <2>3, <3>2, SessionBounds DEF Grows
      <3>4. CallOK(next)'
        BY <3>1, <3>2 DEF CallOK, OnItsPath
      <3>5. TablesOK'
        BY <1>0, <2>3, <3>2, SessionBounds DEF TablesOK, SessionOf, history
      <3>6. WalksOn(c)
        BY <2>1, <2>2, <2>3, <3>1, <3>2 DEF WalksOn, history
      <3> QED
        BY <3>1, <3>2, <3>3, <3>4, <3>5, <3>6, Stepped
    <2>4. CASE password # 0
      <3>1. UNCHANGED <<tables, jars, history, made, upsets>>
            /\ calls' = [calls EXCEPT ![c] = Idle]
        BY <1>1, <2>4 DEF CreateAccount, Quietly, End, tables
      <3>2. Grows
        BY <3>1 DEF Grows, tables, TypeOK
      <3>3. TablesOK'
        BY <1>0, <3>1 DEF TablesOK, SessionOf, tables, history
      <3>4. WalksOn(c)
        BY <2>1, <2>2, <3>1 DEF WalksOn, tables, history
      <3> QED
        BY <3>1, <3>2, <3>3, <3>4, Stepped
    <2> QED
      BY <2>3, <2>4
  <1>2. CASE LoadToken(c)
    <2> DEFINE t == calls[c].token
    <2>1. t \in DOMAIN tokens /\ SessionOf(t) \in TokenIds /\ tokens[t].under \in 1..password
          /\ UNCHANGED <<password, tokens, links, jars, made, upsets, renewed, troubled, signedOut>>
      BY <1>2, LoadFacts, TokenFacts DEF ShapeInv
    <2>2. PICK next \in Call :
             /\ next # Idle /\ calls' = [calls EXCEPT ![c] = next]
             /\ next.kind = "rotate" /\ next.token = t
             /\ \/ next.at \in {"denied", "alarm"}
                \/ next.at = "issue" /\ next.under = tokens[t].under
             /\ alarms' \in {alarms, alarms \cup {SessionOf(t)}}
      BY <1>2, LoadFacts
    <2>3. Grows
      BY <2>1 DEF Grows, TypeOK
    <2>4. CallOK(next)'
      BY <2>1, <2>2 DEF CallOK, OnItsPath
    <2>5. TablesOK'
      BY <1>0, <2>1, <2>2 DEF TablesOK, SessionOf
    <2> QED
      BY <1>2, <2>2, <2>3, <2>4, <2>5, Stepped
  <1>3. CASE RetireLinks(c)
    <2>1. calls[c] # Idle /\ calls[c].kind = "request" /\ calls[c].at = "retire-links"
      BY <1>3 DEF RetireLinks, IsAt
    <2>2. calls[c] \in Call /\ calls[c].token = NoToken
      BY <2>1, CallFacts DEF CallOK
    <2>3. PICK next \in Call :
             /\ next.kind = "request" /\ next.at = "mail" /\ next.token = NoToken
             /\ calls' = [calls EXCEPT ![c] = next]
      <3>1. GoTo(c, "mail") /\ "mail" \in Steps
        BY <1>3 DEF RetireLinks, Steps
      <3> QED
        BY <2>1, <2>2, <3>1, GoesTo
    <2>4. links' = [l \in DOMAIN links |-> FALSE]
          /\ UNCHANGED <<password, tokens, jars, history, made, upsets>>
      BY <1>3 DEF RetireLinks, Quietly
    <2>5. links' \in Seq(BOOLEAN) /\ Len(links') = Len(links) /\ DOMAIN links' = DOMAIN links
      <3>1. Len(links) \in Nat /\ DOMAIN links = 1..Len(links)
        BY DEF TypeOK
      <3>2. links' \in [1..Len(links) -> BOOLEAN]
        BY <2>4, <3>1
      <3> QED
        BY <3>1, <3>2
    <2>6. Grows
      BY <2>4, <2>5 DEF Grows, TypeOK
    <2>7. CallOK(next)'
      BY <2>3 DEF CallOK, OnItsPath
    <2>8. TablesOK'
      BY <1>0, <2>4, <2>5 DEF TablesOK, SessionOf, history
    <2>9. WalksOn(c)
      BY <2>1, <2>2, <2>3, <2>4 DEF WalksOn, history
    <2> QED
      BY <2>3, <2>4, <2>6, <2>7, <2>8, <2>9, Stepped
  <1>4. CASE CreateLink(c)
    <2>1. calls' = [calls EXCEPT ![c] = Idle] /\ links' = Append(links, TRUE)
          /\ Len(links) < MaxLinks
          /\ UNCHANGED <<password, tokens, jars, history, made, upsets>>
      BY <1>4 DEF CreateLink, End, Quietly
    <2>2. links' \in Seq(BOOLEAN) /\ Len(links') <= MaxLinks /\ DOMAIN links \subseteq DOMAIN links'
      <3>1. links \in Seq(BOOLEAN) /\ Len(links) \in Nat
        BY DEF TypeOK
      <3> QED
        BY <2>1, <3>1, SessionBounds
    <2>3. Grows
      BY <2>1, <2>2 DEF Grows, TypeOK
    <2>4. TablesOK'
      BY <1>0, <2>1, <2>2 DEF TablesOK, SessionOf, history
    <2>5. calls[c] # Idle /\ calls[c].token = NoToken
      <3>1. calls[c] # Idle /\ calls[c].kind = "request"
        BY <1>4 DEF CreateLink, IsAt
      <3>2. CallOK(calls[c])
        BY <3>1, CallFacts
      <3> QED
        BY <3>1, <3>2 DEF CallOK
    <2>6. WalksOn(c)
      BY <2>1, <2>5 DEF WalksOn, history
    <2> QED
      BY <2>1, <2>3, <2>4, <2>6, Stepped
  <1>5. CASE SetPassword(c)
    <2>1. calls[c] # Idle /\ calls[c].kind = "confirm" /\ calls[c].at = "set"
      BY <1>5 DEF SetPassword, IsAt
    <2>2. calls[c] \in Call /\ calls[c].token = NoToken /\ calls[c].link \in DOMAIN links
      BY <2>1, CallFacts DEF CallOK
    <2>3. password < MaxPassword /\ password' = password + 1
          /\ links' = [links EXCEPT ![calls[c].link] = FALSE]
          /\ UNCHANGED <<tokens, jars, history, made, upsets>>
      BY <1>5 DEF SetPassword, Quietly
    <2>4. password + 1 \in 0..MaxPassword /\ password \in Nat
      BY <2>3, SessionBounds DEF TypeOK
    <2>5. PICK next \in Call :
             /\ next.kind = "confirm" /\ next.at = "end-sessions"
             /\ next.token = NoToken /\ next.link = calls[c].link /\ next.under = password + 1
             /\ calls' = [calls EXCEPT ![c] = next]
      <3> DEFINE call == [calls[c] EXCEPT !.at = "end-sessions", !.under = password + 1]
      <3>1. call \in Call /\ call.kind = "confirm" /\ call.at = "end-sessions"
            /\ call.token = NoToken /\ call.link = calls[c].link /\ call.under = password + 1
        BY <2>1, <2>2, <2>4 DEF Call, Steps
      <3>2. calls' = [calls EXCEPT ![c] = call]
        BY <1>5 DEF SetPassword, TypeOK
      <3> HIDE DEF call
      <3> QED
        BY <3>1, <3>2
    <2>6. links' \in Seq(BOOLEAN) /\ Len(links') = Len(links) /\ DOMAIN links' = DOMAIN links
      <3>1. links \in Seq(BOOLEAN) /\ calls[c].link \in DOMAIN links
        BY <2>2 DEF TypeOK
      <3> QED
        BY <2>3, <3>1
    <2>7. Grows
      BY <2>3, <2>4, <2>6 DEF Grows
    <2>8. CallOK(next)'
      BY <2>2, <2>3, <2>4, <2>5, <2>6 DEF CallOK, OnItsPath
    <2>9. TablesOK'
      BY <1>0, <2>3, <2>4, <2>6 DEF TablesOK, SessionOf, history
    <2>10. WalksOn(c)
      BY <2>1, <2>2, <2>3, <2>5 DEF WalksOn, history
    <2> QED
      BY <2>3, <2>5, <2>7, <2>8, <2>9, <2>10, Stepped
  <1> QED
    BY <1>1, <1>2, <1>3, <1>4, <1>5 DEF Walks

-----------------------------------------------------------------------------
(* Steps that issue or revoke one token. *)
Issues(c) == IssueFirst(c) \/ IssueNext(c)
Retires(c) == RetireToken(c) \/ RevokeOne(c)

(* What issuing does: one more token, of a session that its call names. *)
LEMMA IssueFacts ==
    ASSUME TypeOK, ShapeInv, NEW c \in Calls, Issues(c)
    PROVE  LET call == calls[c]
               new == Len(tokens) + 1
           IN
           /\ call # Idle /\ call.at = "issue"
           /\ new \in TokenIds /\ new \notin DOMAIN tokens /\ DOMAIN tokens' = DOMAIN tokens \cup {new}
           /\ tokens' \in Seq(Token) /\ Len(tokens') <= MaxTokens
           /\ \A t \in DOMAIN tokens : tokens'[t] = tokens[t] /\ t < new
           /\ tokens'[new].under = call.under /\ tokens'[new].crossed = call.crossed
           /\ ~tokens'[new].revoked
           /\ IssueFirst(c) => /\ call.kind \in {"sign-up", "sign-in"} /\ call.token = NoToken
                               /\ tokens'[new].session = new
           /\ IssueNext(c) => /\ call.kind = "rotate" /\ call.token \in DOMAIN tokens
                              /\ tokens'[new].session = SessionOf(call.token)
           /\ UNCHANGED <<password, links, jars, history, made, upsets>>
           /\ \E next \in Call :
                 /\ calls' = [calls EXCEPT ![c] = next] /\ next # Idle
                 /\ next.kind = call.kind /\ next.by = call.by /\ next.token = call.token
                 /\ next.new = new
                 /\ next.at = IF call.kind = "rotate" THEN "retire" ELSE "answer"
  <1> DEFINE new == Len(tokens) + 1
             at == IF calls[c].kind = "rotate" THEN "retire" ELSE "answer"
  <1>1. calls[c] # Idle /\ calls[c].at = "issue" /\ Len(tokens) < MaxTokens
        /\ UNCHANGED <<password, links, jars, history, made, upsets>>
    BY DEF Issues, IssueFirst, IssueNext, IsAt, Quietly
  <1>2. calls[c] \in Call /\ calls[c].under \in 1..MaxPassword /\ calls[c].crossed \in BOOLEAN
        /\ CallOK(calls[c])
    <2>1. calls[c] \in Call /\ CallOK(calls[c]) /\ calls[c].crossed \in BOOLEAN
          /\ calls[c].under \in 1..password
      BY <1>1, CallFacts DEF CallOK
    <2> QED
      BY <2>1, SessionBounds DEF TypeOK
  <1>3. new \in TokenIds /\ Len(tokens) \in Nat /\ DOMAIN tokens = 1..Len(tokens)
    BY <1>1, TokenFacts, SessionBounds DEF TokenIds
  <1>4. PICK session \in TokenIds :
           /\ tokens' = Append(tokens, Issued(session, calls[c].under, calls[c].crossed))
           /\ calls' = [calls EXCEPT ![c].at = at, ![c].new = new]
           /\ IssueFirst(c) => /\ calls[c].kind \in {"sign-up", "sign-in"}
                               /\ calls[c].token = NoToken /\ session = new
           /\ IssueNext(c) => /\ calls[c].kind = "rotate" /\ calls[c].token \in DOMAIN tokens
                              /\ session = SessionOf(calls[c].token)
    <2>1. CASE IssueFirst(c)
      <3>1. calls[c].kind \in {"sign-up", "sign-in"} /\ calls[c].token = NoToken /\ at = "answer"
        BY <1>2, <2>1 DEF IssueFirst, IsAt, CallOK
      <3>2. /\ tokens' = Append(tokens, Issued(new, calls[c].under, calls[c].crossed))
            /\ calls' = [calls EXCEPT ![c].at = "answer", ![c].new = new]
        BY <2>1 DEF IssueFirst
      <3>3. ~IssueNext(c)
        BY <3>1 DEF IssueNext, IsAt
      <3> QED
        BY <1>3, <3>1, <3>2, <3>3
    <2>2. CASE IssueNext(c)
      <3>1. calls[c].kind = "rotate" /\ calls[c].token \in DOMAIN tokens /\ at = "retire"
        BY <1>2, <2>2 DEF IssueNext, IsAt, CallOK
      <3>2. /\ tokens' = Append(tokens, Issued(SessionOf(calls[c].token),
                                               calls[c].under, calls[c].crossed))
            /\ calls' = [calls EXCEPT ![c].at = "retire", ![c].new = new]
        BY <2>2 DEF IssueNext
      <3>3. ~IssueFirst(c) /\ SessionOf(calls[c].token) \in TokenIds
        BY <3>1, TokenFacts DEF IssueFirst, IsAt
      <3> QED
        BY <3>1, <3>2, <3>3
    <2> QED
      BY <2>1, <2>2 DEF Issues
  <1>5. PICK token \in Token :
           /\ tokens' = Append(tokens, token) /\ token.session = session
           /\ token.under = calls[c].under /\ token.crossed = calls[c].crossed /\ ~token.revoked
    <2> DEFINE token == Issued(session, calls[c].under, calls[c].crossed)
    <2>1. /\ token \in Token /\ token.session = session /\ token.under = calls[c].under
          /\ token.crossed = calls[c].crossed /\ ~token.revoked
      BY <1>2 DEF Issued, Token
    <2> QED
      BY <1>4, <2>1
  <1>6. /\ tokens' \in Seq(Token) /\ Len(tokens') <= MaxTokens
        /\ DOMAIN tokens' = DOMAIN tokens \cup {new} /\ new \notin DOMAIN tokens
        /\ \A t \in DOMAIN tokens : tokens'[t] = tokens[t]
        /\ tokens'[new] = token
    BY <1>1, <1>5, AppendedToken
  <1>7. \E next \in Call :
           /\ calls' = [calls EXCEPT ![c] = next] /\ next # Idle
           /\ next.kind = calls[c].kind /\ next.by = calls[c].by /\ next.token = calls[c].token
           /\ next.new = new /\ next.at = at
    <2> DEFINE next == [calls[c] EXCEPT !.at = at, !.new = new]
    <2>1. at \in Steps
      BY DEF Steps
    <2> HIDE DEF at
    <2>2. /\ next \in Call
          /\ next.kind = calls[c].kind /\ next.by = calls[c].by /\ next.token = calls[c].token
          /\ next.new = new /\ next.at = at
      BY <1>2, <1>3, <2>1 DEF Call
    <2>3. calls' = [calls EXCEPT ![c] = next]
      BY <1>4 DEF TypeOK
    <2> HIDE DEF next
    <2> QED
      BY <2>2, <2>3, IdleIsNoCall
  <1>8. \A t \in DOMAIN tokens : t < new
    BY <1>3
  <1> QED
    BY <1>1, <1>3, <1>4, <1>5, <1>6, <1>7, <1>8

(* What revoking one token does. *)
LEMMA RetireFacts ==
    ASSUME TypeOK, ShapeInv, NEW c \in Calls, Retires(c)
    PROVE  LET call == calls[c] IN
           /\ call # Idle /\ call.at = "retire" /\ call.token \in DOMAIN tokens
           /\ tokens' = Revoked(call.token)
           /\ RetireToken(c) => call.kind = "rotate" /\ signedOut' = signedOut
           /\ RevokeOne(c) => /\ call.kind = "sign-out"
                              /\ signedOut' = signedOut \cup {SessionOf(call.token)}
           /\ UNCHANGED <<password, links, jars, made, upsets, renewed, troubled, alarms>>
           /\ \E next \in Call :
                 /\ calls' = [calls EXCEPT ![c] = next] /\ next # Idle
                 /\ next.kind = call.kind /\ next.by = call.by /\ next.token = call.token
                 /\ next.new = call.new
                 /\ next.at = IF call.kind = "rotate" THEN "answer" ELSE "clear"
  <1>1. /\ calls[c] # Idle /\ calls[c].at = "retire" /\ calls[c].kind \in {"rotate", "sign-out"}
        /\ tokens' = Revoked(calls[c].token)
        /\ RetireToken(c) => calls[c].kind = "rotate" /\ signedOut' = signedOut
        /\ RevokeOne(c) => /\ calls[c].kind = "sign-out"
                           /\ signedOut' = signedOut \cup {SessionOf(calls[c].token)}
        /\ UNCHANGED <<password, links, jars, made, upsets, renewed, troubled, alarms>>
    BY DEF Retires, RetireToken, RevokeOne, IsAt, Quietly, history
  <1>2. calls[c].token \in DOMAIN tokens
    <2>1. CallOK(calls[c])
      BY <1>1, CallFacts
    <2> QED
      BY <1>1, <2>1 DEF CallOK
  <1>3. GoTo(c, IF calls[c].kind = "rotate" THEN "answer" ELSE "clear")
    BY DEF Retires, RetireToken, RevokeOne, IsAt
  <1>4. (IF calls[c].kind = "rotate" THEN "answer" ELSE "clear") \in Steps
    BY DEF Steps
  <1>5. \E next \in Call :
           /\ calls' = [calls EXCEPT ![c] = next] /\ next # Idle
           /\ next.kind = calls[c].kind /\ next.by = calls[c].by /\ next.token = calls[c].token
           /\ next.new = calls[c].new
           /\ next.at = IF calls[c].kind = "rotate" THEN "answer" ELSE "clear"
    BY <1>1, <1>3, <1>4, GoesTo
  <1> QED
    BY <1>1, <1>2, <1>5

(* Both keep the types. *)
LEMMA OneTokenType ==
    ASSUME TypeOK, ShapeInv, NEW c \in Calls, Issues(c) \/ Retires(c)
    PROVE  TypeInv'
  <1>0. TablesOK /\ DOMAIN tokens \subseteq TokenIds
    BY InParts, TokenFacts
  <1>1. CASE Issues(c)
    <2> DEFINE new == Len(tokens) + 1
    <2>1. /\ calls[c] # Idle /\ new \in TokenIds /\ new \notin DOMAIN tokens
          /\ DOMAIN tokens' = DOMAIN tokens \cup {new}
          /\ tokens' \in Seq(Token) /\ Len(tokens') <= MaxTokens
          /\ \A t \in DOMAIN tokens : tokens'[t] = tokens[t] /\ t < new
          /\ tokens'[new].under = calls[c].under
          /\ IssueFirst(c) => tokens'[new].session = new /\ calls[c].token = NoToken
          /\ IssueNext(c) => /\ calls[c].token \in DOMAIN tokens
                             /\ tokens'[new].session = SessionOf(calls[c].token)
          /\ UNCHANGED <<password, links, jars, history, made, upsets>>
      BY <1>1, IssueFacts
    <2>2. PICK next \in Call :
             /\ calls' = [calls EXCEPT ![c] = next] /\ next # Idle
             /\ next.kind = calls[c].kind /\ next.token = calls[c].token
             /\ next.new = new
             /\ next.at = IF calls[c].kind = "rotate" THEN "retire" ELSE "answer"
      BY <1>1, IssueFacts
    <2>3. CallOK(calls[c]) /\ calls[c].under \in 1..password /\ calls[c].at = "issue"
      BY <1>1, IssueFacts, CallFacts DEF CallOK
    <2>4. /\ tokens'[new].session <= new /\ new \in DOMAIN tokens'
          /\ calls[c].kind = "rotate" =>
                tokens'[calls[c].token].session = tokens'[new].session
      <3>1. CASE IssueFirst(c)
        BY <2>1, <2>3, <3>1 DEF IssueFirst, IsAt, TokenIds
      <3>2. CASE IssueNext(c)
        <4>1. SessionOf(calls[c].token) <= calls[c].token /\ calls[c].token < new
              /\ SessionOf(calls[c].token) \in TokenIds /\ calls[c].token \in TokenIds
          BY <2>1, <3>2, TokenFacts DEF ShapeInv
        <4> HIDE DEF new
        <4> QED
          BY <2>1, <3>2, <4>1 DEF SessionOf, TokenIds
      <3> QED
        BY <1>1, <3>1, <3>2 DEF Issues
    <2> HIDE DEF new
    <2>5. Grows
      BY <2>1 DEF Grows, TypeOK
    <2>6. CallOK(next)'
      BY <2>1, <2>2, <2>3, <2>4 DEF CallOK, OnItsPath, SessionOf
    <2>7. TablesOK'
      BY <1>0, <2>1, <2>3, <2>4 DEF TablesOK, SessionOf, history
    <2> QED
      BY <2>2, <2>5, <2>6, <2>7, Stepped
  <1>2. CASE Retires(c)
    <2>1. /\ calls[c] # Idle /\ calls[c].at = "retire" /\ calls[c].token \in DOMAIN tokens
          /\ tokens' = Revoked(calls[c].token)
          /\ RetireToken(c) => signedOut' = signedOut
          /\ RevokeOne(c) => signedOut' = signedOut \cup {SessionOf(calls[c].token)}
          /\ UNCHANGED <<password, links, jars, made, upsets, renewed, troubled, alarms>>
      BY <1>2, RetireFacts
    <2>2. PICK next \in Call :
             /\ calls' = [calls EXCEPT ![c] = next] /\ next # Idle
             /\ next.kind = calls[c].kind /\ next.token = calls[c].token
             /\ next.new = calls[c].new
             /\ next.at = IF calls[c].kind = "rotate" THEN "answer" ELSE "clear"
      BY <1>2, RetireFacts
    <2>3. CallOK(calls[c]) /\ OnItsPath(calls[c])
      BY <2>1, CallFacts
    <2>4. /\ tokens' \in Seq(Token) /\ Len(tokens') = Len(tokens) /\ DOMAIN tokens' = DOMAIN tokens
          /\ \A t \in DOMAIN tokens : /\ tokens'[t].session = tokens[t].session
                                      /\ tokens'[t].under = tokens[t].under
      BY <2>1, ChangedToken
    <2>5. SessionOf(calls[c].token) \in DOMAIN tokens
      <3>1. SessionOf(calls[c].token) <= calls[c].token /\ SessionOf(calls[c].token) \in TokenIds
            /\ DOMAIN tokens = 1..Len(tokens) /\ Len(tokens) \in Nat
        BY <2>1, TokenFacts DEF ShapeInv
      <3> QED
        BY <2>1, <3>1 DEF TokenIds
    <2>6. Grows
      BY <2>1, <2>4 DEF Grows, TypeOK
    <2>7. CallOK(next)'
      BY <2>1, <2>2, <2>3, <2>4 DEF CallOK, OnItsPath, SessionOf
    <2>8. signedOut' \subseteq DOMAIN tokens
      BY <1>0, <1>2, <2>1, <2>5 DEF Retires, TablesOK
    <2>9. TablesOK'
      BY <1>0, <2>1, <2>4, <2>8 DEF TablesOK, SessionOf
    <2> QED
      BY <2>2, <2>6, <2>7, <2>9, Stepped
  <1> QED
    BY <1>1, <1>2

-----------------------------------------------------------------------------
(* Steps that revoke every token. *)
Revokes(c) ==
    \/ RevokeFamily(c) \/ EndSessions(c)
    \/ \E b \in Browsers : SignOutAll(b, c)

(* A call that has been crossed by a revocation is the same otherwise. *)
LEMMA CrossedCalls ==
    ASSUME TypeOK, NEW c \in Calls, NEW next \in Call \cup {Idle},
           calls' = [Crossed(c) EXCEPT ![c] = next]
    PROVE  /\ calls' \in [Calls -> Call \cup {Idle}] /\ calls'[c] = next
           /\ \A d \in Calls \ {c} :
                 /\ calls'[d] = Idle <=> calls[d] = Idle
                 /\ calls[d] # Idle =>
                       /\ calls'[d].kind = calls[d].kind /\ calls'[d].at = calls[d].at
                       /\ calls'[d].by = calls[d].by /\ calls'[d].token = calls[d].token
                       /\ calls'[d].new = calls[d].new /\ calls'[d].under = calls[d].under
                       /\ calls'[d].link = calls[d].link
                       /\ calls[d].at = "issue" => calls'[d].crossed
                       /\ calls[d].crossed => calls'[d].crossed
  <1>1. /\ DOMAIN calls' = Calls /\ calls'[c] = next
        /\ calls' = [d \in Calls |-> calls'[d]]
    BY DEF Crossed
  <1>2. ASSUME NEW d \in Calls \ {c}
        PROVE  /\ calls'[d] \in Call \cup {Idle} /\ (calls'[d] = Idle <=> calls[d] = Idle)
               /\ calls[d] # Idle =>
                       /\ calls'[d].kind = calls[d].kind /\ calls'[d].at = calls[d].at
                       /\ calls'[d].by = calls[d].by /\ calls'[d].token = calls[d].token
                       /\ calls'[d].new = calls[d].new /\ calls'[d].under = calls[d].under
                       /\ calls'[d].link = calls[d].link
                       /\ calls[d].at = "issue" => calls'[d].crossed
                       /\ calls[d].crossed => calls'[d].crossed
    <2>1. calls'[d] = IF calls[d] # Idle /\ calls[d].at = "issue"
                      THEN [calls[d] EXCEPT !.crossed = TRUE] ELSE calls[d]
      BY <1>2 DEF Crossed
    <2>2. calls[d] \in Call \cup {Idle}
      BY DEF TypeOK
    <2>3. CASE calls[d] # Idle /\ calls[d].at = "issue"
      <3> DEFINE call == [calls[d] EXCEPT !.crossed = TRUE]
      <3>1. calls[d] \in Call
        BY <2>2, <2>3
      <3>2. /\ call \in Call /\ call.crossed = TRUE
            /\ call.kind = calls[d].kind /\ call.at = calls[d].at
            /\ call.by = calls[d].by /\ call.token = calls[d].token
            /\ call.new = calls[d].new /\ call.under = calls[d].under
            /\ call.link = calls[d].link
        BY <3>1 DEF Call
      <3>3. calls'[d] = call
        BY <2>1, <2>3
      <3> HIDE DEF call
      <3> QED
        BY <2>3, <3>2, <3>3, IdleIsNoCall
    <2>4. CASE ~(calls[d] # Idle /\ calls[d].at = "issue")
      BY <2>1, <2>2, <2>4
    <2> QED
      BY <2>3, <2>4
  <1>3. calls' \in [Calls -> Call \cup {Idle}]
    BY <1>1, <1>2
  <1> QED
    BY <1>1, <1>2, <1>3

(* What revoking every token does. *)
LEMMA RevokeFacts ==
    ASSUME TypeOK, ShapeInv, NEW c \in Calls, Revokes(c)
    PROVE  /\ DOMAIN tokens' = DOMAIN tokens
           /\ tokens' \in Seq(Token) /\ Len(tokens') = Len(tokens)
           /\ \A t \in DOMAIN tokens :
                 /\ tokens'[t].revoked /\ tokens'[t].session = tokens[t].session
                 /\ tokens'[t].under = tokens[t].under
                 /\ tokens'[t].crossed = tokens[t].crossed
                 /\ ~tokens[t].revoked => SessionOf(t) \in troubled'
           /\ troubled \subseteq troubled' /\ troubled' \subseteq TokenIds
           /\ UNCHANGED <<password, links, jars, alarms, signedOut>>
           /\ \E next \in Call \cup {Idle} :
                 /\ calls' = [Crossed(c) EXCEPT ![c] = next]
                 /\ next # Idle => /\ calls[c] # Idle /\ calls[c].at = "alarm" /\ next.at = "denied"
                                   /\ next.kind = calls[c].kind /\ next.by = calls[c].by
                                   /\ next.token = calls[c].token /\ next.new = calls[c].new
           /\ \/ renewed' = renewed
              \/ /\ calls[c] # Idle /\ calls[c].at = "end-sessions"
                 /\ renewed' = IF calls[c].under > renewed THEN calls[c].under ELSE renewed
           /\ \/ RevokeFamily(c) /\ calls[c] # Idle /\ calls[c].at = "alarm"
              \/ EndSessions(c) /\ calls[c] # Idle /\ calls[c].kind = "confirm"
              \/ calls[c] = Idle
           /\ made' \in {made, made + 1} /\ (made' = made + 1 => made < MaxCalls)
           /\ upsets' = upsets
  <1> DEFINE Facts ==
           /\ UNCHANGED <<password, links, jars, alarms, signedOut>>
           /\ \E next \in Call \cup {Idle} :
                 /\ calls' = [Crossed(c) EXCEPT ![c] = next]
                 /\ next # Idle => /\ calls[c] # Idle /\ calls[c].at = "alarm" /\ next.at = "denied"
                                   /\ next.kind = calls[c].kind /\ next.by = calls[c].by
                                   /\ next.token = calls[c].token /\ next.new = calls[c].new
           /\ \/ renewed' = renewed
              \/ /\ calls[c] # Idle /\ calls[c].at = "end-sessions"
                 /\ renewed' = IF calls[c].under > renewed THEN calls[c].under ELSE renewed
           /\ \/ RevokeFamily(c) /\ calls[c] # Idle /\ calls[c].at = "alarm"
              \/ EndSessions(c) /\ calls[c] # Idle /\ calls[c].kind = "confirm"
              \/ calls[c] = Idle
           /\ made' \in {made, made + 1} /\ (made' = made + 1 => made < MaxCalls)
           /\ upsets' = upsets
  <1>0. made \in Nat
    BY DEF TypeOK
  <1>1. \E under : /\ tokens' = RevokedAll(under)
                   /\ Trouble({SessionOf(t) : t \in {u \in DOMAIN tokens : ~tokens[u].revoked}})
    BY DEF Revokes, RevokeFamily, EndSessions, SignOutAll, RevokeAll
  <1>2. /\ DOMAIN tokens' = DOMAIN tokens
        /\ tokens' \in Seq(Token) /\ Len(tokens') = Len(tokens)
        /\ \A t \in DOMAIN tokens :
              /\ tokens'[t].revoked /\ tokens'[t].session = tokens[t].session
              /\ tokens'[t].under = tokens[t].under
              /\ tokens'[t].crossed = tokens[t].crossed
    BY <1>1, AllRevoked
  <1>3. /\ troubled \subseteq troubled' /\ troubled' \subseteq TokenIds
        /\ \A t \in DOMAIN tokens : ~tokens[t].revoked => SessionOf(t) \in troubled'
    BY <1>1, TokenFacts DEF Trouble, TypeOK
  <1>4. CASE RevokeFamily(c)
    <2>1. calls[c] # Idle /\ calls[c].at = "alarm" /\ calls[c] \in Call
      BY <1>4, CallFacts DEF RevokeFamily, IsAt
    <2> DEFINE next == [calls[c] EXCEPT !.at = "denied"]
    <2>2. /\ next \in Call /\ next.at = "denied"
          /\ next.kind = calls[c].kind /\ next.by = calls[c].by
          /\ next.token = calls[c].token /\ next.new = calls[c].new
      BY <2>1, Moved DEF Steps
    <2>3. calls' = [Crossed(c) EXCEPT ![c] = next]
      BY <1>4 DEF RevokeFamily, RevokeAll
    <2>4. UNCHANGED <<password, links, jars, alarms, signedOut, renewed, made, upsets>>
      BY <1>4 DEF RevokeFamily, Quietly
    <2> HIDE DEF next
    <2>5. \E n \in Call \cup {Idle} :
             /\ calls' = [Crossed(c) EXCEPT ![c] = n]
             /\ n # Idle => /\ calls[c] # Idle /\ calls[c].at = "alarm" /\ n.at = "denied"
                            /\ n.kind = calls[c].kind /\ n.by = calls[c].by
                            /\ n.token = calls[c].token /\ n.new = calls[c].new
      BY <2>1, <2>2, <2>3
    <2>6. Facts
      <3>1. made' \in {made, made + 1} /\ (made' = made + 1 => made < MaxCalls) /\ upsets' = upsets
        BY <1>0, <2>4
      <3>2. UNCHANGED <<password, links, jars, alarms, signedOut>>
        BY <2>4
      <3>3. \/ renewed' = renewed
            \/ /\ calls[c] # Idle /\ calls[c].at = "end-sessions"
               /\ renewed' = IF calls[c].under > renewed THEN calls[c].under ELSE renewed
        BY <2>1, <2>4
      <3>4. \/ RevokeFamily(c) /\ calls[c] # Idle /\ calls[c].at = "alarm"
            \/ EndSessions(c) /\ calls[c] # Idle /\ calls[c].kind = "confirm"
        BY <1>4, <2>1
      <3> QED
        BY <2>5, <3>1, <3>2, <3>3, <3>4
    <2> HIDE DEF Facts
    <2> QED
      BY <1>2, <1>3, <2>6 DEF Facts
  <1>5. CASE EndSessions(c)
    <2>1. calls[c] # Idle /\ calls[c].at = "end-sessions" /\ calls[c].kind = "confirm"
          /\ calls' = [Crossed(c) EXCEPT ![c] = Idle]
          /\ renewed' = (IF calls[c].under > renewed THEN calls[c].under ELSE renewed)
          /\ UNCHANGED <<password, links, jars, alarms, signedOut, made, upsets>>
      BY <1>5 DEF EndSessions, RevokeAll, IsAt, Quietly
    <2>2. Facts
      <3>1. made' \in {made, made + 1} /\ (made' = made + 1 => made < MaxCalls) /\ upsets' = upsets
        BY <1>0, <2>1
      <3>2. UNCHANGED <<password, links, jars, alarms, signedOut>>
        BY <2>1
      <3>3. \/ renewed' = renewed
            \/ /\ calls[c] # Idle /\ calls[c].at = "end-sessions"
               /\ renewed' = IF calls[c].under > renewed THEN calls[c].under ELSE renewed
        BY <2>1, <2>1
      <3>4. \/ RevokeFamily(c) /\ calls[c] # Idle /\ calls[c].at = "alarm"
            \/ EndSessions(c) /\ calls[c] # Idle /\ calls[c].kind = "confirm"
        BY <1>5, <2>1
      <3>5. \E n \in Call \cup {Idle} :
               /\ calls' = [Crossed(c) EXCEPT ![c] = n]
               /\ n # Idle => /\ calls[c] # Idle /\ calls[c].at = "alarm" /\ n.at = "denied"
                              /\ n.kind = calls[c].kind /\ n.by = calls[c].by
                              /\ n.token = calls[c].token /\ n.new = calls[c].new
        BY <2>1
      <3> QED
        BY <3>1, <3>2, <3>3, <3>4, <3>5
    <2> HIDE DEF Facts
    <2> QED
      BY <1>2, <1>3, <2>2 DEF Facts
  <1>6. CASE \E b \in Browsers : SignOutAll(b, c)
    <2>1. /\ calls[c] = Idle /\ calls' = [Crossed(c) EXCEPT ![c] = Idle]
          /\ UNCHANGED <<password, links, jars, renewed, alarms, signedOut, upsets>>
          /\ made' = made + 1 /\ made < MaxCalls
      BY <1>6 DEF SignOutAll, RevokeAll
    <2>2. Facts
      BY <2>1
    <2> HIDE DEF Facts
    <2> QED
      BY <1>2, <1>3, <2>2 DEF Facts
  <1> QED
    BY <1>4, <1>5, <1>6 DEF Revokes

(* Revoking every token keeps the types. *)
LEMMA RevokeType ==
    ASSUME TypeOK, ShapeInv, NEW c \in Calls, Revokes(c)
    PROVE  TypeInv'
  <1>0. TablesOK
    BY InParts
  <1>1. PICK next \in Call \cup {Idle} :
           /\ calls' = [Crossed(c) EXCEPT ![c] = next]
           /\ next # Idle => /\ calls[c] # Idle /\ calls[c].at = "alarm" /\ next.at = "denied"
                             /\ next.kind = calls[c].kind /\ next.by = calls[c].by
                             /\ next.token = calls[c].token /\ next.new = calls[c].new
    BY RevokeFacts
  <1>2. /\ DOMAIN tokens' = DOMAIN tokens
        /\ tokens' \in Seq(Token) /\ Len(tokens') = Len(tokens)
        /\ \A t \in DOMAIN tokens :
              /\ tokens'[t].session = tokens[t].session
              /\ tokens'[t].under = tokens[t].under
        /\ troubled' \subseteq TokenIds
        /\ UNCHANGED <<password, links, jars, alarms, signedOut, upsets>>
        /\ made' \in {made, made + 1} /\ (made' = made + 1 => made < MaxCalls)
    BY RevokeFacts
  <1>3. renewed' \in 0..password
    <2>1. \/ renewed' = renewed
          \/ /\ calls[c] # Idle /\ calls[c].at = "end-sessions"
             /\ renewed' = IF calls[c].under > renewed THEN calls[c].under ELSE renewed
      BY RevokeFacts
    <2>2. calls[c] # Idle /\ calls[c].at = "end-sessions" => calls[c].under \in 1..password
      BY CallFacts DEF CallOK
    <2> QED
      BY <2>1, <2>2 DEF TypeOK
  <1>4. made' \in 0..MaxCalls
    BY <1>2, SessionBounds DEF TypeOK
  <1>5. TablesOK'
    BY <1>0, <1>2, <1>3, <1>4 DEF TablesOK, SessionOf
  <1>6. ASSUME NEW d \in Calls PROVE (calls[d] # Idle => CallOK(calls[d]))'
    <2>1. CASE d # c
      <3>1. calls[d] # Idle => CallOK(calls[d])
        BY DEF ShapeInv
      <3>2. /\ calls'[d] = Idle <=> calls[d] = Idle
            /\ calls[d] # Idle =>
                  /\ calls'[d].kind = calls[d].kind /\ calls'[d].at = calls[d].at
                  /\ calls'[d].by = calls[d].by /\ calls'[d].token = calls[d].token
                  /\ calls'[d].new = calls[d].new /\ calls'[d].under = calls[d].under
                  /\ calls'[d].link = calls[d].link
        BY <1>1, <2>1, CrossedCalls
      <3> QED
        BY <1>2, <3>1, <3>2 DEF CallOK, OnItsPath, SessionOf
    <2>2. CASE d = c
      <3>1. calls'[c] = next
        BY <1>1, CrossedCalls
      <3>2. calls[c] # Idle => CallOK(calls[c])
        BY DEF ShapeInv
      <3> QED
        BY <1>1, <1>2, <2>2, <3>1, <3>2 DEF CallOK, OnItsPath, SessionOf
    <2> QED
      BY <2>1, <2>2
  <1>7. calls' \in [Calls -> Call \cup {Idle}]
    BY <1>1, CrossedCalls
  <1> QED
    BY <1>5, <1>6, <1>7, InParts

-----------------------------------------------------------------------------
(* The ends of calls. *)
Ends(c) == Answer(c) \/ Deny(c) \/ LoseApi(c) \/ Crash(c) \/ LoseAnswer(c)

(* What the end of a call does: to the tables nothing. *)
LEMMA EndFacts ==
    ASSUME TypeOK, ShapeInv, NEW c \in Calls, Ends(c)
    PROVE  /\ calls[c] # Idle
           /\ UNCHANGED <<password, tokens, links, made, renewed, alarms, signedOut>>
           /\ upsets' \in 0..MaxUpsets
           /\ troubled \subseteq troubled' /\ troubled' \subseteq TokenIds
           /\ ~(Answer(c) \/ Deny(c)) => troubled' = troubled \cup Touches(c)
           /\ \/ UNCHANGED jars
              \/ Answer(c) /\ SetCookies(c, [access |-> TRUE, refresh |-> calls[c].new])
              \/ SetCookies(c, EmptyJar)
           /\ \E next \in Call \cup {Idle} :
                 /\ calls' = [calls EXCEPT ![c] = next]
                 /\ next # Idle =>
                       /\ next.kind = calls[c].kind /\ next.at = calls[c].at /\ next.by = {}
                       /\ next.token = calls[c].token /\ next.new = calls[c].new
                       /\ next.under = calls[c].under /\ next.link = calls[c].link
                       /\ next.crossed = calls[c].crossed
  <1> DEFINE Facts ==
           /\ calls[c] # Idle
           /\ UNCHANGED <<password, tokens, links, made, renewed, alarms, signedOut>>
           /\ \/ UNCHANGED jars
              \/ Answer(c) /\ SetCookies(c, [access |-> TRUE, refresh |-> calls[c].new])
              \/ SetCookies(c, EmptyJar)
           /\ \E next \in Call \cup {Idle} :
                 /\ calls' = [calls EXCEPT ![c] = next]
                 /\ next # Idle =>
                       /\ next.kind = calls[c].kind /\ next.at = calls[c].at /\ next.by = {}
                       /\ next.token = calls[c].token /\ next.new = calls[c].new
                       /\ next.under = calls[c].under /\ next.link = calls[c].link
                       /\ next.crossed = calls[c].crossed
  <1>1. /\ upsets' \in {upsets, upsets + 1} /\ (upsets' = upsets + 1 => upsets < MaxUpsets)
        /\ troubled' \in {troubled, troubled \cup Touches(c)}
        /\ ~(Answer(c) \/ Deny(c)) => troubled' = troubled \cup Touches(c)
    <2>1. upsets \in Nat
      BY DEF TypeOK
    <2>2. CASE Answer(c) \/ Deny(c)
      BY <2>1, <2>2 DEF Answer, Deny, Quietly, history
    <2>3. CASE LoseApi(c) \/ Crash(c) \/ LoseAnswer(c)
      BY <2>1, <2>3 DEF LoseApi, Dropped, Crash, LoseAnswer, Upset, Trouble
    <2> QED
      BY <2>2, <2>3 DEF Ends
  <1>2. /\ upsets' \in 0..MaxUpsets
        /\ troubled \subseteq troubled' /\ troubled' \subseteq TokenIds
    BY <1>1, TroubleType, SessionBounds DEF TypeOK
  <1>3. ASSUME calls[c] # Idle, End(c)
        PROVE  \E next \in Call \cup {Idle} :
                 /\ calls' = [calls EXCEPT ![c] = next]
                 /\ next # Idle =>
                       /\ next.kind = calls[c].kind /\ next.at = calls[c].at /\ next.by = {}
                       /\ next.token = calls[c].token /\ next.new = calls[c].new
                       /\ next.under = calls[c].under /\ next.link = calls[c].link
                       /\ next.crossed = calls[c].crossed
    BY <1>3 DEF End
  <1>4. CASE Answer(c) \/ Deny(c) \/ Crash(c) \/ LoseAnswer(c)
    <2>1. calls[c] # Idle /\ End(c)
          /\ UNCHANGED <<password, tokens, links, made, renewed, alarms, signedOut>>
      BY <1>4 DEF Answer, Deny, Crash, LoseAnswer, Upset, Quietly, tables, history
    <2>2. \/ UNCHANGED jars
          \/ Answer(c) /\ SetCookies(c, [access |-> TRUE, refresh |-> calls[c].new])
          \/ SetCookies(c, EmptyJar)
      BY <1>4 DEF Answer, Deny, Crash, LoseAnswer
    <2>3. Facts
      BY <1>3, <2>1, <2>2
    <2> HIDE DEF Facts
    <2> QED
      BY <1>1, <1>2, <2>3 DEF Facts
  <1>5. CASE LoseApi(c)
    <2>1. calls[c] # Idle /\ Dropped(c)
          /\ UNCHANGED <<password, tokens, links, made, renewed, alarms, signedOut>>
      BY <1>5 DEF LoseApi, Dropped, Upset, tables
    <2>2. UNCHANGED jars \/ SetCookies(c, EmptyJar)
      BY <2>1 DEF Dropped
    <2>3. CASE End(c)
      <3>1. Facts
        BY <1>3, <2>1, <2>2, <2>3
      <3> HIDE DEF Facts
      <3> QED
        BY <1>1, <1>2, <3>1 DEF Facts
    <2>4. CASE calls' = [calls EXCEPT ![c].by = {}]
      <3> DEFINE next == [calls[c] EXCEPT !.by = {}]
      <3>1. calls[c] \in Call
        BY <2>1, CallFacts
      <3>2. /\ next \in Call
            /\ next.kind = calls[c].kind /\ next.at = calls[c].at /\ next.by = {}
            /\ next.token = calls[c].token /\ next.new = calls[c].new
            /\ next.under = calls[c].under /\ next.link = calls[c].link
            /\ next.crossed = calls[c].crossed
        BY <3>1 DEF Call
      <3>3. calls' = [calls EXCEPT ![c] = next]
        BY <2>4 DEF TypeOK
      <3> HIDE DEF next
      <3>4. Facts
        BY <2>1, <2>2, <3>2, <3>3
      <3> HIDE DEF Facts
      <3> QED
        BY <1>1, <1>2, <3>4 DEF Facts
    <2> QED
      BY <1>5, <2>3, <2>4 DEF LoseApi
  <1> QED
    BY <1>4, <1>5 DEF Ends

(* They keep the types. *)
LEMMA EndType ==
    ASSUME TypeOK, ShapeInv, NEW c \in Calls, Ends(c)
    PROVE  TypeInv'
  <1>0. TablesOK
    BY InParts
  <1>1. /\ calls[c] # Idle
        /\ UNCHANGED <<password, tokens, links, made, renewed, alarms, signedOut>>
        /\ upsets' \in 0..MaxUpsets /\ troubled' \subseteq TokenIds
        /\ \/ UNCHANGED jars
           \/ Answer(c) /\ SetCookies(c, [access |-> TRUE, refresh |-> calls[c].new])
           \/ SetCookies(c, EmptyJar)
    BY EndFacts
  <1>2. PICK next \in Call \cup {Idle} :
           /\ calls' = [calls EXCEPT ![c] = next]
           /\ next # Idle =>
                 /\ next.kind = calls[c].kind /\ next.at = calls[c].at
                 /\ next.token = calls[c].token /\ next.new = calls[c].new
                 /\ next.under = calls[c].under /\ next.link = calls[c].link
    BY EndFacts
  <1>3. CallOK(calls[c])
    BY <1>1, CallFacts
  <1>4. next # Idle => CallOK(next)'
    BY <1>1, <1>2, <1>3 DEF CallOK, OnItsPath, SessionOf
  <1>5. /\ jars' \in [Browsers -> Jar]
        /\ \A b \in Browsers : jars'[b].refresh \in {NoToken} \cup DOMAIN tokens
    <2>1. CASE UNCHANGED jars
      BY <2>1 DEF TypeOK, ShapeInv
    <2>2. CASE SetCookies(c, EmptyJar)
      <3>1. EmptyJar \in Jar /\ EmptyJar.refresh = NoToken
        BY DEF EmptyJar, Jar
      <3> QED
        BY <2>2, <3>1, CookiesSet
    <2>3. CASE Answer(c) /\ SetCookies(c, [access |-> TRUE, refresh |-> calls[c].new])
      <3> DEFINE jar == [access |-> TRUE, refresh |-> calls[c].new]
      <3>1. calls[c].at = "answer"
        BY <2>3 DEF Answer
      <3>2. calls[c].new \in DOMAIN tokens /\ calls[c].new \in TokenIds
        BY <1>3, <3>1, TokenFacts DEF CallOK
      <3>3. jar \in Jar /\ jar.refresh \in DOMAIN tokens
        BY <3>2 DEF Jar
      <3> HIDE DEF jar
      <3>4. SetCookies(c, jar)
        BY <2>3 DEF jar
      <3> QED
        BY <3>3, <3>4, CookiesSet
    <2> QED
      BY <1>1, <2>1, <2>2, <2>3
  <1>6. Grows
    BY <1>1 DEF Grows, TypeOK
  <1>7. TablesOK'
    BY <1>0, <1>1, <1>5 DEF TablesOK, SessionOf
  <1> QED
    BY <1>2, <1>4, <1>6, <1>7, Stepped

(* Time. *)
Passes ==
    \/ \E b \in Browsers : AccessExpires(b)
    \/ \E t \in DOMAIN tokens : TokenExpires(t)
    \/ \E l \in DOMAIN links : LinkExpires(l)

(* Time takes away, and adds nothing. *)
LEMMA TimeType == TypeOK /\ ShapeInv /\ Passes => TypeInv'
  <1> SUFFICES ASSUME TypeOK, ShapeInv, Passes PROVE TypeInv'
    OBVIOUS
  <1>0. TablesOK
    BY InParts
  <1>1. calls' = calls /\ UNCHANGED <<password, history, made>>
    BY DEF Passes, AccessExpires, TokenExpires, LinkExpires, Quietly, Upset, tables
  <1>2. TablesOK' /\ Grows
    <2>1. ASSUME NEW b \in Browsers, AccessExpires(b) PROVE TablesOK' /\ Grows
      <3>1. UNCHANGED <<password, tokens, links, history, made, upsets>>
            /\ jars' = [jars EXCEPT ![b].access = FALSE]
        BY <2>1 DEF AccessExpires, Quietly, tables
      <3>2. /\ jars' \in [Browsers -> Jar]
            /\ \A d \in Browsers : jars'[d].refresh = jars[d].refresh
        BY <3>1 DEF TypeOK, Jar
      <3> QED
        BY <1>0, <3>1, <3>2 DEF TablesOK, SessionOf, history, Grows
    <2>2. ASSUME NEW t \in DOMAIN tokens, TokenExpires(t) PROVE TablesOK' /\ Grows
      <3>1. UNCHANGED <<password, links, jars, history, made>>
            /\ tokens' = [tokens EXCEPT ![t].expired = TRUE]
            /\ upsets' = upsets + 1 /\ upsets < MaxUpsets
        BY <2>2 DEF TokenExpires, Upset
      <3>2. /\ tokens' \in Seq(Token) /\ Len(tokens') = Len(tokens) /\ DOMAIN tokens' = DOMAIN tokens
            /\ \A u \in DOMAIN tokens : /\ tokens'[u].session = tokens[u].session
                                        /\ tokens'[u].under = tokens[u].under
        BY <3>1, ChangedToken
      <3>3. upsets' \in 0..MaxUpsets
        BY <3>1, SessionBounds DEF TypeOK
      <3> QED
        BY <1>0, <3>1, <3>2, <3>3 DEF TablesOK, SessionOf, history, Grows
    <2>3. ASSUME NEW l \in DOMAIN links, LinkExpires(l) PROVE TablesOK' /\ Grows
      <3>1. UNCHANGED <<password, tokens, jars, history, made>>
            /\ links' = [links EXCEPT ![l] = FALSE]
            /\ upsets' = upsets + 1 /\ upsets < MaxUpsets
        BY <2>3 DEF LinkExpires, Upset
      <3>2. links' \in Seq(BOOLEAN) /\ Len(links') = Len(links) /\ DOMAIN links' = DOMAIN links
        BY <3>1 DEF TypeOK
      <3>3. upsets' \in 0..MaxUpsets
        BY <3>1, SessionBounds DEF TypeOK
      <3> QED
        BY <1>0, <3>1, <3>2, <3>3 DEF TablesOK, SessionOf, history, Grows
    <2> QED
      BY <2>1, <2>2, <2>3 DEF Passes
  <1>3. ASSUME NEW c \in Calls PROVE (calls[c] # Idle => CallOK(calls[c]))'
    BY <1>1, <1>2 DEF ShapeInv, CallOK, OnItsPath, SessionOf, Grows
  <1> QED
    BY <1>1, <1>2, <1>3, InParts DEF TypeOK

(* Every step is one of these. *)
LEMMA StepKinds ==
    Next => \/ Starts \/ Passes
            \/ \E c \in Calls : Walks(c) \/ Issues(c) \/ Retires(c) \/ Revokes(c) \/ Ends(c)
  BY DEF Next, Starts, Passes, Walks, Issues, Retires, Revokes, Ends

(* Every step keeps the types and shapes. *)
LEMMA TypeStep == TypeInv /\ [Next]_vars => TypeInv'
  <1> SUFFICES ASSUME TypeOK, ShapeInv, [Next]_vars PROVE TypeInv'
    BY DEF TypeInv
  <1>1. CASE Next
    BY <1>1, StepKinds, StartType, TimeType, WalkType, OneTokenType, RevokeType, EndType
  <1>2. CASE UNCHANGED vars
    <2>1. UNCHANGED <<password, tokens, links, jars, calls, made, upsets,
                      renewed, troubled, alarms, signedOut>>
      BY <1>2 DEF vars
    <2>2. TypeOK'
      BY <2>1 DEF TypeOK
    <2>3. ShapeInv'
      BY <2>1 DEF ShapeInv, CallOK, OnItsPath, SessionOf
    <2> QED
      BY <2>2, <2>3 DEF TypeInv
  <1> QED
    BY <1>1, <1>2

(* Rows, cookies and calls keep their types, and what a call carries exists *)
(* (TypeOK).                                                                *)
THEOREM TypeCorrect == Spec => []TypeOK
  <1>1. TypeInv => TypeOK
    BY DEF TypeInv
  <1> QED
    BY <1>1, TypeInit, TypeStep, PTL DEF Spec

-----------------------------------------------------------------------------
(***************************************************************************)
(* A reset ends the sessions.  The calls that have yet to issue must be in *)
(* the invariant: what they carry becomes a token.                         *)
(***************************************************************************)
Issuing(call) == call.at = "issue" => call.under >= renewed \/ call.crossed

ResetInv ==
    /\ ResetEndsSessions
    /\ \A c \in Calls : calls[c] # Idle => Issuing(calls[c])

(* There are no tokens and no calls at first. *)
LEMMA ResetInit == Init => ResetInv
  BY DEF Init, ResetInv, ResetEndsSessions

(* A step that leaves the reset alone and moves one call. *)
LEMMA IssuingAfter ==
    ASSUME TypeOK, ResetInv, renewed' = renewed, NEW c \in Calls, NEW next \in Call \cup {Idle},
           calls' = [calls EXCEPT ![c] = next], next # Idle => Issuing(next)
    PROVE  \A d \in Calls : (calls[d] # Idle => Issuing(calls[d]))'
  BY DEF TypeOK, ResetInv, Issuing

(* Every step keeps it. *)
LEMMA ResetStep == TypeInv /\ ResetInv /\ [Next]_vars => ResetInv'
  <1> SUFFICES ASSUME TypeOK, ShapeInv, ResetInv, [Next]_vars PROVE ResetInv'
    BY DEF TypeInv
  <1>0. \A t \in DOMAIN tokens : Live(t) => tokens[t].under >= renewed \/ tokens[t].crossed
    BY DEF ResetInv, ResetEndsSessions
  <1>1. CASE Starts
    <2>1. PICK c \in Calls, call \in Call :
             /\ Start(c, call) /\ UNCHANGED <<tables, renewed>>
             /\ call.at = "issue" => call.under = password
      BY <1>1, StartFacts
    <2>2. calls' = [calls EXCEPT ![c] = call] /\ tokens' = tokens /\ renewed' = renewed
      BY <2>1 DEF Start, tables
    <2>3. Issuing(call)
      BY <2>1 DEF Issuing, TypeOK
    <2>4. ResetEndsSessions'
      BY <1>0, <2>2 DEF ResetEndsSessions, Live
    <2> QED
      BY <2>2, <2>3, <2>4, IssuingAfter DEF ResetInv
  <1>2. CASE Passes
    <2>1. calls' = calls /\ renewed' = renewed
      BY <1>2 DEF Passes, AccessExpires, TokenExpires, LinkExpires, history
    <2>2. \A c \in Calls : (calls[c] # Idle => Issuing(calls[c]))'
      BY <2>1 DEF ResetInv, Issuing
    <2>3. ResetEndsSessions'
      <3>1. CASE tokens' = tokens
        BY <1>0, <2>1, <3>1 DEF ResetEndsSessions, Live
      <3>2. CASE \E t \in DOMAIN tokens : tokens' = [tokens EXCEPT ![t].expired = TRUE]
        <4>1. PICK t \in DOMAIN tokens : tokens' = [tokens EXCEPT ![t].expired = TRUE]
          BY <3>2
        <4>2. /\ DOMAIN tokens' = DOMAIN tokens
              /\ \A u \in DOMAIN tokens :
                    /\ tokens'[u].under = tokens[u].under
                    /\ tokens'[u].crossed = tokens[u].crossed
                    /\ tokens[u].expired => tokens'[u].expired
                    /\ tokens[u].revoked => tokens'[u].revoked
          BY <4>1, ChangedToken
        <4> QED
          BY <1>0, <2>1, <4>2 DEF ResetEndsSessions, Live
      <3> QED
        BY <1>2, <3>1, <3>2 DEF Passes, AccessExpires, TokenExpires, LinkExpires, tables
    <2> QED
      BY <2>2, <2>3 DEF ResetInv
  <1>3. ASSUME NEW c \in Calls, Walks(c) PROVE ResetInv'
    <2>1. tokens' = tokens /\ renewed' = renewed
      BY <1>3, LoadFacts, WalkType DEF WalksOn
    <2>2. PICK next \in Call \cup {Idle} :
             calls' = [calls EXCEPT ![c] = next] /\ (next # Idle => Issuing(next))
      <3>1. CASE LoadToken(c)
        <4>1. calls[c].token \in DOMAIN tokens
          BY <3>1, LoadFacts
        <4>2. PICK next \in Call :
                 /\ calls' = [calls EXCEPT ![c] = next]
                 /\ \/ next.at \in {"denied", "alarm"}
                    \/ /\ Live(calls[c].token)
                       /\ next.under = tokens[calls[c].token].under
                       /\ next.crossed = tokens[calls[c].token].crossed
          BY <3>1, LoadFacts
        <4> QED
          BY <1>0, <4>1, <4>2 DEF Issuing
      <3>2. CASE WalksOn(c)
        <4>1. PICK next \in Call \cup {Idle} :
                 /\ calls' = [calls EXCEPT ![c] = next]
                 /\ next # Idle => (next.at = "issue" => next.under = 1 /\ password = 0)
          BY <3>2 DEF WalksOn
        <4>2. password = 0 => renewed = 0
          BY DEF TypeOK
        <4>3. next # Idle => Issuing(next)
          BY <4>1, <4>2 DEF Issuing
        <4> QED
          BY <4>1, <4>3
      <3> QED
        BY <1>3, <3>1, <3>2, WalkType
    <2>3. ResetEndsSessions'
      BY <1>0, <2>1 DEF ResetEndsSessions, Live
    <2> QED
      BY <2>1, <2>2, <2>3, IssuingAfter DEF ResetInv
  <1>4. ASSUME NEW c \in Calls, Issues(c) PROVE ResetInv'
    <2> DEFINE new == Len(tokens) + 1
    <2>1. /\ calls[c] # Idle /\ calls[c].at = "issue"
          /\ DOMAIN tokens' = DOMAIN tokens \cup {new}
          /\ \A t \in DOMAIN tokens : tokens'[t] = tokens[t]
          /\ tokens'[new].under = calls[c].under /\ tokens'[new].crossed = calls[c].crossed
          /\ renewed' = renewed
      BY <1>4, IssueFacts DEF history
    <2>2. PICK next \in Call : calls' = [calls EXCEPT ![c] = next] /\ next.at \in {"retire", "answer"}
      BY <1>4, IssueFacts
    <2> HIDE DEF new
    <2>3. calls[c].under >= renewed \/ calls[c].crossed
      BY <2>1 DEF ResetInv, Issuing
    <2>4. ResetEndsSessions'
      BY <1>0, <2>1, <2>3 DEF ResetEndsSessions, Live
    <2>5. Issuing(next)
      BY <2>2 DEF Issuing
    <2> QED
      BY <2>1, <2>2, <2>4, <2>5, IssuingAfter DEF ResetInv
  <1>5. ASSUME NEW c \in Calls, Retires(c) PROVE ResetInv'
    <2>1. /\ calls[c].token \in DOMAIN tokens /\ tokens' = Revoked(calls[c].token)
          /\ renewed' = renewed
      BY <1>5, RetireFacts
    <2>2. PICK next \in Call : calls' = [calls EXCEPT ![c] = next] /\ next.at \in {"answer", "clear"}
      BY <1>5, RetireFacts
    <2>3. /\ DOMAIN tokens' = DOMAIN tokens
          /\ \A u \in DOMAIN tokens :
                /\ tokens'[u].under = tokens[u].under
                /\ tokens'[u].crossed = tokens[u].crossed
                /\ tokens[u].expired => tokens'[u].expired
                /\ tokens[u].revoked => tokens'[u].revoked
      BY <2>1, ChangedToken
    <2>4. ResetEndsSessions'
      BY <1>0, <2>1, <2>3 DEF ResetEndsSessions, Live
    <2>5. Issuing(next)
      BY <2>2 DEF Issuing
    <2> QED
      BY <2>1, <2>2, <2>4, <2>5, IssuingAfter DEF ResetInv
  <1>6. ASSUME NEW c \in Calls, Revokes(c) PROVE ResetInv'
    <2>1. DOMAIN tokens' = DOMAIN tokens /\ \A t \in DOMAIN tokens : tokens'[t].revoked
      BY <1>6, RevokeFacts
    <2>2. ResetEndsSessions'
      BY <2>1 DEF ResetEndsSessions, Live
    <2>3. PICK next \in Call \cup {Idle} :
             /\ calls' = [Crossed(c) EXCEPT ![c] = next]
             /\ next # Idle => next.at = "denied"
      BY <1>6, RevokeFacts
    <2>4. ASSUME NEW d \in Calls PROVE (calls[d] # Idle => Issuing(calls[d]))'
      <3>1. CASE d = c
        <4>1. calls'[c] = next
          BY <2>3, CrossedCalls
        <4> QED
          BY <2>3, <3>1, <4>1 DEF Issuing
      <3>2. CASE d # c
        <4>1. /\ calls'[d] = Idle <=> calls[d] = Idle
              /\ calls[d] # Idle => calls'[d].at = calls[d].at
              /\ calls[d] # Idle => (calls[d].at = "issue" => calls'[d].crossed)
          BY <2>3, <3>2, CrossedCalls
        <4> QED
          BY <4>1 DEF Issuing
      <3> QED
        BY <3>1, <3>2
    <2> QED
      BY <2>2, <2>4 DEF ResetInv
  <1>7. ASSUME NEW c \in Calls, Ends(c) PROVE ResetInv'
    <2>1. calls[c] # Idle /\ tokens' = tokens /\ renewed' = renewed
      BY <1>7, EndFacts
    <2>2. PICK next \in Call \cup {Idle} :
             /\ calls' = [calls EXCEPT ![c] = next]
             /\ next # Idle => /\ next.at = calls[c].at /\ next.under = calls[c].under
                               /\ next.crossed = calls[c].crossed
      BY <1>7, EndFacts
    <2>3. next # Idle => Issuing(next)
      BY <2>1, <2>2 DEF ResetInv, Issuing
    <2>4. ResetEndsSessions'
      BY <1>0, <2>1 DEF ResetEndsSessions, Live
    <2> QED
      BY <2>1, <2>2, <2>3, <2>4, IssuingAfter DEF ResetInv
  <1>8. CASE UNCHANGED vars
    BY <1>8 DEF vars, ResetInv, ResetEndsSessions, Live, Issuing
  <1> QED
    BY <1>1, <1>2, <1>3, <1>4, <1>5, <1>6, <1>7, <1>8, StepKinds

(* When a reset is through, a token that is alive was earned with the new   *)
(* password, or issued by a call that had its check behind it               *)
(* (ResetEndsSessions).                                                     *)
THEOREM ResetsEndSessions == Spec => []ResetEndsSessions
  <1>1. ResetInv => ResetEndsSessions
    BY DEF ResetInv
  <1> QED
    BY <1>1, TypeInit, TypeStep, ResetInit, ResetStep, PTL DEF Spec

-----------------------------------------------------------------------------
(***************************************************************************)
(* A session that is not troubled is in order.  One browser at most has    *)
(* its token, and one call at most is busy with it: one that presents a    *)
(* token of it (Uses), or the sign-in that has issued its first (Brings).  *)
(* A token that is in a cookie, or that a call is about to act on or to    *)
(* hand out, is not revoked, unless the call under way has revoked it      *)
(* itself; and there is one token that is not, or two of a rotation.       *)
(***************************************************************************)
Holds(b, s) == jars[b].refresh # NoToken /\ SessionOf(jars[b].refresh) = s
Uses(call, s) == call # Idle /\ call.token # NoToken /\ SessionOf(call.token) = s
Brings(call, s) ==
    call # Idle /\ call.token = NoToken /\ call.at = "answer" /\ SessionOf(call.new) = s
Engaged(call, s) == Uses(call, s) \/ Brings(call, s)
Unrevoked(s) == {t \in DOMAIN tokens : SessionOf(t) = s /\ ~tokens[t].revoked}
Replacing(call) == call.kind = "rotate" /\ call.at = "retire"

OneBrowser(s) ==
    /\ \A b, d \in Browsers : Holds(b, s) /\ Holds(d, s) => b = d
    /\ \A c \in Calls, b \in Browsers :
          Engaged(calls[c], s) /\ Holds(b, s) => Uses(calls[c], s) /\ calls[c].by = {b}

OneCall(s) ==
    /\ \A c, d \in Calls : Engaged(calls[c], s) /\ Engaged(calls[d], s) => c = d
    /\ \A c \in Calls : Uses(calls[c], s) => calls[c].by # {}

Healthy(call) ==
    /\ call.at # "alarm"
    /\ call.at \in {"load", "issue", "retire"} => ~tokens[call.token].revoked
    /\ Replacing(call) \/ call.at = "answer" => ~tokens[call.new].revoked
    /\ Replacing(call) => call.new # call.token

CallsHealthy(s) ==
    /\ \A c \in Calls : Uses(calls[c], s) => Healthy(calls[c])
    /\ \A c \in Calls : Brings(calls[c], s) => ~tokens[calls[c].new].revoked

CookiesHealthy(s) ==
    \A b \in Browsers : Holds(b, s) =>
        \/ ~tokens[jars[b].refresh].revoked
        \/ \E c \in Calls : Uses(calls[c], s) /\ calls[c].at \in {"answer", "clear"}

OneToken(s) ==
    \A t, u \in Unrevoked(s) :
        t = u \/ \E c \in Calls : /\ Uses(calls[c], s) /\ Replacing(calls[c])
                                  /\ {t, u} = {calls[c].token, calls[c].new}

Over(s) == s \in signedOut => Unrevoked(s) = {}

Orderly(s) ==
    /\ OneBrowser(s) /\ OneCall(s) /\ CallsHealthy(s) /\ CookiesHealthy(s)
    /\ OneToken(s) /\ Over(s)

SessionsInv ==
    /\ \A s \in TokenIds \ troubled : Orderly(s)
    /\ AlarmsHaveACause

(* A step that leaves a session alone: its cookies, its tokens and the      *)
(* calls that present one stay.  A sign-in may be lost.                     *)
StaysOut(s) ==
    /\ \A b \in Browsers : Holds(b, s)' => Holds(b, s) /\ jars'[b].refresh = jars[b].refresh
    /\ \A c \in Calls : Uses(calls[c], s) \/ Uses(calls[c], s)' =>
          /\ Uses(calls[c], s) /\ Uses(calls[c], s)'
          /\ calls'[c].kind = calls[c].kind /\ calls'[c].at = calls[c].at
          /\ calls'[c].by = calls[c].by /\ calls'[c].token = calls[c].token
          /\ calls'[c].new = calls[c].new
    /\ \A c \in Calls : Brings(calls[c], s)' =>
          Brings(calls[c], s) /\ calls'[c].new = calls[c].new
    /\ \A t \in DOMAIN tokens' : SessionOf(t)' = s =>
          t \in DOMAIN tokens /\ SessionOf(t) = s /\ tokens'[t].revoked = tokens[t].revoked
    /\ s \in signedOut' => s \in signedOut

(* What is presented, handed out or held exists, and is of the session.      *)
Carried(s) ==
    /\ \A c \in Calls : Uses(calls[c], s) =>
          /\ calls[c].token \in DOMAIN tokens /\ calls[c].kind \in {"rotate", "sign-out"}
          /\ Replacing(calls[c]) \/ calls[c].at = "answer" =>
                calls[c].new \in DOMAIN tokens /\ SessionOf(calls[c].new) = s
    /\ \A c \in Calls : Brings(calls[c], s) => calls[c].new \in DOMAIN tokens
    /\ \A b \in Browsers : Holds(b, s) => jars[b].refresh \in DOMAIN tokens

(* It follows from the shapes. *)
LEMMA CarriedExists == \A s : (TypeInv => Carried(s)) /\ (TypeInv' => Carried(s)')
  <1>1. ASSUME NEW s, TypeInv PROVE Carried(s)
    <2>1. ASSUME NEW c \in Calls, calls[c] # Idle, calls[c].token # NoToken
          PROVE  /\ calls[c].token \in DOMAIN tokens /\ calls[c].kind \in {"rotate", "sign-out"}
                 /\ Replacing(calls[c]) \/ calls[c].at = "answer" =>
                       /\ calls[c].new \in DOMAIN tokens
                       /\ SessionOf(calls[c].new) = SessionOf(calls[c].token)
      BY <1>1, <2>1 DEF TypeInv, ShapeInv, CallOK, OnItsPath, Replacing
    <2>2. ASSUME NEW c \in Calls, Brings(calls[c], s) PROVE calls[c].new \in DOMAIN tokens
      BY <1>1, <2>2 DEF TypeInv, ShapeInv, CallOK, Brings
    <2>3. ASSUME NEW b \in Browsers, Holds(b, s) PROVE jars[b].refresh \in DOMAIN tokens
      BY <1>1, <2>3 DEF TypeInv, ShapeInv, Holds
    <2> QED
      BY <2>1, <2>2, <2>3 DEF Carried, Uses
  <1>2. ASSUME NEW s, TypeInv' PROVE Carried(s)'
    <2>1. ASSUME NEW c \in Calls, calls'[c] # Idle, calls'[c].token # NoToken
          PROVE  /\ calls'[c].token \in DOMAIN tokens'
                 /\ calls'[c].kind \in {"rotate", "sign-out"}
                 /\ Replacing(calls[c])' \/ calls'[c].at = "answer" =>
                       /\ calls'[c].new \in DOMAIN tokens'
                       /\ tokens'[calls'[c].new].session = tokens'[calls'[c].token].session
      BY <1>2, <2>1 DEF TypeInv, ShapeInv, CallOK, OnItsPath, Replacing, SessionOf
    <2>2. ASSUME NEW c \in Calls, Brings(calls[c], s)' PROVE calls'[c].new \in DOMAIN tokens'
      BY <1>2, <2>2 DEF TypeInv, ShapeInv, CallOK, Brings
    <2>3. ASSUME NEW b \in Browsers, Holds(b, s)' PROVE jars'[b].refresh \in DOMAIN tokens'
      BY <1>2, <2>3 DEF TypeInv, ShapeInv, Holds
    <2> QED
      BY <2>1, <2>2, <2>3 DEF Carried, Uses, SessionOf
  <1> QED
    BY <1>1, <1>2

(* Such a session stays in order. *)
LEMMA StaysInOrder ==
    ASSUME TypeOK, ShapeInv, TypeInv', NEW s, Orderly(s), StaysOut(s)
    PROVE  Orderly(s)'
  <1>1. OneBrowser(s)'
    BY DEF Orderly, OneBrowser, StaysOut, Engaged
  <1>2. OneCall(s)'
    BY DEF Orderly, OneCall, StaysOut, Engaged
  <1>0. Carried(s)' /\ Carried(s)
    BY CarriedExists DEF TypeInv
  <1>3. CallsHealthy(s)'
    <2>1. ASSUME NEW c \in Calls, Uses(calls[c], s)' PROVE Healthy(calls[c])'
      <3>1. /\ Uses(calls[c], s)
            /\ calls'[c].kind = calls[c].kind /\ calls'[c].at = calls[c].at
            /\ calls'[c].token = calls[c].token /\ calls'[c].new = calls[c].new
        BY <2>1 DEF StaysOut
      <3>2. Healthy(calls[c])
        BY <3>1 DEF Orderly, CallsHealthy
      <3>3. tokens'[calls[c].token].revoked = tokens[calls[c].token].revoked
        BY <1>0, <2>1, <3>1 DEF StaysOut, Carried, Uses
      <3>4. Replacing(calls[c]) \/ calls[c].at = "answer" =>
               tokens'[calls[c].new].revoked = tokens[calls[c].new].revoked
        BY <1>0, <2>1, <3>1 DEF StaysOut, Carried, Replacing
      <3> QED
        BY <3>1, <3>2, <3>3, <3>4 DEF Healthy, Replacing
    <2>2. ASSUME NEW c \in Calls, Brings(calls[c], s)' PROVE (~tokens[calls[c].new].revoked)'
      <3>1. Brings(calls[c], s) /\ calls'[c].new = calls[c].new
        BY <2>2 DEF StaysOut
      <3>2. tokens'[calls[c].new].revoked = tokens[calls[c].new].revoked
        BY <1>0, <2>2, <3>1 DEF StaysOut, Carried, Brings
      <3> QED
        BY <3>1, <3>2 DEF Orderly, CallsHealthy
    <2> QED
      BY <2>1, <2>2 DEF CallsHealthy
  <1>4. CookiesHealthy(s)'
    <2> SUFFICES ASSUME NEW b \in Browsers, Holds(b, s)'
                 PROVE  \/ ~tokens'[jars'[b].refresh].revoked
                        \/ \E c \in Calls : /\ Uses(calls[c], s)'
                                            /\ calls'[c].at \in {"answer", "clear"}
      BY DEF CookiesHealthy
    <2>1. Holds(b, s) /\ jars'[b].refresh = jars[b].refresh
      BY DEF StaysOut
    <2>2. tokens'[jars[b].refresh].revoked = tokens[jars[b].refresh].revoked
      BY <1>0, <2>1 DEF StaysOut, Carried, Holds
    <2>3. \/ ~tokens[jars[b].refresh].revoked
          \/ \E c \in Calls : Uses(calls[c], s) /\ calls[c].at \in {"answer", "clear"}
      BY <2>1 DEF Orderly, CookiesHealthy
    <2> QED
      BY <2>1, <2>2, <2>3 DEF StaysOut
  <1>5. Unrevoked(s)' \subseteq Unrevoked(s)
    BY DEF StaysOut, Unrevoked
  <1>6. OneToken(s)'
    BY <1>5 DEF Orderly, OneToken, StaysOut, Replacing
  <1>7. Over(s)'
    BY <1>5 DEF Orderly, Over, StaysOut
  <1> QED
    BY <1>1, <1>2, <1>3, <1>4, <1>6, <1>7 DEF Orderly

(* Rows stay, and of the same session. *)
Kept == \A t \in DOMAIN tokens : t \in DOMAIN tokens' /\ tokens'[t].session = tokens[t].session

(* Only c moves. *)
Others(c) == \A d \in Calls \ {c} :
    /\ calls'[d] = Idle <=> calls[d] = Idle
    /\ calls[d] # Idle =>
          /\ calls'[d].kind = calls[d].kind /\ calls'[d].at = calls[d].at
          /\ calls'[d].by = calls[d].by /\ calls'[d].token = calls[d].token
          /\ calls'[d].new = calls[d].new

(* The call that moves, when it is replaced in the plain way. *)
LEMMA OneMoves ==
    ASSUME TypeOK, NEW c \in Calls, NEW next, calls' = [calls EXCEPT ![c] = next]
    PROVE  Others(c) /\ calls'[c] = next
  BY DEF Others, TypeOK

(* The other calls are as busy with a session as they were. *)
LEMMA OthersStay ==
    ASSUME TypeInv, Kept, NEW c \in Calls, Others(c), NEW s, NEW d \in Calls \ {c}
    PROVE  /\ Uses(calls[d], s)' <=> Uses(calls[d], s)
           /\ Brings(calls[d], s)' <=> Brings(calls[d], s)
           /\ Engaged(calls[d], s)' <=> Engaged(calls[d], s)
           /\ calls[d] # Idle =>
                 /\ calls'[d].kind = calls[d].kind /\ calls'[d].at = calls[d].at
                 /\ calls'[d].by = calls[d].by /\ calls'[d].token = calls[d].token
                 /\ calls'[d].new = calls[d].new
  <1>1. /\ calls[d] # Idle /\ calls[d].token # NoToken => calls[d].token \in DOMAIN tokens
        /\ calls[d] # Idle /\ calls[d].at = "answer" => calls[d].new \in DOMAIN tokens
    BY DEF TypeInv, ShapeInv, CallOK
  <1>2. /\ calls'[d] = Idle <=> calls[d] = Idle
        /\ calls[d] # Idle =>
              /\ calls'[d].kind = calls[d].kind /\ calls'[d].at = calls[d].at
              /\ calls'[d].by = calls[d].by /\ calls'[d].token = calls[d].token
              /\ calls'[d].new = calls[d].new
    BY DEF Others
  <1>3. Uses(calls[d], s)' <=> Uses(calls[d], s)
    BY <1>1, <1>2 DEF Uses, SessionOf, Kept
  <1>4. Brings(calls[d], s)' <=> Brings(calls[d], s)
    BY <1>1, <1>2 DEF Brings, SessionOf, Kept
  <1> QED
    BY <1>2, <1>3, <1>4 DEF Engaged

(* A session is left alone when the call that moves neither presents nor    *)
(* comes to present a token of it, and no token or cookie of it is new.     *)
LEMMA LeftAlone ==
    ASSUME TypeInv, TypeInv', Kept, NEW c \in Calls, Others(c), NEW s,
           ~Uses(calls[c], s), ~Uses(calls[c], s)',
           Brings(calls[c], s)' => Brings(calls[c], s) /\ calls'[c].new = calls[c].new,
           \A b \in Browsers : Holds(b, s)' => Holds(b, s) /\ jars'[b].refresh = jars[b].refresh,
           \A t \in DOMAIN tokens' : SessionOf(t)' = s =>
              t \in DOMAIN tokens /\ SessionOf(t) = s /\ tokens'[t].revoked = tokens[t].revoked,
           s \in signedOut' => s \in signedOut
    PROVE  StaysOut(s)
  <1>1. ASSUME NEW d \in Calls, Uses(calls[d], s) \/ Uses(calls[d], s)'
        PROVE  /\ Uses(calls[d], s) /\ Uses(calls[d], s)'
               /\ calls'[d].kind = calls[d].kind /\ calls'[d].at = calls[d].at
               /\ calls'[d].by = calls[d].by /\ calls'[d].token = calls[d].token
               /\ calls'[d].new = calls[d].new
    <2>1. d # c
      BY <1>1
    <2>2. Uses(calls[d], s) /\ Uses(calls[d], s)'
      BY <1>1, <2>1, OthersStay
    <2> QED
      BY <2>1, <2>2, OthersStay DEF Uses
  <1>2. ASSUME NEW d \in Calls, Brings(calls[d], s)'
        PROVE  Brings(calls[d], s) /\ calls'[d].new = calls[d].new
    <2>1. CASE d = c
      BY <1>2, <2>1
    <2>2. CASE d # c
      <3>1. Brings(calls[d], s)
        BY <1>2, <2>2, OthersStay
      <3> QED
        BY <2>2, <3>1, OthersStay DEF Brings
    <2> QED
      BY <2>1, <2>2
  <1> QED
    BY <1>1, <1>2 DEF StaysOut

(* A call that is busy with an orderly session is the only one, and the     *)
(* browser that waits for it the only one with its token.                   *)
LEMMA Alone ==
    ASSUME TypeInv, NEW s, Orderly(s), NEW c \in Calls, Uses(calls[c], s)
    PROVE  /\ calls[c] # Idle /\ calls[c].token \in DOMAIN tokens
           /\ calls[c].token \in TokenIds /\ SessionOf(calls[c].token) = s
           /\ \A d \in Calls : Engaged(calls[d], s) => d = c
           /\ \E b \in Browsers : /\ calls[c].by = {b}
                                  /\ \A e \in Browsers : Holds(e, s) => e = b
           /\ Healthy(calls[c])
  <1>1. calls[c] # Idle /\ calls[c].token \in DOMAIN tokens /\ SessionOf(calls[c].token) = s
    BY CarriedExists DEF Carried, Uses
  <1>2. calls[c].token \in TokenIds
    BY <1>1, TokenFacts DEF TypeInv
  <1>3. \A d \in Calls : Engaged(calls[d], s) => d = c
    BY DEF Orderly, OneCall, Engaged
  <1>4. PICK b \in Browsers : calls[c].by = {b}
    BY <1>1, CallFacts DEF Orderly, OneCall, TypeInv
  <1>5. \A e \in Browsers : Holds(e, s) => e = b
    BY <1>4 DEF Orderly, OneBrowser, Engaged
  <1>6. Healthy(calls[c])
    BY DEF Orderly, CallsHealthy
  <1> QED
    BY <1>1, <1>2, <1>3, <1>4, <1>5, <1>6

(* While it goes on, it stays the only one. *)
LEMMA GoesOn ==
    ASSUME TypeInv, TypeInv', NEW s, Orderly(s), NEW c \in Calls, Uses(calls[c], s), Kept,
           jars' = jars, NEW next \in Call, calls' = [calls EXCEPT ![c] = next], next # Idle,
           next.by = calls[c].by, next.token = calls[c].token
    PROVE  /\ OneBrowser(s)' /\ OneCall(s)' /\ Uses(calls[c], s)' /\ calls'[c] = next
           /\ \A d \in Calls : Engaged(calls[d], s)' => d = c
           /\ \A b \in Browsers : Holds(b, s)' <=> Holds(b, s)
  <1>1. Others(c) /\ calls'[c] = next
    BY OneMoves DEF TypeInv
  <1>2. /\ calls[c] # Idle /\ calls[c].token \in DOMAIN tokens
        /\ SessionOf(calls[c].token) = s
        /\ \A d \in Calls : Engaged(calls[d], s) => d = c
    BY Alone
  <1>3. PICK b \in Browsers :
           calls[c].by = {b} /\ \A e \in Browsers : Holds(e, s) => e = b
    BY Alone
  <1>4. ASSUME NEW d \in Calls, Engaged(calls[d], s)' PROVE d = c
    BY <1>1, <1>2, <1>4, OthersStay
  <1>5. Uses(calls[c], s)'
    BY <1>1, <1>2 DEF Uses, Kept, SessionOf, NoToken
  <1>6. \A e \in Browsers : Holds(e, s)' <=> Holds(e, s)
    BY DEF Holds, TypeInv, ShapeInv, Kept, SessionOf
  <1>7. OneBrowser(s)'
    <2>1. ASSUME NEW e \in Browsers, Holds(e, s)' PROVE e = b
      BY <1>3, <1>6, <2>1
    <2> QED
      BY <1>1, <1>3, <1>4, <1>5, <2>1 DEF OneBrowser
  <1>8. OneCall(s)'
    BY <1>1, <1>3, <1>4 DEF OneCall, Engaged
  <1> QED
    BY <1>1, <1>4, <1>5, <1>6, <1>7, <1>8

(* When calls start, one session at most is touched: that of the token a    *)
(* browser presents, and no other call was busy with it.                    *)
LEMMA StartOrder ==
    ASSUME TypeInv, TypeInv', Starts, NEW s \in TokenIds \ troubled', s \notin troubled => Orderly(s)
    PROVE  Orderly(s)'
  <1>1. PICK c \in Calls, call \in Call :
              /\ calls[c] = Idle /\ Start(c, call) /\ CallOK(call)
              /\ UNCHANGED <<tables, jars, renewed, alarms, signedOut>>
              /\ \/ /\ call.token = NoToken /\ call.at \in {"create", "retire-links", "set"}
                    /\ troubled' = troubled
                 \/ /\ call.token = NoToken /\ call.at = "issue" /\ call.under = password
                    /\ troubled' = troubled
                 \/ \E b \in Browsers :
                       /\ jars[b].refresh \in DOMAIN tokens /\ call.token = jars[b].refresh
                       /\ call.by = {b}
                       /\ \/ call.kind = "rotate" /\ call.at = "load"
                          \/ call.kind = "sign-out" /\ call.at = "retire"
                       /\ troubled' = troubled \cup Overlap(call.token)
    BY StartFacts DEF TypeInv
  <1>2. /\ calls' = [calls EXCEPT ![c] = call] /\ tokens' = tokens /\ jars' = jars
        /\ signedOut' = signedOut /\ call # Idle
    BY <1>1, IdleIsNoCall DEF Start, tables
  <1>3. Others(c) /\ calls'[c] = call
    BY <1>2, OneMoves DEF TypeInv
  <1>4. Kept
    BY <1>2 DEF Kept
  <1>5. Orderly(s)
    BY <1>1
  <1>6. ~Engaged(calls[c], s)
    BY <1>1 DEF Engaged, Uses, Brings
  <1>7. CASE ~Engaged(calls[c], s)'
    <2>1. StaysOut(s)
      BY <1>2, <1>3, <1>4, <1>6, <1>7, LeftAlone DEF Engaged, Holds, SessionOf
    <2> QED
      BY <2>1, <1>5, StaysInOrder DEF TypeInv
  <1>8. CASE Engaged(calls[c], s)'
    <2>1. PICK b \in Browsers :
             /\ jars[b].refresh \in DOMAIN tokens /\ call.token = jars[b].refresh
             /\ call.by = {b}
             /\ \/ call.kind = "rotate" /\ call.at = "load"
                \/ call.kind = "sign-out" /\ call.at = "retire"
             /\ troubled' = troubled \cup Overlap(call.token)
      BY <1>1, <1>2, <1>3, <1>8 DEF Engaged, Uses, Brings
    <2>2. call.token # NoToken /\ SessionOf(call.token) = s /\ Uses(calls[c], s)'
      BY <1>2, <1>3, <1>8, <2>1 DEF Engaged, Uses, Brings, SessionOf
    <2>3. Holds(b, s)
      BY <2>1, <2>2 DEF Holds
    <2>4. ASSUME NEW d \in Calls PROVE ~Engaged(calls[d], s)
      <3>1. ~Uses(calls[d], s)
        BY <2>1, <2>2 DEF Uses, Overlap, Touches
      <3> QED
        BY <1>5, <2>3, <3>1 DEF Orderly, OneBrowser
    <2>5. ASSUME NEW d \in Calls, Engaged(calls[d], s)' PROVE d = c
      BY <1>3, <1>4, <2>4, <2>5, OthersStay
    <2>6. \A e \in Browsers : (Holds(e, s)' <=> Holds(e, s)) /\ (Holds(e, s) => e = b)
      BY <1>2, <1>5, <2>3 DEF Holds, SessionOf, Orderly, OneBrowser
    <2>7. OneBrowser(s)' /\ OneCall(s)'
      BY <1>3, <2>1, <2>2, <2>5, <2>6 DEF OneBrowser, OneCall, Engaged
    <2>8. ~tokens[call.token].revoked
      BY <1>5, <2>1, <2>3, <2>4 DEF Orderly, CookiesHealthy, Engaged
    <2>9. CallsHealthy(s)'
      <3>1. Healthy(calls[c])'
        BY <1>2, <1>3, <2>1, <2>8 DEF Healthy, Replacing
      <3>2. ~Brings(calls[c], s)'
        BY <1>3, <2>2 DEF Brings
      <3> QED
        BY <2>5, <3>1, <3>2 DEF CallsHealthy, Engaged
    <2>10. CookiesHealthy(s)'
      BY <1>2, <2>1, <2>6, <2>8 DEF CookiesHealthy
    <2>11. \A t, u \in Unrevoked(s) : t = u
      BY <1>5, <2>4 DEF Orderly, OneToken, Engaged
    <2>12. Unrevoked(s)' = Unrevoked(s)
      BY <1>2 DEF Unrevoked, SessionOf
    <2>13. OneToken(s)' /\ Over(s)'
      BY <1>2, <1>5, <2>11, <2>12 DEF OneToken, Over, Orderly
    <2> QED
      BY <2>7, <2>9, <2>10, <2>13 DEF Orderly
  <1> QED
    BY <1>7, <1>8

(* A token that is looked up is there, and not revoked; the call goes on to *)
(* be refused or to issue the next.                                         *)
LEMMA LoadOrder ==
    ASSUME TypeInv, TypeInv', NEW c \in Calls, LoadToken(c), NEW s, Orderly(s)
    PROVE  Orderly(s)' /\ (Uses(calls[c], s) => alarms' = alarms)
  <1> DEFINE t == calls[c].token
  <1>1. /\ calls[c] # Idle /\ calls[c].kind = "rotate" /\ calls[c].at = "load" /\ t \in DOMAIN tokens
        /\ tokens' = tokens /\ jars' = jars /\ signedOut' = signedOut
    BY LoadFacts DEF TypeInv
  <1>2. PICK next \in Call :
                 /\ next # Idle /\ calls' = [calls EXCEPT ![c] = next]
                 /\ next.kind = "rotate" /\ next.token = t /\ next.by = calls[c].by
                 /\ next.new = calls[c].new
                 /\ \/ next.at = "denied" /\ alarms' = alarms
                    \/ /\ next.at = "alarm" /\ tokens[t].revoked
                       /\ alarms' = alarms \cup {SessionOf(t)}
                    \/ /\ next.at = "issue" /\ Live(t) /\ alarms' = alarms
                       /\ next.under = tokens[t].under /\ next.crossed = tokens[t].crossed
    BY LoadFacts DEF TypeInv
  <1>3. Others(c) /\ calls'[c] = next
    BY <1>2, OneMoves DEF TypeInv
  <1>4. Kept
    BY <1>1 DEF Kept
  <1>5. CASE ~Uses(calls[c], s)
    <2>1. ~Uses(calls[c], s)' /\ ~Brings(calls[c], s)'
      BY <1>1, <1>2, <1>3, <1>5 DEF Uses, Brings, SessionOf
    <2>2. StaysOut(s)
      BY <1>1, <1>3, <1>4, <1>5, <2>1, LeftAlone DEF Holds, SessionOf
    <2> QED
      BY <1>5, <2>2, StaysInOrder DEF TypeInv
  <1>6. CASE Uses(calls[c], s)
    <2>1. OneBrowser(s)' /\ OneCall(s)' /\ Uses(calls[c], s)'
          /\ (\A d \in Calls : Engaged(calls[d], s)' => d = c)
          /\ (\A b \in Browsers : Holds(b, s)' <=> Holds(b, s))
      BY <1>1, <1>2, <1>4, <1>6, GoesOn
    <2>2. ~tokens[t].revoked /\ \A d \in Calls : Engaged(calls[d], s) => d = c
      BY <1>1, <1>6, Alone DEF Healthy
    <2>3. alarms' = alarms /\ next.at \in {"denied", "issue"}
      BY <1>2, <2>2
    <2>4. CallsHealthy(s)'
      <3>1. Healthy(calls[c])'
        BY <1>1, <1>2, <1>3, <2>2, <2>3 DEF Healthy, Replacing
      <3>2. ~Brings(calls[c], s)'
        BY <1>3, <2>3 DEF Brings
      <3> QED
        BY <2>1, <3>1, <3>2 DEF CallsHealthy, Engaged
    <2>5. CookiesHealthy(s)'
      <3>1. ASSUME NEW b \in Browsers, Holds(b, s) PROVE ~tokens[jars[b].refresh].revoked
        BY <1>1, <2>2, <3>1 DEF Orderly, CookiesHealthy, Engaged
      <3> QED
        BY <1>1, <2>1, <3>1 DEF CookiesHealthy
    <2>6. \A x, y \in Unrevoked(s) : x = y
      BY <1>1, <2>2 DEF Orderly, OneToken, Engaged, Replacing
    <2>7. Unrevoked(s)' = Unrevoked(s)
      BY <1>1 DEF Unrevoked, SessionOf
    <2>8. OneToken(s)' /\ Over(s)'
      BY <1>1, <2>6, <2>7 DEF OneToken, Over, Orderly
    <2> QED
      BY <2>1, <2>3, <2>4, <2>5, <2>8 DEF Orderly
  <1> QED
    BY <1>5, <1>6

(* A token that is issued begins a session nobody is busy with, or joins    *)
(* the one its call presents.                                               *)
LEMMA IssueOrder ==
    ASSUME TypeInv, TypeInv', NEW c \in Calls, Issues(c), NEW s, Orderly(s)
    PROVE  Orderly(s)'
  <1> DEFINE new == Len(tokens) + 1
  <1>1. /\ calls[c] # Idle /\ calls[c].at = "issue"
        /\ new \notin DOMAIN tokens /\ DOMAIN tokens' = DOMAIN tokens \cup {new}
        /\ new \in TokenIds
        /\ \A t \in DOMAIN tokens : tokens'[t] = tokens[t] /\ t < new
        /\ ~tokens'[new].revoked
        /\ IssueFirst(c) => calls[c].token = NoToken /\ tokens'[new].session = new
        /\ IssueFirst(c) => calls[c].kind # "rotate"
        /\ IssueNext(c) => /\ calls[c].kind = "rotate" /\ calls[c].token \in DOMAIN tokens
                           /\ tokens'[new].session = SessionOf(calls[c].token)
        /\ jars' = jars /\ signedOut' = signedOut
    BY IssueFacts DEF TypeInv, history
  <1>2. PICK next \in Call :
                 /\ calls' = [calls EXCEPT ![c] = next] /\ next # Idle
                 /\ next.kind = calls[c].kind /\ next.by = calls[c].by
                 /\ next.token = calls[c].token /\ next.new = new
                 /\ next.at = IF calls[c].kind = "rotate" THEN "retire" ELSE "answer"
    BY IssueFacts DEF TypeInv
  <1>3. \A t \in DOMAIN tokens : SessionOf(t) # new
    <2>1. ASSUME NEW t \in DOMAIN tokens PROVE SessionOf(t) # new
      <3>1. SessionOf(t) <= t /\ SessionOf(t) \in TokenIds /\ t \in TokenIds /\ t < new
            /\ new \in TokenIds
        BY <1>1, TokenFacts DEF TypeInv, ShapeInv
      <3> HIDE DEF new
      <3> QED
        BY <3>1 DEF TokenIds
    <2> QED
      BY <2>1
  <1> HIDE DEF new
  <1>4. Others(c) /\ calls'[c] = next
    BY <1>2, OneMoves DEF TypeInv
  <1>5. Kept
    BY <1>1 DEF Kept
  <1>6. \A b \in Browsers : jars[b].refresh \in {NoToken} \cup DOMAIN tokens
    BY DEF TypeInv, ShapeInv
  <1>7. CASE IssueFirst(c) /\ s = new
    <2>1. Unrevoked(s)' = {new}
      BY <1>1, <1>3, <1>7 DEF Unrevoked, SessionOf
    <2>2. \A b \in Browsers : ~Holds(b, s)'
      BY <1>1, <1>3, <1>6, <1>7 DEF Holds, SessionOf
    <2>3. ASSUME NEW d \in Calls, d # c PROVE ~Engaged(calls[d], s)'
      <3>1. ~Uses(calls[d], s) /\ ~Brings(calls[d], s)
        BY <1>3, <1>7, CarriedExists DEF Carried, Uses, Brings
      <3> QED
        BY <1>4, <1>5, <2>3, <3>1, OthersStay DEF Engaged
    <2>4. ~Uses(calls[c], s)'
      BY <1>1, <1>2, <1>4, <1>7 DEF Uses
    <2>5. OneBrowser(s)' /\ OneCall(s)'
      BY <2>2, <2>3, <2>4 DEF OneBrowser, OneCall, Engaged
    <2>6. CallsHealthy(s)'
      BY <1>1, <1>2, <1>4, <2>3, <2>4 DEF CallsHealthy, Engaged
    <2>7. CookiesHealthy(s)' /\ OneToken(s)'
      BY <2>1, <2>2 DEF CookiesHealthy, OneToken
    <2>8. Over(s)'
      BY <1>1, <1>7 DEF Over, TypeInv, ShapeInv
    <2> QED
      BY <2>5, <2>6, <2>7, <2>8 DEF Orderly
  <1>8. CASE ~Uses(calls[c], s) /\ ~(IssueFirst(c) /\ s = new)
    <2>1. tokens'[new].session # s
      BY <1>1, <1>8, TokenFacts DEF Issues, Uses, TypeInv, TokenIds, NoToken
    <2>2. ~Uses(calls[c], s)'
      BY <1>1, <1>2, <1>4, <1>8, CallFacts DEF Uses, SessionOf, Issues
    <2>3. ~Brings(calls[c], s)'
      BY <1>2, <1>4, <2>1 DEF Brings, SessionOf
    <2>4. \A t \in DOMAIN tokens' : SessionOf(t)' = s =>
             t \in DOMAIN tokens /\ SessionOf(t) = s /\ tokens'[t].revoked = tokens[t].revoked
      BY <1>1, <2>1 DEF SessionOf
    <2>5. \A b \in Browsers : Holds(b, s)' => Holds(b, s) /\ jars'[b].refresh = jars[b].refresh
      BY <1>1, <1>6 DEF Holds, SessionOf
    <2>6. StaysOut(s)
      BY <1>1, <1>4, <1>5, <1>8, <2>2, <2>3, <2>4, <2>5, LeftAlone
    <2> QED
      BY <2>6, StaysInOrder DEF TypeInv
  <1>9. CASE Uses(calls[c], s)
    <2> DEFINE t == calls[c].token
    <2>1. OneBrowser(s)' /\ OneCall(s)' /\ Uses(calls[c], s)'
          /\ (\A d \in Calls : Engaged(calls[d], s)' => d = c)
          /\ (\A b \in Browsers : Holds(b, s)' <=> Holds(b, s))
      BY <1>1, <1>2, <1>5, <1>9, GoesOn
    <2>2. /\ t \in DOMAIN tokens /\ SessionOf(t) = s /\ ~tokens[t].revoked
          /\ \A d \in Calls : Engaged(calls[d], s) => d = c
      BY <1>1, <1>9, Alone DEF Healthy
    <2>3. IssueNext(c)
      BY <1>1, <1>9 DEF Issues, Uses
    <2>4. CallsHealthy(s)'
      <3>1. Healthy(calls[c])'
        BY <1>1, <1>2, <1>4, <2>2, <2>3 DEF Healthy, Replacing
      <3>2. ~Brings(calls[c], s)'
        BY <1>1, <1>2, <1>4, <2>3 DEF Brings
      <3> QED
        BY <2>1, <3>1, <3>2 DEF CallsHealthy, Engaged
    <2>5. CookiesHealthy(s)'
      <3>1. ASSUME NEW b \in Browsers, Holds(b, s) PROVE ~tokens[jars[b].refresh].revoked
        BY <1>1, <2>2, <3>1 DEF Orderly, CookiesHealthy, Engaged
      <3> QED
        BY <1>1, <1>6, <2>1, <3>1 DEF CookiesHealthy, Holds
    <2>6. Unrevoked(s) = {t}
      <3>1. t \in Unrevoked(s)
        BY <2>2 DEF Unrevoked
      <3>2. \A x, y \in Unrevoked(s) : x = y
        BY <1>1, <2>2 DEF Orderly, OneToken, Engaged, Replacing
      <3> QED
        BY <3>1, <3>2
    <2>7. Unrevoked(s)' \subseteq {t, new}
      BY <1>1, <2>6 DEF Unrevoked, SessionOf
    <2>8. OneToken(s)'
      BY <1>1, <1>2, <1>4, <2>1, <2>3, <2>7 DEF OneToken, Replacing
    <2>9. Over(s)'
      BY <1>1, <2>6 DEF Over, Orderly
    <2> QED
      BY <2>1, <2>4, <2>5, <2>8, <2>9 DEF Orderly
  <1> QED
    BY <1>7, <1>8, <1>9 DEF Uses

(* The token that is retired is the presented one.  Its call hands out the  *)
(* other, or, at a sign-out, leaves none.                                   *)
LEMMA RetireOrder ==
    ASSUME TypeInv, TypeInv', NEW c \in Calls, Retires(c), NEW s, Orderly(s)
    PROVE  Orderly(s)'
  <1> DEFINE t == calls[c].token
  <1>1. /\ calls[c] # Idle /\ calls[c].at = "retire" /\ t \in DOMAIN tokens
        /\ tokens' = Revoked(t)
        /\ RetireToken(c) => calls[c].kind = "rotate" /\ signedOut' = signedOut
        /\ RevokeOne(c) => /\ calls[c].kind = "sign-out"
                           /\ signedOut' = signedOut \cup {SessionOf(t)}
        /\ jars' = jars
    BY RetireFacts DEF TypeInv
  <1>2. PICK next \in Call :
                 /\ calls' = [calls EXCEPT ![c] = next] /\ next # Idle
                 /\ next.kind = calls[c].kind /\ next.by = calls[c].by
                 /\ next.token = calls[c].token /\ next.new = calls[c].new
                 /\ next.at = IF calls[c].kind = "rotate" THEN "answer" ELSE "clear"
    BY RetireFacts DEF TypeInv
  <1>3. /\ DOMAIN tokens' = DOMAIN tokens /\ tokens'[t].revoked
        /\ \A u \in DOMAIN tokens : tokens'[u].session = tokens[u].session
        /\ \A u \in DOMAIN tokens \ {t} : tokens'[u].revoked = tokens[u].revoked
    BY <1>1, ChangedToken DEF TypeInv
  <1>4. Others(c) /\ calls'[c] = next
    BY <1>2, OneMoves DEF TypeInv
  <1>5. Kept
    BY <1>3 DEF Kept
  <1>6. \A b \in Browsers : jars[b].refresh \in {NoToken} \cup DOMAIN tokens
    BY DEF TypeInv, ShapeInv
  <1>7. t # NoToken /\ (Uses(calls[c], s) <=> SessionOf(t) = s)
    BY <1>1, TokenFacts DEF Uses, TypeInv, NoToken, TokenIds
  <1> HIDE DEF t
  <1>8. CASE ~Uses(calls[c], s)
    <2>1. ~Uses(calls[c], s)' /\ ~Brings(calls[c], s)'
      BY <1>1, <1>2, <1>3, <1>4, <1>7, <1>8 DEF Uses, Brings, SessionOf, t
    <2>2. \A u \in DOMAIN tokens' : SessionOf(u)' = s =>
             u \in DOMAIN tokens /\ SessionOf(u) = s /\ tokens'[u].revoked = tokens[u].revoked
      BY <1>3, <1>7, <1>8 DEF SessionOf
    <2>3. \A b \in Browsers : Holds(b, s)' => Holds(b, s) /\ jars'[b].refresh = jars[b].refresh
      BY <1>1, <1>3, <1>6 DEF Holds, SessionOf
    <2>4. s \in signedOut' => s \in signedOut
      BY <1>1, <1>7, <1>8 DEF Retires
    <2>5. StaysOut(s)
      BY <1>4, <1>5, <1>8, <2>1, <2>2, <2>3, <2>4, LeftAlone
    <2> QED
      BY <2>5, StaysInOrder DEF TypeInv
  <1>9. CASE Uses(calls[c], s)
    <2>1. OneBrowser(s)' /\ OneCall(s)' /\ Uses(calls[c], s)'
          /\ (\A d \in Calls : Engaged(calls[d], s)' => d = c)
          /\ (\A b \in Browsers : Holds(b, s)' <=> Holds(b, s))
      BY <1>1, <1>2, <1>5, <1>9, GoesOn
    <2>2. /\ SessionOf(t) = s /\ ~tokens[t].revoked
          /\ \A d \in Calls : Engaged(calls[d], s) => d = c
          /\ Replacing(calls[c]) => ~tokens[calls[c].new].revoked /\ calls[c].new # t
      BY <1>1, <1>9, Alone DEF Healthy, t
    <2>3. \A d \in Calls : ~Brings(calls[d], s)'
      BY <1>4, <1>2, <1>7, <2>1 DEF Brings, Engaged, t
    <2>4. Unrevoked(s)' = Unrevoked(s) \ {t}
      BY <1>3 DEF Unrevoked, SessionOf
    <2>5. t \in Unrevoked(s)
      BY <1>1, <2>2 DEF Unrevoked
    <2>6. ASSUME NEW u \in Unrevoked(s), u # t PROVE Replacing(calls[c]) /\ u = calls[c].new
      BY <2>2, <2>5, <2>6 DEF Orderly, OneToken, Engaged, t
    <2>7. Replacing(calls[c]) => calls[c].new # t /\ calls[c].new \in DOMAIN tokens
      <3>1. Replacing(calls[c]) => calls[c].new \in DOMAIN tokens
        BY <1>9, CarriedExists DEF Carried
      <3> QED
        BY <2>2, <3>1
    <2>8. CallsHealthy(s)'
      <3>1. Healthy(calls[c])'
        BY <1>1, <1>2, <1>3, <1>4, <2>2, <2>7 DEF Healthy, Replacing
      <3> QED
        BY <2>1, <2>3, <3>1 DEF CallsHealthy, Engaged
    <2>9. CookiesHealthy(s)'
      BY <1>2, <1>4, <2>1 DEF CookiesHealthy
    <2>10. \A x, y \in Unrevoked(s)' : x = y
      BY <2>4, <2>6
    <2>11. OneToken(s)'
      BY <2>10 DEF OneToken
    <2>12. Over(s)'
      <3>1. CASE RetireToken(c)
        BY <1>1, <2>5, <3>1 DEF Over, Orderly
      <3>2. CASE RevokeOne(c)
        BY <1>1, <2>4, <2>6, <3>2 DEF Over, Replacing
      <3> QED
        BY <3>1, <3>2 DEF Retires
    <2> QED
      BY <2>1, <2>8, <2>9, <2>11, <2>12 DEF Orderly
  <1> QED
    BY <1>8, <1>9

(* Where all tokens are revoked, those of an untroubled session were so     *)
(* already.                                                                 *)
LEMMA RevokeOrder ==
    ASSUME TypeInv, TypeInv', NEW c \in Calls, Revokes(c), NEW s \in TokenIds \ troubled', Orderly(s)
    PROVE  Orderly(s)'
  <1>1. /\ DOMAIN tokens' = DOMAIN tokens
        /\ \A t \in DOMAIN tokens :
              /\ tokens'[t].revoked = TRUE /\ tokens'[t].session = tokens[t].session
              /\ ~tokens[t].revoked => SessionOf(t) \in troubled'
        /\ jars' = jars /\ signedOut' = signedOut
    <2>1. \A t \in DOMAIN tokens' : tokens'[t].revoked \in BOOLEAN
      <3>1. tokens' \in Seq(Token)
        BY DEF TypeInv, TypeOK
      <3>2. \A t \in DOMAIN tokens' : tokens'[t] \in Token
        BY <3>1
      <3> QED
        BY <3>2 DEF Token
    <2> QED
      BY <2>1, RevokeFacts DEF TypeInv
  <1>2. PICK next \in Call \cup {Idle} :
           /\ calls' = [Crossed(c) EXCEPT ![c] = next]
           /\ next # Idle => /\ calls[c] # Idle /\ calls[c].at = "alarm" /\ next.at = "denied"
                             /\ next.kind = calls[c].kind /\ next.by = calls[c].by
                             /\ next.token = calls[c].token /\ next.new = calls[c].new
    BY RevokeFacts DEF TypeInv
  <1>3. Others(c) /\ calls'[c] = next
    <2>1. /\ calls'[c] = next
          /\ \A d \in Calls \ {c} :
                /\ calls'[d] = Idle <=> calls[d] = Idle
                /\ calls[d] # Idle =>
                      /\ calls'[d].kind = calls[d].kind /\ calls'[d].at = calls[d].at
                      /\ calls'[d].by = calls[d].by /\ calls'[d].token = calls[d].token
                      /\ calls'[d].new = calls[d].new
      BY <1>2, CrossedCalls DEF TypeInv
    <2> QED
      BY <2>1 DEF Others
  <1>4. Kept
    BY <1>1 DEF Kept
  <1>5. ~Uses(calls[c], s)
    <2>1. CASE calls[c] # Idle /\ calls[c].at = "alarm"
      BY <2>1 DEF Orderly, CallsHealthy, Healthy
    <2>2. CASE calls[c] # Idle /\ calls[c].kind = "confirm"
      BY <2>2, CallFacts DEF CallOK, Uses, TypeInv
    <2>3. CASE calls[c] = Idle
      BY <2>3 DEF Uses
    <2> QED
      BY <2>1, <2>2, <2>3, RevokeFacts DEF TypeInv
  <1>6. ~Uses(calls[c], s)' /\ ~Brings(calls[c], s)'
    <2>1. next # Idle => next.token = NoToken \/ next.token \in DOMAIN tokens
      BY <1>2, CallFacts DEF CallOK, TypeInv
    <2> QED
      BY <1>1, <1>2, <1>3, <1>5, <2>1 DEF Uses, Brings, SessionOf
  <1>7. \A t \in DOMAIN tokens : tokens[t].revoked \in BOOLEAN
    BY TokenFacts DEF TypeInv
  <1>8. \A t \in DOMAIN tokens' : SessionOf(t)' = s =>
           t \in DOMAIN tokens /\ SessionOf(t) = s /\ tokens'[t].revoked = tokens[t].revoked
    BY <1>1, <1>7 DEF SessionOf
  <1>9. \A b \in Browsers : Holds(b, s)' => Holds(b, s) /\ jars'[b].refresh = jars[b].refresh
    BY <1>1 DEF Holds, SessionOf, TypeInv, ShapeInv
  <1>10. StaysOut(s)
    BY <1>1, <1>3, <1>4, <1>5, <1>6, <1>8, <1>9, LeftAlone
  <1> QED
    BY <1>10, StaysInOrder DEF TypeInv

(* The answer of the one call that is busy with a session reaches the one   *)
(* browser that has a token of it, or the first that gets one.              *)
LEMMA AnswerOrder ==
    ASSUME TypeInv, TypeInv', NEW c \in Calls, Answer(c), NEW s, Orderly(s)
    PROVE  Orderly(s)'
  <1> DEFINE new == calls[c].new
             jar == [access |-> TRUE, refresh |-> new]
  <1>1. /\ calls[c] # Idle /\ calls[c].at = "answer" /\ calls' = [calls EXCEPT ![c] = Idle]
        /\ SetCookies(c, jar)
        /\ tokens' = tokens /\ signedOut' = signedOut
    BY DEF Answer, End, tables, history
  <1>2. Others(c) /\ calls'[c] = Idle
    BY <1>1, OneMoves DEF TypeInv
  <1>3. Kept
    BY <1>1 DEF Kept
  <1>4. /\ new \in DOMAIN tokens /\ new \in TokenIds /\ new # NoToken
        /\ calls[c].token # NoToken => SessionOf(new) = SessionOf(calls[c].token)
    <2>1. /\ calls[c].new \in DOMAIN tokens
          /\ calls[c].token # NoToken => SessionOf(calls[c].new) = SessionOf(calls[c].token)
      BY <1>1, CallFacts DEF CallOK, OnItsPath, TypeInv
    <2> QED
      BY <2>1, TokenFacts DEF TypeInv, NoToken, TokenIds
  <1>5. Engaged(calls[c], s) <=> SessionOf(new) = s
    BY <1>1, <1>4 DEF Engaged, Uses, Brings
  <1>6. \A b \in Browsers :
           /\ b \in calls[c].by => jars'[b].refresh = new
           /\ b \notin calls[c].by => jars'[b] = jars[b]
    BY <1>1 DEF SetCookies
  <1> HIDE DEF new
  <1>7. ~Uses(calls[c], s)' /\ ~Brings(calls[c], s)'
    BY <1>2 DEF Uses, Brings
  <1>8. CASE ~Engaged(calls[c], s)
    <2>1. \A b \in Browsers : Holds(b, s)' => Holds(b, s) /\ jars'[b].refresh = jars[b].refresh
      BY <1>1, <1>5, <1>6, <1>8 DEF Holds, SessionOf
    <2>2. StaysOut(s)
      BY <1>1, <1>2, <1>3, <1>7, <1>8, <2>1, LeftAlone DEF Engaged, SessionOf
    <2> QED
      BY <2>2, StaysInOrder DEF TypeInv
  <1>9. CASE Engaged(calls[c], s)
    <2>1. \A d \in Calls : Engaged(calls[d], s) => d = c
      BY <1>9 DEF Orderly, OneCall
    <2>2. \A d \in Calls : ~Engaged(calls[d], s)'
      BY <1>2, <1>3, <1>7, <2>1, OthersStay DEF Engaged
    <2>3. ~tokens[new].revoked
      BY <1>1, <1>9 DEF Orderly, CallsHealthy, Healthy, Engaged, new
    <2>4. \A b \in Browsers : Holds(b, s) => calls[c].by = {b}
      BY <1>9 DEF Orderly, OneBrowser
    <2>5. \A b \in Browsers : Holds(b, s)' => b \in calls[c].by /\ jars'[b].refresh = new
      BY <1>1, <1>6, <2>4 DEF Holds, SessionOf
    <2>6. \A b, e \in Browsers : b \in calls[c].by /\ e \in calls[c].by => b = e
      BY <1>1, CallFacts DEF TypeInv
    <2>7. OneBrowser(s)' /\ OneCall(s)' /\ CallsHealthy(s)'
      BY <2>2, <2>5, <2>6 DEF OneBrowser, OneCall, CallsHealthy, Engaged
    <2>8. CookiesHealthy(s)'
      BY <1>1, <2>3, <2>5 DEF CookiesHealthy
    <2>9. \A t, u \in Unrevoked(s) : t = u
      BY <1>1, <2>1 DEF Orderly, OneToken, Engaged, Replacing
    <2>10. Unrevoked(s)' = Unrevoked(s)
      BY <1>1 DEF Unrevoked, SessionOf
    <2>11. OneToken(s)' /\ Over(s)'
      BY <1>1, <2>9, <2>10 DEF OneToken, Over, Orderly
    <2> QED
      BY <2>7, <2>8, <2>11 DEF Orderly
  <1> QED
    BY <1>8, <1>9

(* A refusal takes the token from the one browser that had it. *)
LEMMA DenyOrder ==
    ASSUME TypeInv, TypeInv', NEW c \in Calls, Deny(c), NEW s, Orderly(s)
    PROVE  Orderly(s)'
  <1>1. /\ calls[c] # Idle /\ calls[c].at \in {"denied", "clear"}
        /\ calls' = [calls EXCEPT ![c] = Idle] /\ SetCookies(c, EmptyJar)
        /\ tokens' = tokens /\ signedOut' = signedOut
    BY DEF Deny, End, tables, history
  <1>2. Others(c) /\ calls'[c] = Idle
    BY <1>1, OneMoves DEF TypeInv
  <1>3. Kept
    BY <1>1 DEF Kept
  <1>4. \A b \in Browsers :
           /\ b \in calls[c].by => jars'[b].refresh = NoToken
           /\ b \notin calls[c].by => jars'[b] = jars[b]
    BY <1>1 DEF SetCookies, EmptyJar
  <1>5. \A b \in Browsers :
           Holds(b, s)' => /\ Holds(b, s) /\ jars'[b].refresh = jars[b].refresh
                           /\ b \notin calls[c].by
    BY <1>1, <1>4 DEF Holds, SessionOf
  <1>6. ~Uses(calls[c], s)' /\ ~Brings(calls[c], s)'
    BY <1>2 DEF Uses, Brings
  <1>7. CASE ~Uses(calls[c], s)
    <2>1. StaysOut(s)
      BY <1>1, <1>2, <1>3, <1>5, <1>6, <1>7, LeftAlone DEF SessionOf
    <2> QED
      BY <2>1, StaysInOrder DEF TypeInv
  <1>8. CASE Uses(calls[c], s)
    <2>1. \A d \in Calls : Engaged(calls[d], s) => d = c
      BY <1>8, Alone
    <2>2. \A d \in Calls : ~Engaged(calls[d], s)'
      BY <1>2, <1>3, <1>6, <2>1, OthersStay DEF Engaged
    <2>3. \A b \in Browsers : ~Holds(b, s)'
      BY <1>5, <1>8 DEF Orderly, OneBrowser, Engaged
    <2>4. OneBrowser(s)' /\ OneCall(s)' /\ CallsHealthy(s)' /\ CookiesHealthy(s)'
      BY <2>2, <2>3 DEF OneBrowser, OneCall, CallsHealthy, CookiesHealthy, Engaged
    <2>5. \A t, u \in Unrevoked(s) : t = u
      BY <1>1, <2>1 DEF Orderly, OneToken, Engaged, Replacing
    <2>6. Unrevoked(s)' = Unrevoked(s)
      BY <1>1 DEF Unrevoked, SessionOf
    <2>7. OneToken(s)' /\ Over(s)'
      BY <1>1, <2>5, <2>6 DEF OneToken, Over, Orderly
    <2> QED
      BY <2>4, <2>7 DEF Orderly
  <1> QED
    BY <1>7, <1>8

(* A call that is lost or cut off troubles the session it is busy with.     *)
LEMMA LossOrder ==
    ASSUME TypeInv, TypeInv', NEW c \in Calls, Ends(c), ~Answer(c), ~Deny(c),
           NEW s \in TokenIds \ troubled', Orderly(s)
    PROVE  Orderly(s)'
  <1>1. /\ calls[c] # Idle /\ tokens' = tokens /\ signedOut' = signedOut
        /\ troubled' = troubled \cup Touches(c)
        /\ UNCHANGED jars \/ SetCookies(c, EmptyJar)
    BY EndFacts DEF TypeInv
  <1>2. PICK next \in Call \cup {Idle} :
              /\ calls' = [calls EXCEPT ![c] = next]
              /\ next # Idle => /\ next.at = calls[c].at /\ next.token = calls[c].token
                                /\ next.new = calls[c].new
    BY EndFacts DEF TypeInv
  <1>3. Others(c) /\ calls'[c] = next
    BY <1>2, OneMoves DEF TypeInv
  <1>4. Kept
    BY <1>1 DEF Kept
  <1>5. ~Uses(calls[c], s)
    BY <1>1 DEF Uses, Touches
  <1>6. /\ ~Uses(calls[c], s)'
        /\ Brings(calls[c], s)' => Brings(calls[c], s) /\ calls'[c].new = calls[c].new
    BY <1>1, <1>2, <1>3, <1>5 DEF Uses, Brings, SessionOf
  <1>7. \A b \in Browsers : Holds(b, s)' => Holds(b, s) /\ jars'[b].refresh = jars[b].refresh
    BY <1>1 DEF Holds, SetCookies, SessionOf, EmptyJar
  <1>8. StaysOut(s)
    BY <1>1, <1>3, <1>4, <1>5, <1>6, <1>7, LeftAlone DEF SessionOf
  <1> QED
    BY <1>8, StaysInOrder DEF TypeInv

(* Steps that neither start, move nor end a call that presents a token.     *)
LEMMA OtherOrder ==
    ASSUME TypeInv, TypeInv', NEW s, Orderly(s),
           Passes \/ UNCHANGED vars \/ \E c \in Calls : WalksOn(c)
    PROVE  Orderly(s)'
  <1>1. ASSUME NEW c \in Calls, WalksOn(c) PROVE Orderly(s)'
    <2>1. /\ calls[c] # Idle /\ calls[c].token = NoToken
          /\ tokens' = tokens /\ jars' = jars /\ signedOut' = signedOut
      BY <1>1 DEF WalksOn
    <2>2. PICK next \in Call \cup {Idle} :
             /\ calls' = [calls EXCEPT ![c] = next]
             /\ next # Idle => next.token = NoToken /\ next.at \in {"issue", "mail", "end-sessions"}
      BY <1>1 DEF WalksOn
    <2>3. Others(c) /\ calls'[c] = next
      BY <2>2, OneMoves DEF TypeInv
    <2>4. Kept
      BY <2>1 DEF Kept
    <2>5. ~Uses(calls[c], s) /\ ~Uses(calls[c], s)' /\ ~Brings(calls[c], s)'
      BY <2>1, <2>2, <2>3 DEF Uses, Brings
    <2>6. StaysOut(s)
      BY <2>1, <2>3, <2>4, <2>5, LeftAlone DEF Holds, SessionOf
    <2> QED
      BY <2>6, StaysInOrder DEF TypeInv
  <1>2. CASE Passes \/ UNCHANGED vars
    <2>1. calls' = calls /\ signedOut' = signedOut
      BY <1>2 DEF Passes, AccessExpires, TokenExpires, LinkExpires, vars, history
    <2>2. /\ DOMAIN tokens' = DOMAIN tokens
          /\ \A t \in DOMAIN tokens : /\ tokens'[t].session = tokens[t].session
                                      /\ tokens'[t].revoked = tokens[t].revoked
      <3>1. CASE tokens' = tokens
        BY <3>1
      <3>2. ASSUME NEW t \in DOMAIN tokens, TokenExpires(t)
            PROVE  /\ DOMAIN tokens' = DOMAIN tokens
                   /\ \A u \in DOMAIN tokens : /\ tokens'[u].session = tokens[u].session
                                               /\ tokens'[u].revoked = tokens[u].revoked
        <4>1. tokens' = [tokens EXCEPT ![t].expired = TRUE]
          BY <3>2 DEF TokenExpires
        <4>2. tokens[t] \in Token
          BY TokenFacts DEF TypeInv
        <4>3. \A u \in DOMAIN tokens :
                 tokens'[u] = IF u = t THEN [tokens[t] EXCEPT !.expired = TRUE] ELSE tokens[u]
          BY <4>1
        <4> QED
          BY <4>1, <4>2, <4>3 DEF Token
      <3> QED
        BY <1>2, <3>1, <3>2 DEF Passes, AccessExpires, LinkExpires, vars, tables
    <2>3. \A b \in Browsers : jars'[b].refresh = jars[b].refresh
      <3>1. CASE jars' = jars
        BY <3>1
      <3>2. ASSUME NEW b \in Browsers, AccessExpires(b)
            PROVE  \A e \in Browsers : jars'[e].refresh = jars[e].refresh
        <4>1. jars' = [jars EXCEPT ![b].access = FALSE]
          BY <3>2 DEF AccessExpires
        <4>2. jars[b] \in Jar
          BY DEF TypeInv, TypeOK
        <4>3. \A e \in Browsers :
                 jars'[e] = IF e = b THEN [jars[b] EXCEPT !.access = FALSE] ELSE jars[e]
          BY <4>1 DEF TypeInv, TypeOK
        <4> QED
          BY <4>2, <4>3 DEF Jar
      <3> QED
        BY <1>2, <3>1, <3>2 DEF Passes, TokenExpires, LinkExpires, vars
    <2>4. /\ \A c \in Calls : /\ Uses(calls[c], s)' <=> Uses(calls[c], s)
                              /\ Brings(calls[c], s)' <=> Brings(calls[c], s)
          /\ \A b \in Browsers : Holds(b, s)' <=> Holds(b, s)
      <3>1. \A c \in Calls :
               /\ calls[c] # Idle /\ calls[c].token # NoToken => calls[c].token \in DOMAIN tokens
               /\ calls[c] # Idle /\ calls[c].at = "answer" => calls[c].new \in DOMAIN tokens
        BY DEF TypeInv, ShapeInv, CallOK
      <3>2. \A b \in Browsers : jars[b].refresh # NoToken => jars[b].refresh \in DOMAIN tokens
        BY DEF TypeInv, ShapeInv
      <3>3. \A t \in DOMAIN tokens : SessionOf(t)' = SessionOf(t)
        BY <2>2 DEF SessionOf
      <3>4. ASSUME NEW c \in Calls
            PROVE  /\ Uses(calls[c], s)' <=> Uses(calls[c], s)
                   /\ Brings(calls[c], s)' <=> Brings(calls[c], s)
        BY <2>1, <2>2, <3>1 DEF Uses, Brings, SessionOf
      <3>5. ASSUME NEW b \in Browsers PROVE Holds(b, s)' <=> Holds(b, s)
        BY <2>2, <2>3, <3>2 DEF Holds, SessionOf
      <3> QED
        BY <3>4, <3>5
    <2>5. StaysOut(s)
      BY <2>1, <2>2, <2>3, <2>4 DEF StaysOut, SessionOf
    <2> QED
      BY <2>5, StaysInOrder DEF TypeInv
  <1> QED
    BY <1>1, <1>2

(* At first there is nothing to be out of order. *)
LEMMA SessionsInit == Init => SessionsInv
  <1> SUFFICES ASSUME Init PROVE SessionsInv
    OBVIOUS
  <1>1. /\ tokens = <<>> /\ alarms = {} /\ signedOut = {}
        /\ \A c \in Calls : calls[c] = Idle
        /\ \A b \in Browsers : jars[b].refresh = NoToken
    BY DEF Init, EmptyJar
  <1>2. \A s : Unrevoked(s) = {}
    BY <1>1 DEF Unrevoked
  <1>3. /\ \A c \in Calls : \A s : ~Engaged(calls[c], s) /\ ~Uses(calls[c], s) /\ ~Brings(calls[c], s)
        /\ \A b \in Browsers : \A s : ~Holds(b, s)
    BY <1>1 DEF Engaged, Uses, Brings, Holds
  <1>4. \A s : Orderly(s)
    BY <1>1, <1>2, <1>3 DEF Orderly, OneBrowser, OneCall, CallsHealthy, CookiesHealthy, OneToken, Over
  <1> QED
    BY <1>1, <1>4 DEF SessionsInv, AlarmsHaveACause

(* Every step leaves the untroubled sessions in order, and raises no alarm  *)
(* over one.                                                                *)
LEMMA SessionsStep == TypeInv /\ SessionsInv /\ [Next]_vars => SessionsInv'
  <1> SUFFICES ASSUME TypeInv, SessionsInv, [Next]_vars PROVE SessionsInv'
    OBVIOUS
  <1>1. TypeInv'
    BY TypeStep
  <1>2. troubled \subseteq troubled'
    BY StepKinds, StartFacts, LoadFacts, WalkType, IssueFacts, RetireFacts, RevokeFacts, EndFacts
       DEF TypeInv, vars, history, WalksOn, Passes, AccessExpires, TokenExpires, LinkExpires
  <1>3. ASSUME NEW s \in TokenIds \ troubled' PROVE Orderly(s)'
    <2>1. Orderly(s)
      BY <1>2 DEF SessionsInv
    <2>2. ASSUME NEW c \in Calls, Walks(c) PROVE Orderly(s)'
      BY <1>1, <2>1, <2>2, WalkType, LoadOrder, OtherOrder DEF TypeInv
    <2>3. ASSUME NEW c \in Calls, Ends(c) PROVE Orderly(s)'
      BY <1>1, <2>1, <2>3, AnswerOrder, DenyOrder, LossOrder
    <2> QED
      BY <1>1, <2>1, <2>2, <2>3, StepKinds, StartOrder, IssueOrder, RetireOrder, RevokeOrder, OtherOrder
  <1>4. AlarmsHaveACause'
    <2>1. ASSUME NEW c \in Calls, LoadToken(c) PROVE alarms' \subseteq troubled'
      <3> DEFINE s == SessionOf(calls[c].token)
      <3>1. /\ alarms' \subseteq alarms \cup {s} /\ troubled' = troubled /\ s \in TokenIds
            /\ Uses(calls[c], s)
        BY <2>1, LoadFacts, TokenFacts DEF TypeInv, Uses, TokenIds, NoToken
      <3>2. s \notin troubled => alarms' = alarms
        BY <1>1, <2>1, <3>1, LoadOrder DEF SessionsInv
      <3> QED
        BY <3>1, <3>2 DEF SessionsInv, AlarmsHaveACause
    <2>2. (\A c \in Calls : ~LoadToken(c)) => alarms' = alarms
      BY StepKinds, StartFacts, WalkType, IssueFacts, RetireFacts, RevokeFacts, EndFacts
         DEF TypeInv, vars, history, WalksOn, Passes, AccessExpires, TokenExpires, LinkExpires
    <2> QED
      BY <1>2, <2>1, <2>2 DEF SessionsInv, AlarmsHaveACause
  <1> QED
    BY <1>3, <1>4 DEF SessionsInv

(* The alarm is never raised over a session whose calls came one after the  *)
(* other and were all answered (AlarmsHaveACause).                          *)
THEOREM AlarmsCaused == Spec => []AlarmsHaveACause
  <1>1. SessionsInv => AlarmsHaveACause
    BY DEF SessionsInv
  <1> QED
    BY <1>1, TypeInit, TypeStep, SessionsInit, SessionsStep, PTL DEF Spec

(* Such a session has one live token at most, two while one replaces the    *)
(* other, and none when it was signed out.                                  *)
LEMMA FewTokens == TypeInv /\ SessionsInv => OneLiveToken
  <1> SUFFICES ASSUME TypeInv, SessionsInv, NEW s \in TokenIds \ troubled
               PROVE  /\ Cardinality(LiveTokens(s)) <= IF Rotating(s) THEN 2 ELSE 1
                      /\ s \in signedOut => LiveTokens(s) = {}
    BY DEF OneLiveToken
  <1>1. Orderly(s)
    BY DEF SessionsInv
  <1>2. LiveTokens(s) \subseteq Unrevoked(s)
    BY DEF LiveTokens, Live, Unrevoked
  <1>3. CASE Rotating(s)
    <2>1. PICK c \in Calls : IsAt(c, "rotate", "retire") /\ SessionOf(calls[c].token) = s
      BY <1>3 DEF Rotating
    <2>2. Uses(calls[c], s)
      <3>1. calls[c].token \in DOMAIN tokens
        BY <2>1, CallFacts DEF CallOK, IsAt, TypeInv
      <3> QED
        BY <2>1, <3>1, TokenFacts DEF Uses, IsAt, TypeInv, NoToken, TokenIds
    <2>3. calls[c].token \in Unrevoked(s)
      BY <1>1, <2>1, <2>2, Alone DEF Unrevoked, Healthy, IsAt
    <2>4. \A d \in Calls : Uses(calls[d], s) => d = c
      BY <1>1, <2>2, Alone DEF Engaged
    <2>5. Unrevoked(s) \subseteq {calls[c].token, calls[c].new}
      BY <1>1, <2>3, <2>4 DEF Orderly, OneToken
    <2>6. /\ IsFiniteSet({calls[c].token, calls[c].new})
          /\ Cardinality({calls[c].token, calls[c].new}) <= 2
      <3>1. /\ IsFiniteSet({calls[c].token}) /\ Cardinality({calls[c].token}) = 1
        BY FS_Singleton
      <3>2. /\ IsFiniteSet({calls[c].token} \cup {calls[c].new})
            /\ \/ Cardinality({calls[c].token} \cup {calls[c].new}) = 1
               \/ Cardinality({calls[c].token} \cup {calls[c].new}) = 1 + 1
        BY <3>1, FS_AddElement
      <3>3. {calls[c].token, calls[c].new} = {calls[c].token} \cup {calls[c].new}
        OBVIOUS
      <3> QED
        BY <3>2, <3>3
    <2>7. LiveTokens(s) \subseteq {calls[c].token, calls[c].new}
      BY <1>2, <2>5
    <2>8. Cardinality(LiveTokens(s)) <= 2
      BY <2>6, <2>7, FS_Subset, FS_CardinalityType
    <2> QED
      BY <1>1, <1>2, <1>3, <2>8 DEF Orderly, Over
  <1>4. CASE ~Rotating(s)
    <2>1. \A t, u \in LiveTokens(s) : t = u
      BY <1>1, <1>2, <1>4 DEF Orderly, OneToken, Uses, Replacing, Rotating, IsAt
    <2>2. LiveTokens(s) = {} \/ \E t : LiveTokens(s) = {t}
      BY <2>1
    <2>3. Cardinality(LiveTokens(s)) <= 1
      <3>1. CASE LiveTokens(s) = {}
        BY <3>1, FS_EmptySet
      <3>2. ASSUME NEW t, LiveTokens(s) = {t} PROVE Cardinality(LiveTokens(s)) = 1
        BY <3>2, FS_Singleton
      <3> QED
        BY <2>2, <3>1, <3>2
    <2> QED
      BY <1>1, <1>2, <1>4, <2>3 DEF Orderly, Over
  <1> QED
    BY <1>3, <1>4

(* Rotation is one-shot: OneLiveToken.                                      *)
THEOREM RotationIsOneShot == Spec => []OneLiveToken
  BY FewTokens, TypeInit, TypeStep, SessionsInit, SessionsStep, PTL DEF Spec
=============================================================================
