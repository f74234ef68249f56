------------------------------ MODULE Sessions ------------------------------
(***************************************************************************)
(* A browser that stays signed in: apps/api/src/modules/auth behind the    *)
(* route handlers of apps/web.  The refresh token is a cookie, and every   *)
(* refresh replaces it: in the session's row by a compare-and-set, in the  *)
(* browser when the answer arrives.  Requests that were sent with the same *)
(* cookies overlap; each is served by a Next.js handler, which asks the    *)
(* API for what it needs one call after the other.                         *)
(***************************************************************************)
EXTENDS Naturals

CONSTANTS
  Sessions,   (* ids of rows of sessions *)
  Requests,   (* requests a browser has in flight *)
  OlderMatch, (* what the hasher may say of an earlier token of a session *)
  MaxRotations, (* bound on the refreshes of a session *)
  Kinds,      (* what a signed-in browser asks for *)
  MaxFaults,  (* bound on lost answers, failed calls and changes of the membership *)
  None        (* null *)

ASSUME KindsAreRoutes == Kinds \subseteq {"proxy", "session", "refresh", "logout"}
ASSUME HasherAnswers == OlderMatch \subseteq BOOLEAN
ASSUME NothingIsNoSession == None \notin Sessions
ASSUME BoundsAreNumbers == MaxRotations \in Nat /\ MaxFaults \in Nat

VARIABLES
  session, (* rows of sessions *)
  member,  (* the user and the membership are ACTIVE *)
  lapsed,  (* how many access tokens of a session have expired, oldest first *)
  jar,     (* the cookies: the issue of tokens the browser holds, or None *)
  request, (* requests in flight *)
  faults   (* lost answers, failed calls and changes of the membership so far *)

vars == <<session, member, lapsed, jar, request, faults>>

(* Login issues an access and a refresh token, and so does every refresh:   *)
(* an issue is a session and how often it had been refreshed.  A row keeps  *)
(* the hash of its latest.                                                  *)
Issues == Sessions \X (0 .. MaxRotations)
NoSession == [state |-> "none", latest |-> 0]

(* "sent" are the cookies a request came with, "read" the hash its refresh  *)
(* found, "got" the issue it is to answer with, "runs" how often the        *)
(* backend executed it.                                                     *)
Idle == [kind |-> "none", pc |-> "idle", sent |-> None, read |-> 0, got |-> None, runs |-> 0]

Goto(q, pc) == request' = [request EXCEPT ![q].pc = pc]
Answer(q, issue) ==
  request' = [request EXCEPT ![q].pc = "answer", ![q].got = issue]

SessionOf(q) == request[q].sent[1]

-----------------------------------------------------------------------------
(* The browser sends its cookies as they are.  An access cookie lives as    *)
(* long as its token; a handler that misses it, or whose call the backend   *)
(* answers with 401, refreshes if there is a refresh cookie.                *)

Send(q, kind) ==
  /\ request[q] = Idle
  /\ jar # None
  /\ request' = [request EXCEPT ![q] =
       [Idle EXCEPT !.kind = kind, !.sent = jar,
                    !.pc = IF kind \in {"proxy", "session"} THEN "forward" ELSE kind]]
  /\ UNCHANGED <<session, member, lapsed, jar, faults>>

(* getPrincipalFromAccessToken: the token is checked, the principal read    *)
Authenticated(issue) == issue[2] >= lapsed[issue[1]] /\ member

(* forwardToBackend, or loadSessionFromAccessToken *)
Forward(q) ==
  /\ request[q].pc = "forward"
  /\ IF Authenticated(request[q].sent)
     THEN request' = [request EXCEPT ![q].pc = "answer", ![q].runs = @ + 1]
     ELSE Goto(q, "refresh")
  /\ UNCHANGED <<session, member, lapsed, jar, faults>>

-----------------------------------------------------------------------------
(* AuthService.refresh. *)

Open(s) == session[s].state = "open"

(* PasswordHasher.verify of a token and the hash of its session.  A token   *)
(* matches its own hash; whether the hasher tells it from an earlier token  *)
(* of the same session is left to OlderMatch.                               *)
Verify(issue) == IF session[issue[1]].latest = issue[2] THEN {TRUE} ELSE OlderMatch

(* findRefreshSession and verify.  What does not match is a replay.         *)
RefreshRead(q) ==
  LET s == SessionOf(q) IN
  /\ request[q].pc = "refresh"
  /\ IF ~Open(s) THEN Answer(q, None)
     ELSE \E matches \in Verify(request[q].sent) :
            IF matches
            THEN request' = [request EXCEPT ![q].pc = "resolve", ![q].read = session[s].latest]
            ELSE Goto(q, "revoke")
  /\ UNCHANGED <<session, member, lapsed, jar, faults>>

(* resolvePrincipal: whoever is not a member any more gets no new tokens.   *)
RefreshResolve(q) ==
  /\ request[q].pc = "resolve"
  /\ IF member THEN Goto(q, "rotate") ELSE Answer(q, None)
  /\ UNCHANGED <<session, member, lapsed, jar, faults>>

(* Mutants of Rotates: the update tests one condition only. *)
RotatesUnrevoked(s, read) == session[s].state # "revoked"
RotatesByHash(s, read) == session[s].latest = read

(* The WHERE of rotateRefreshSession *)
Rotates(s, read) == session[s].latest = read /\ session[s].state # "revoked"

(* rotateRefreshSession *)
RefreshRotate(q) ==
  LET s == SessionOf(q) IN
  /\ request[q].pc = "rotate"
  /\ IF Rotates(s, request[q].read)
     THEN /\ session[s].latest < MaxRotations
          /\ session' = [session EXCEPT ![s].latest = @ + 1]
          /\ request' = [request EXCEPT ![q].pc = "load",
                                        ![q].got = <<s, session[s].latest + 1>>]
     ELSE Goto(q, "revoke") /\ UNCHANGED session
  /\ UNCHANGED <<member, lapsed, jar, faults>>

(* revokeRefreshSession, after a replay, a lost rotation or a logout        *)
Revoke(q) ==
  LET s == SessionOf(q) IN
  /\ request[q].pc = "revoke"
  /\ session' = [session EXCEPT ![s].state = IF @ = "open" THEN "revoked" ELSE @]
  /\ Answer(q, None)
  /\ UNCHANGED <<member, lapsed, jar, faults>>

(* loadSessionFromAccessToken with the new access token; if it fails the    *)
(* new cookies are not set.  A proxied request is then sent once more, and  *)
(* its answer sets the cookies whatever it says.                            *)
Load(q) ==
  LET ok == Authenticated(request[q].got) IN
  /\ request[q].pc = "load"
  /\ IF ~ok THEN Answer(q, None)
     ELSE Goto(q, IF request[q].kind = "proxy" THEN "retry" ELSE "answer")
  /\ UNCHANGED <<session, member, lapsed, jar, faults>>

Retry(q) ==
  /\ request[q].pc = "retry"
  /\ request' = [request EXCEPT ![q].pc = "answer",
                                ![q].runs = IF Authenticated(request[q].got) THEN @ + 1 ELSE @]
  /\ UNCHANGED <<session, member, lapsed, jar, faults>>

-----------------------------------------------------------------------------
(* AuthService.login and logout. *)

(* findLoginIdentity, then createRefreshSession; between them the           *)
(* membership may end.                                                      *)
SendLogin(q) ==
  /\ request[q] = Idle
  /\ member
  /\ request' = [request EXCEPT ![q] = [Idle EXCEPT !.kind = "login", !.pc = "login"]]
  /\ UNCHANGED <<session, member, lapsed, jar, faults>>

Login(q, s) ==
  /\ request[q].pc = "login"
  /\ session[s].state = "none"
  /\ session' = [session EXCEPT ![s].state = "open"]
  /\ request' = [request EXCEPT ![q].pc = "load", ![q].got = <<s, 0>>]
  /\ UNCHANGED <<member, lapsed, jar, faults>>

(* Mutant of Logout: the browser forgets its cookies, and that is all. *)
LogoutLocally(q) ==
  /\ request[q].pc = "logout"
  /\ Answer(q, None)
  /\ UNCHANGED <<session, member, lapsed, jar, faults>>

(* findRefreshSession and verify; a token that does not match revokes       *)
(* nothing.                                                                 *)
Logout(q) ==
  /\ request[q].pc = "logout"
  /\ \E matches \in Verify(request[q].sent) :
       IF Open(SessionOf(q)) /\ matches THEN Goto(q, "revoke") ELSE Answer(q, None)
  /\ UNCHANGED <<session, member, lapsed, jar, faults>>

(* The route swallows an error of its call, and signs the browser out.     *)
LogoutFails(q) ==
  /\ request[q].pc = "logout"
  /\ faults < MaxFaults
  /\ faults' = faults + 1
  /\ Answer(q, None)
  /\ UNCHANGED <<session, member, lapsed, jar>>

(* Answers reach the browser in any order.  Only new tokens and a logout    *)
(* touch its cookies.                                                       *)

Receive(q) ==
  /\ request[q].pc = "answer"
  /\ jar' = CASE request[q].kind = "logout" -> None
              [] request[q].got # None -> request[q].got
              [] OTHER -> jar
  /\ request' = [request EXCEPT ![q] = Idle]
  /\ UNCHANGED <<session, member, lapsed, faults>>

(* The handler dies or the connection breaks: whatever the API did, the     *)
(* browser does not learn it.                                               *)
LoseAnswer(q) ==
  /\ request[q] # Idle
  /\ faults < MaxFaults
  /\ request' = [request EXCEPT ![q] = Idle]
  /\ faults' = faults + 1
  /\ UNCHANGED <<session, member, lapsed, jar>>

-----------------------------------------------------------------------------
(* Time, and the administration of members. *)

(* Fifteen minutes: the access token ends, and its cookie with it. *)
Lapse(s) ==
  /\ session[s].state # "none"
  /\ lapsed[s] <= session[s].latest
  /\ lapsed' = [lapsed EXCEPT ![s] = @ + 1]
  /\ UNCHANGED <<session, member, jar, request, faults>>

(* Thirty days without a refresh, far longer than any request: the session, *)
(* its refresh token and the cookies end together.                          *)
Expire(s) ==
  /\ Open(s)
  /\ \A q \in Requests : request[q] = Idle
  /\ session' = [session EXCEPT ![s].state = "expired"]
  /\ jar' = IF jar # None /\ jar[1] = s THEN None ELSE jar
  /\ lapsed' = [lapsed EXCEPT ![s] = session[s].latest + 1]
  /\ UNCHANGED <<member, request, faults>>

(* updateUser and disableMembership take the membership away; updateUser    *)
(* may give it back.  Sessions are left as they are.                        *)
ChangeMember ==
  /\ faults < MaxFaults
  /\ faults' = faults + 1
  /\ member' = ~member
  /\ UNCHANGED <<session, lapsed, jar, request>>

-----------------------------------------------------------------------------

Init ==
  /\ session = [s \in Sessions |-> NoSession]
  /\ member = TRUE
  /\ lapsed = [s \in Sessions |-> 0]
  /\ jar = None
  /\ request = [q \in Requests |-> Idle]
  /\ faults = 0

Serve(q) ==
  \/ Forward(q)
  \/ RefreshRead(q)
  \/ RefreshResolve(q)
  \/ RefreshRotate(q)
  \/ Revoke(q)
  \/ Load(q)
  \/ Retry(q)
  \/ \E s \in Sessions : Login(q, s)
  \/ Logout(q)
  \/ Receive(q)

Next ==
  \/ \E q \in Requests :
       \/ \E kind \in Kinds : Send(q, kind)
       \/ SendLogin(q)
       \/ Serve(q)
       \/ LogoutFails(q) \/ LoseAnswer(q)
  \/ \E s \in Sessions : Lapse(s) \/ Expire(s)
  \/ ChangeMember

Spec == Init /\ [][Next]_vars

-----------------------------------------------------------------------------
(* Properties. *)

SessionRow == [state : {"none", "open", "revoked", "expired"}, latest : 0 .. MaxRotations]
InFlight ==
  [kind : Kinds \cup {"none", "login"},
   pc : {"idle", "forward", "refresh", "resolve", "rotate", "revoke", "load", "retry",
         "login", "logout", "answer"},
   sent : Issues \cup {None}, read : 0 .. MaxRotations, got : Issues \cup {None},
   runs : 0 .. 1]

(* The type of every variable; a request is executed once at most. *)
TypeOK ==
  /\ session \in [Sessions -> SessionRow]
  /\ member \in BOOLEAN
  /\ lapsed \in [Sessions -> 0 .. MaxRotations + 1]
  /\ jar \in Issues \cup {None}
  /\ request \in [Requests -> InFlight]
  /\ faults \in 0 .. MaxFaults

(* Once revoked, a session is left alone: a refresh that read it before a   *)
(* logout, or before a replay was noticed, does not bring it back.          *)
RevokedForGood ==
  [][\A s \in Sessions : session[s].state = "revoked" => session'[s] = session[s]]_vars

(* Refreshing p succeeded. *)
Refreshed(p) ==
  request[p].kind # "login" /\ request[p].got # None

(* Of the refreshes that found the same hash, one at most gets new tokens:  *)
(* rotation is a compare-and-set.                                           *)
OneWinner ==
  \A p, q \in Requests :
    (p # q /\ Refreshed(p) /\ Refreshed(q) /\ SessionOf(p) = SessionOf(q))
      => request[p].read # request[q].read

(* A logout that was answered leaves its session open only if a refresh had *)
(* replaced the token it came with, or if its call failed.                  *)
LogoutEndsSession ==
  \A q \in Requests :
    (/\ request[q].kind = "logout" /\ request[q].pc = "answer" /\ faults = 0
     /\ Open(SessionOf(q)))
      => session[SessionOf(q)].latest # request[q].sent[2]

=============================================================================
