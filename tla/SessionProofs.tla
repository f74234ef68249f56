--------------------------- MODULE SessionProofs ---------------------------
(***************************************************************************)
(* What refresh sessions promise, for any number of browsers' requests,    *)
(* sign-ins, refreshes and faults.  Rotation is a compare-and-set on the   *)
(* hash of the row, so a refresh that succeeds moves the row past the hash *)
(* it read: that is what makes the others of the same hash lose.           *)
(***************************************************************************)
EXTENDS Sessions, TLAPS

(* What a request may look like: "row" is its record. *)
WellFormed(row) ==
  /\ row.kind \in {"none", "login"} \/ row.sent # None
  /\ row.kind = "none" <=> row.pc = "idle"
  /\ row.kind = "login" => row.pc \in {"login", "load", "answer"}
  /\ row.kind = "logout" => row.pc \in {"logout", "revoke", "answer"}
  /\ row.pc = "login" => row.kind = "login"
  /\ row.pc = "logout" => row.kind = "logout"
  /\ row.pc \in {"idle", "forward", "refresh", "resolve", "rotate", "revoke", "logout"}
       => row.got = None
  /\ row.kind = "logout" => row.got = None
  /\ row.pc # "answer" => row.runs = 0

(* A token that somebody holds is of a sign-in, and not of a refresh to     *)
(* come; rows are the rows of sessions.                                     *)
Held(issue, rows) ==
  issue # None =>
    /\ issue \in Issues
    /\ rows[issue[1]].state # "none"
    /\ issue[2] <= rows[issue[1]].latest

(* A refresh that succeeded left the hash behind that it had read. *)
Moved(row, rows) ==
  (row.kind # "login" /\ row.got # None) => row.read < rows[row.sent[1]].latest

(* What logout promises of one request. *)
Ended(row, rows) ==
  (row.kind = "logout" /\ row.pc = "answer" /\ rows[row.sent[1]].state = "open")
    => rows[row.sent[1]].latest # row.sent[2]

Apart(p, q) ==
  (p.kind # "login" /\ q.kind # "login" /\ p.got # None /\ q.got # None /\ p.sent[1] = q.sent[1])
    => p.read # q.read

(* The inductive invariant. *)
SessionInv ==
  /\ TypeOK
  /\ Held(jar, session)
  /\ \A q \in Requests :
       /\ WellFormed(request[q])
       /\ Held(request[q].sent, session)
       /\ Held(request[q].got, session)
       /\ Moved(request[q], session)
       /\ faults = 0 => Ended(request[q], session)
  /\ \A p, q \in Requests : p # q => Apart(request[p], request[q])

-----------------------------------------------------------------------------

(* A session that is rotated, revoked or expired. *)
Grows(old, new) ==
  /\ old.latest <= new.latest
  /\ old.state # "none" => new.state # "none"
  /\ new.state = "open" => old.state \in {"open", "none"}

LEMMA GrowsIsReflexive ==
  ASSUME NEW row \in SessionRow PROVE Grows(row, row)
BY BoundsAreNumbers DEF Grows, SessionRow

(* A token that is held stays held when sessions grow. *)
LEMMA HeldLonger ==
  ASSUME NEW rows \in [Sessions -> SessionRow], NEW new \in [Sessions -> SessionRow],
         \A s \in Sessions : Grows(rows[s], new[s])
  PROVE  \A i \in Issues \cup {None} : Held(i, rows) => Held(i, new)
<1> SUFFICES ASSUME NEW i \in Issues, i # None, Held(i, rows) PROVE Held(i, new)
  BY DEF Held
<1>1. i[1] \in Sessions /\ i[2] \in Nat /\ rows[i[1]].latest \in Nat /\ new[i[1]].latest \in Nat
  BY BoundsAreNumbers DEF Issues, SessionRow
<1> QED BY <1>1 DEF Held, Grows

(* What sessions that grow leave true of a request that is left alone. *)
LEMMA LeftAlone ==
  ASSUME NEW rows \in [Sessions -> SessionRow], NEW new \in [Sessions -> SessionRow],
         \A s \in Sessions : Grows(rows[s], new[s]),
         NEW row \in InFlight, WellFormed(row),
         Held(row.sent, rows), Held(row.got, rows), Moved(row, rows)
  PROVE  /\ Held(row.sent, new)
         /\ Held(row.got, new)
         /\ Moved(row, new)
         /\ Ended(row, rows) => Ended(row, new)
<1>1. \A i \in Issues \cup {None} : Held(i, rows) => Held(i, new)
  BY HeldLonger
<1>2. row.sent \in Issues \cup {None} /\ row.got \in Issues \cup {None} /\ row.read \in Nat
  BY BoundsAreNumbers DEF InFlight
<1>3. Held(row.sent, new) /\ Held(row.got, new)
  BY <1>1, <1>2
<1>4. row.kind # "login" /\ row.got # None => row.sent \in Issues /\ row.sent # None
  BY <1>2 DEF WellFormed
<1>5. row.kind = "logout" => row.sent \in Issues /\ row.sent # None
  BY <1>2 DEF WellFormed
<1>6. \A i \in Issues : /\ i[1] \in Sessions /\ i[2] \in Nat
                        /\ rows[i[1]].latest \in Nat /\ new[i[1]].latest \in Nat
  BY BoundsAreNumbers DEF Issues, SessionRow
<1>7. Moved(row, new)
  BY <1>2, <1>4, <1>6 DEF Moved, Grows
<1>8. Ended(row, rows) => Ended(row, new)
  <2> SUFFICES ASSUME Ended(row, rows), row.kind = "logout", row.pc = "answer",
                      new[row.sent[1]].state = "open"
               PROVE  new[row.sent[1]].latest # row.sent[2]
    BY DEF Ended
  <2>1. PICK s, n : s = row.sent[1] /\ n = row.sent[2]
    OBVIOUS
  <2>2. /\ s \in Sessions /\ n \in Nat
        /\ rows[s].latest \in Nat /\ new[s].latest \in Nat
        /\ rows[s].state # "none" /\ n <= rows[s].latest
    BY <1>5, <1>6, <2>1 DEF Held
  <2>3. rows[s].state = "open" /\ rows[s].latest <= new[s].latest
    BY <2>1, <2>2 DEF Grows
  <2>4. rows[s].latest # n
    BY <2>1, <2>3 DEF Ended
  <2> QED BY <2>1, <2>2, <2>3, <2>4
<1> QED BY <1>3, <1>7, <1>8

(* A step in which the requests of moved, one at most, get a new record.    *)
LEMMA StepKeepsInv ==
  ASSUME SessionInv, TypeOK', Held(jar, session)',
         \A s \in Sessions : Grows(session[s], session'[s]),
         faults <= faults',
         NEW moved \in SUBSET Requests, \A p, q \in moved : p = q,
         \A p \in Requests \ moved : request'[p] = request[p],
         \A q \in moved :
           /\ WellFormed(request'[q])
           /\ Held(request'[q].sent, session')
           /\ Held(request'[q].got, session')
           /\ Moved(request'[q], session')
           /\ faults' = 0 => Ended(request'[q], session')
           /\ \A p \in Requests \ {q} : Apart(request[p], request'[q])
  PROVE  SessionInv'
<1>1. faults' = 0 => faults = 0
  BY BoundsAreNumbers DEF SessionInv, TypeOK
<1>2. \A p \in Requests \ moved :
        /\ WellFormed(request'[p])
        /\ Held(request'[p].sent, session')
        /\ Held(request'[p].got, session')
        /\ Moved(request'[p], session')
        /\ faults' = 0 => Ended(request'[p], session')
  BY <1>1, LeftAlone DEF SessionInv, TypeOK
<1>3. \A p, q \in Requests : p # q => Apart(request'[p], request'[q])
  <2>1. \A p, q : Apart(p, q) => Apart(q, p)
    BY DEF Apart
  <2> QED BY <2>1 DEF SessionInv
<1> QED BY <1>2, <1>3 DEF SessionInv


(* Only the request q changes, and it keeps its type. *)
Changes(q) ==
  /\ request' \in [Requests -> InFlight]
  /\ \A p \in Requests \ {q} : request'[p] = request[p]

(* A step of one request that touches neither sessions nor cookies. *)
LEMMA RequestStep ==
  ASSUME SessionInv, UNCHANGED <<session, member, lapsed, jar>>,
         faults' \in 0 .. MaxFaults, faults <= faults',
         NEW q \in Requests, Changes(q),
         WellFormed(request'[q]), Held(request'[q].sent, session), Held(request'[q].got, session),
         request'[q].got # None =>
           \/ request'[q].kind = "login"
           \/ /\ request'[q].kind = request[q].kind /\ request'[q].got = request[q].got
              /\ request'[q].sent = request[q].sent /\ request'[q].read = request[q].read,
         faults' = 0 => Ended(request'[q], session)
  PROVE  SessionInv'
<1>1. TypeOK' /\ Held(jar, session)'
  BY DEF SessionInv, TypeOK, Changes
<1>2. \A p \in Requests \ {q} : request'[p] = request[p]
  BY DEF Changes
<1>3. \A s \in Sessions : Grows(session[s], session'[s])
  BY GrowsIsReflexive DEF SessionInv, TypeOK
<1>4. Moved(request'[q], session)
  BY DEF SessionInv, Moved
<1>5. \A p \in Requests \ {q} : Apart(request[p], request'[q])
  BY DEF SessionInv, Apart
<1> DEFINE moved == {q}
<1>6. /\ moved \in SUBSET Requests /\ \A p, r \in moved : p = r
      /\ \A p \in Requests \ moved : request'[p] = request[p]
  BY <1>2
<1>7. \A r \in moved :
        /\ WellFormed(request'[r])
        /\ Held(request'[r].sent, session')
        /\ Held(request'[r].got, session')
        /\ Moved(request'[r], session')
        /\ faults' = 0 => Ended(request'[r], session')
        /\ \A p \in Requests \ {r} : Apart(request[p], request'[r])
  BY <1>4, <1>5
<1> HIDE DEF moved
<1> QED BY <1>1, <1>3, <1>6, <1>7, StepKeepsInv

(* The fields of a request. *)
LEMMA RequestFields ==
  ASSUME TypeOK, NEW q \in Requests
  PROVE  /\ request[q] \in InFlight
         /\ request[q].kind \in {"proxy", "session", "refresh", "logout", "none", "login"}
         /\ request[q].runs \in {0, 1}
         /\ Idle \in InFlight
<1>1. 0 \in 0 .. MaxRotations /\ 0 \in 0 .. 1
  BY BoundsAreNumbers
<1>2. "none" \in Kinds \cup {"none", "login"} /\ None \in Issues \cup {None}
  OBVIOUS
<1>3. Idle \in InFlight
  BY <1>1, <1>2 DEF Idle, InFlight
<1>4. request[q] \in InFlight
  BY DEF TypeOK
<1>5. request[q].kind \in Kinds \cup {"none", "login"} /\ request[q].runs \in 0 .. 1
  BY <1>4 DEF InFlight
<1>6. request[q].kind \in {"proxy", "session", "refresh", "logout", "none", "login"}
  BY <1>5, KindsAreRoutes
<1>7. request[q].runs \in {0, 1}
  BY <1>5
<1> QED BY <1>3, <1>4, <1>6, <1>7

-----------------------------------------------------------------------------
(* The requests that read. *)

LEMMA SendStep ==
  ASSUME SessionInv, NEW q \in Requests, NEW kind \in Kinds, Send(q, kind)
  PROVE  SessionInv'
<1> DEFINE row == [Idle EXCEPT !.kind = kind, !.sent = jar,
                     !.pc = IF kind \in {"proxy", "session"} THEN "forward" ELSE kind]
<1>1. kind \in {"proxy", "session", "refresh", "logout"}
  BY KindsAreRoutes
<1>2. /\ row.kind = kind /\ row.sent = jar /\ row.got = None /\ row.runs = 0
      /\ row.pc = IF kind \in {"proxy", "session"} THEN "forward" ELSE kind
  BY DEF Idle
<1>3. row \in InFlight
  <2>1. jar \in Issues \cup {None} /\ 0 \in 0 .. MaxRotations /\ 0 \in 0 .. 1
    BY BoundsAreNumbers DEF SessionInv, TypeOK
  <2> QED BY <1>1, <2>1 DEF Idle, InFlight
<1>4. WellFormed(row) /\ Held(row.sent, session) /\ Held(row.got, session) /\ row.got = None
      /\ Ended(row, session)
  <2>1. Held(jar, session) /\ jar # None
    BY DEF SessionInv, Send
  <2> HIDE DEF row
  <2> QED BY <1>1, <1>2, <2>1 DEF WellFormed, Held, Ended
<1>5. faults' \in 0 .. MaxFaults /\ faults <= faults'
  BY BoundsAreNumbers DEF Send, SessionInv, TypeOK
<1>6. request'[q] = row /\ Changes(q) /\ UNCHANGED <<session, member, lapsed, jar>>
  <2> HIDE DEF row
  <2>1. request' = [request EXCEPT ![q] = row]
    BY DEF Send, row
  <2> QED BY <1>3, <2>1 DEF Send, Changes, SessionInv, TypeOK
<1> HIDE DEF row
<1> QED BY <1>3, <1>4, <1>5, <1>6, RequestStep

LEMMA SendLoginStep ==
  ASSUME SessionInv, NEW q \in Requests, SendLogin(q)
  PROVE  SessionInv'
<1> DEFINE row == [Idle EXCEPT !.kind = "login", !.pc = "login"]
<1>1. /\ row.kind = "login" /\ row.pc = "login" /\ row.sent = None
      /\ row.got = None /\ row.runs = 0
  BY DEF Idle
<1>2. row \in InFlight
  <2>1. 0 \in 0 .. MaxRotations /\ 0 \in 0 .. 1 /\ None \in Issues \cup {None}
    BY BoundsAreNumbers
  <2> QED BY <2>1 DEF Idle, InFlight
<1>3. WellFormed(row) /\ Held(row.sent, session) /\ Held(row.got, session) /\ row.got = None
      /\ Ended(row, session)
  <2> HIDE DEF row
  <2> QED BY <1>1 DEF WellFormed, Held, Ended
<1>4. faults' \in 0 .. MaxFaults /\ faults <= faults'
  BY BoundsAreNumbers DEF SendLogin, SessionInv, TypeOK
<1>5. request'[q] = row /\ Changes(q) /\ UNCHANGED <<session, member, lapsed, jar>>
  <2> HIDE DEF row
  <2>1. request' = [request EXCEPT ![q] = row]
    BY DEF SendLogin, row
  <2> QED BY <1>2, <2>1 DEF SendLogin, Changes, SessionInv, TypeOK
<1> HIDE DEF row
<1> QED BY <1>2, <1>3, <1>4, <1>5, RequestStep

(* A request that goes on to another pc without touching sessions or        *)
(* cookies.  It answers with what it got, and logs out as promised.         *)
LEMMA ReadStep ==
  ASSUME SessionInv, NEW q \in Requests, UNCHANGED <<session, member, lapsed, jar>>,
         faults' \in 0 .. MaxFaults, faults <= faults',
         Changes(q), request[q].pc # "idle",
         request'[q].kind = request[q].kind, request'[q].sent = request[q].sent,
         request'[q].pc \in {"refresh", "resolve", "rotate", "revoke", "retry", "answer"},
         request[q].kind = "login" => request'[q].pc = "answer",
         request[q].kind = "logout" => request'[q].pc \in {"revoke", "answer"},
         \/ request'[q].got = None
         \/ /\ request'[q].got = request[q].got /\ request'[q].read = request[q].read
            /\ request'[q].pc \in {"retry", "answer"},
         request'[q].pc # "answer" => request'[q].runs = 0,
         (faults' = 0 /\ request[q].kind = "logout" /\ request'[q].pc = "answer") =>
            Ended(request'[q], session)
  PROVE  SessionInv'
<1>1. WellFormed(request[q]) /\ Held(request[q].sent, session) /\ Held(request[q].got, session)
  BY DEF SessionInv
<1>2. WellFormed(request'[q])
  BY <1>1, RequestFields DEF WellFormed, SessionInv
<1>3. Held(request'[q].sent, session) /\ Held(request'[q].got, session)
  BY <1>1 DEF Held
<1>4. faults' = 0 => Ended(request'[q], session)
  BY DEF Ended
<1> QED BY <1>2, <1>3, <1>4, RequestStep

(* What Goto and Answer do to a request. *)
LEMMA GotoFields ==
  ASSUME TypeOK, NEW q \in Requests, NEW pc, Goto(q, pc),
         pc \in {"refresh", "resolve", "rotate", "revoke", "retry", "answer"}
  PROVE  /\ Changes(q)
         /\ request'[q].pc = pc /\ request'[q].kind = request[q].kind
         /\ request'[q].sent = request[q].sent /\ request'[q].got = request[q].got
         /\ request'[q].read = request[q].read /\ request'[q].runs = request[q].runs
<1>1. request[q] \in InFlight /\ request'[q] = [request[q] EXCEPT !.pc = pc]
  BY DEF TypeOK, Goto
<1>2. [request[q] EXCEPT !.pc = pc] \in InFlight
  BY <1>1 DEF InFlight
<1> QED BY <1>1, <1>2 DEF Changes, Goto, TypeOK, InFlight

LEMMA AnswerFields ==
  ASSUME TypeOK, NEW q \in Requests, Answer(q, None)
  PROVE  /\ Changes(q)
         /\ request'[q].pc = "answer" /\ request'[q].kind = request[q].kind
         /\ request'[q].sent = request[q].sent /\ request'[q].got = None
         /\ request'[q].runs = request[q].runs
<1>1. /\ request[q] \in InFlight
      /\ request'[q] = [request[q] EXCEPT !.pc = "answer", !.got = None]
  BY DEF TypeOK, Answer
<1>2. [request[q] EXCEPT !.pc = "answer", !.got = None] \in InFlight
  BY <1>1 DEF InFlight
<1> QED BY <1>1, <1>2 DEF Changes, Answer, TypeOK, InFlight

(* An answer with the runs it had, or one more. *)
LEMMA RunFields ==
  ASSUME TypeOK, NEW q \in Requests, request[q].runs = 0,
         request' = [request EXCEPT ![q].pc = "answer", ![q].runs = @ + 1]
  PROVE  /\ Changes(q)
         /\ request'[q].pc = "answer" /\ request'[q].kind = request[q].kind
         /\ request'[q].sent = request[q].sent /\ request'[q].got = request[q].got
         /\ request'[q].read = request[q].read
<1>1. /\ request[q] \in InFlight
      /\ request'[q] = [request[q] EXCEPT !.pc = "answer", !.runs = request[q].runs + 1]
  BY DEF TypeOK
<1>2. request[q].runs + 1 \in 0 .. 1
  OBVIOUS
<1>3. [request[q] EXCEPT !.pc = "answer", !.runs = request[q].runs + 1] \in InFlight
  BY <1>1, <1>2 DEF InFlight
<1> QED BY <1>1, <1>3 DEF Changes, TypeOK, InFlight

LEMMA ForwardStep ==
  ASSUME SessionInv, NEW q \in Requests, Forward(q)
  PROVE  SessionInv'
<1>1. /\ UNCHANGED <<session, member, lapsed, jar>> /\ faults' \in 0 .. MaxFaults
      /\ faults <= faults' /\ TypeOK /\ WellFormed(request[q])
      /\ request[q].pc = "forward"
  BY BoundsAreNumbers DEF Forward, SessionInv, TypeOK
<1>2. /\ request[q].got = None /\ request[q].runs = 0
      /\ request[q].kind # "login" /\ request[q].kind # "logout"
  BY <1>1 DEF WellFormed
<1>3. CASE request' = [request EXCEPT ![q].pc = "answer", ![q].runs = @ + 1]
  BY <1>1, <1>2, <1>3, RunFields, ReadStep
<1>4. CASE Goto(q, "refresh")
  BY <1>1, <1>2, <1>4, GotoFields, ReadStep
<1> QED BY <1>3, <1>4 DEF Forward

LEMMA RefreshReadStep ==
  ASSUME SessionInv, NEW q \in Requests, RefreshRead(q)
  PROVE  SessionInv'
<1>1. /\ UNCHANGED <<session, member, lapsed, jar>> /\ faults' \in 0 .. MaxFaults
      /\ faults <= faults' /\ TypeOK /\ WellFormed(request[q])
      /\ request[q].pc = "refresh"
  BY BoundsAreNumbers DEF RefreshRead, SessionInv, TypeOK
<1>2. /\ request[q].got = None /\ request[q].runs = 0
      /\ request[q].kind # "login" /\ request[q].kind # "logout"
  BY <1>1 DEF WellFormed
<1>3. CASE Answer(q, None)
  BY <1>1, <1>2, <1>3, AnswerFields, ReadStep
<1>4. CASE Goto(q, "revoke")
  BY <1>1, <1>2, <1>4, GotoFields, ReadStep
<1>5. CASE request' = [request EXCEPT ![q].pc = "resolve", ![q].read = session[SessionOf(q)].latest]
  <2> DEFINE read == session[SessionOf(q)].latest
  <2>1. request[q] \in InFlight /\ request[q].sent \in Issues
    BY <1>1 DEF TypeOK, WellFormed, InFlight
  <2>2. read \in 0 .. MaxRotations
    BY <2>1 DEF SessionInv, TypeOK, SessionRow, Issues, SessionOf
  <2>3. request'[q] = [request[q] EXCEPT !.pc = "resolve", !.read = read]
    BY <1>1, <1>5 DEF TypeOK
  <2> HIDE DEF read
  <2>4. [request[q] EXCEPT !.pc = "resolve", !.read = read] \in InFlight
    BY <2>1, <2>2 DEF InFlight
  <2>5. Changes(q)
    BY <1>1, <1>5, <2>3, <2>4 DEF Changes, TypeOK
  <2>6. /\ request'[q].pc = "resolve" /\ request'[q].kind = request[q].kind
        /\ request'[q].sent = request[q].sent /\ request'[q].got = request[q].got
        /\ request'[q].runs = request[q].runs
    BY <2>1, <2>3 DEF InFlight
  <2> QED BY <1>1, <1>2, <2>5, <2>6, ReadStep
<1> QED BY <1>3, <1>4, <1>5 DEF RefreshRead

LEMMA RefreshResolveStep ==
  ASSUME SessionInv, NEW q \in Requests, RefreshResolve(q)
  PROVE  SessionInv'
<1>1. /\ UNCHANGED <<session, member, lapsed, jar>> /\ faults' \in 0 .. MaxFaults
      /\ faults <= faults' /\ TypeOK /\ WellFormed(request[q])
      /\ request[q].pc = "resolve"
  BY BoundsAreNumbers DEF RefreshResolve, SessionInv, TypeOK
<1>2. /\ request[q].got = None /\ request[q].runs = 0
      /\ request[q].kind # "login" /\ request[q].kind # "logout"
  BY <1>1 DEF WellFormed
<1>3. CASE Answer(q, None)
  BY <1>1, <1>2, <1>3, AnswerFields, ReadStep
<1>4. CASE Goto(q, "rotate")
  BY <1>1, <1>2, <1>4, GotoFields, ReadStep
<1> QED BY <1>3, <1>4 DEF RefreshResolve


LEMMA LoadStep ==
  ASSUME SessionInv, NEW q \in Requests, Load(q)
  PROVE  SessionInv'
<1>1. /\ UNCHANGED <<session, member, lapsed, jar>> /\ faults' \in 0 .. MaxFaults
      /\ faults <= faults' /\ TypeOK /\ WellFormed(request[q])
      /\ request[q].pc = "load"
  BY BoundsAreNumbers DEF Load, SessionInv, TypeOK
<1>2. request[q].runs = 0 /\ request[q].kind # "logout"
  BY <1>1 DEF WellFormed
<1>3. CASE Answer(q, None)
  BY <1>1, <1>2, <1>3, AnswerFields, ReadStep
<1>4. CASE request[q].kind = "proxy" /\ Goto(q, "retry")
  BY <1>1, <1>2, <1>4, GotoFields, ReadStep
<1>5. CASE Goto(q, "answer")
  BY <1>1, <1>2, <1>5, GotoFields, ReadStep
<1> QED BY <1>3, <1>4, <1>5 DEF Load

LEMMA RetryStep ==
  ASSUME SessionInv, NEW q \in Requests, Retry(q)
  PROVE  SessionInv'
<1>1. /\ UNCHANGED <<session, member, lapsed, jar>> /\ faults' \in 0 .. MaxFaults
      /\ faults <= faults' /\ TypeOK /\ WellFormed(request[q])
      /\ request[q].pc = "retry"
  BY BoundsAreNumbers DEF Retry, SessionInv, TypeOK
<1>2. request[q].runs = 0 /\ request[q].kind # "logout"
  BY <1>1 DEF WellFormed
<1>3. CASE Authenticated(request[q].got)
  <2>1. request' = [request EXCEPT ![q].pc = "answer", ![q].runs = @ + 1]
    BY <1>3 DEF Retry
  <2> QED BY <1>1, <1>2, <2>1, RunFields, ReadStep
<1>4. CASE ~Authenticated(request[q].got)
  <2>1. /\ request[q] \in InFlight
        /\ request'[q] = [request[q] EXCEPT !.pc = "answer", !.runs = request[q].runs]
    BY <1>1, <1>4 DEF Retry, TypeOK
  <2>2. [request[q] EXCEPT !.pc = "answer", !.runs = request[q].runs] \in InFlight
    BY <2>1 DEF InFlight
  <2>3. Changes(q)
    BY <1>1, <1>4, <2>1, <2>2 DEF Changes, Retry, TypeOK
  <2>4. /\ request'[q].pc = "answer" /\ request'[q].kind = request[q].kind
        /\ request'[q].sent = request[q].sent /\ request'[q].got = request[q].got
        /\ request'[q].read = request[q].read
    BY <2>1 DEF InFlight
  <2> QED BY <1>1, <1>2, <2>3, <2>4, ReadStep
<1> QED BY <1>3, <1>4

LEMMA LogoutStep ==
  ASSUME SessionInv, NEW q \in Requests, Logout(q) \/ LogoutFails(q)
  PROVE  SessionInv'
<1>1. /\ UNCHANGED <<session, member, lapsed, jar>> /\ faults' \in 0 .. MaxFaults
      /\ faults <= faults' /\ TypeOK /\ WellFormed(request[q])
      /\ request[q].pc = "logout"
  BY BoundsAreNumbers DEF Logout, LogoutFails, SessionInv, TypeOK
<1>2. /\ request[q].got = None /\ request[q].runs = 0 /\ request[q].kind = "logout"
      /\ request[q].sent # None /\ request[q].sent \in Issues
  BY <1>1 DEF WellFormed, TypeOK, InFlight
<1>3. CASE Logout(q) /\ Goto(q, "revoke")
  BY <1>1, <1>2, <1>3, GotoFields, ReadStep
<1>4. CASE LogoutFails(q)
  <2>1. Answer(q, None) /\ faults' # 0
    BY <1>1, <1>4, BoundsAreNumbers DEF LogoutFails, TypeOK
  <2> QED BY <1>1, <1>2, <2>1, AnswerFields, ReadStep
<1>5. CASE Logout(q) /\ Answer(q, None) /\ ~Goto(q, "revoke")
  <2>1. /\ request'[q].sent = request[q].sent /\ request'[q].pc = "answer" /\ Changes(q)
        /\ request'[q].kind = "logout" /\ request'[q].got = None
    BY <1>1, <1>2, <1>5, AnswerFields
  <2>2. Open(SessionOf(q)) => session[SessionOf(q)].latest # request[q].sent[2]
    BY <1>5 DEF Logout, Verify, SessionOf
  <2>3. Ended(request'[q], session)
    BY <2>1, <2>2 DEF Ended, Open, SessionOf
  <2> QED BY <1>1, <1>2, <2>1, <2>3, ReadStep
<1> QED BY <1>3, <1>4, <1>5 DEF Logout

(* A request that ends without new cookies for the browser. *)
LEMMA EndStep ==
  ASSUME SessionInv, NEW q \in Requests,
         request' = [request EXCEPT ![q] = Idle],
         UNCHANGED <<session, member, lapsed>>,
         faults' \in 0 .. MaxFaults, faults <= faults',
         jar' \in {None, request[q].got, jar}
  PROVE  SessionInv'
<1>1. /\ TypeOK /\ Idle \in InFlight /\ Held(jar, session) /\ Held(request[q].got, session)
      /\ Idle.kind = "none" /\ Idle.pc = "idle" /\ Idle.sent = None /\ Idle.got = None
      /\ Idle.runs = 0
  BY RequestFields DEF SessionInv, Idle
<1>2. Held(jar', session) /\ jar' \in Issues \cup {None}
  BY <1>1 DEF Held, TypeOK, InFlight
<1>3. /\ request'[q] = Idle /\ request' \in [Requests -> InFlight]
      /\ \A p \in Requests \ {q} : request'[p] = request[p]
  BY <1>1 DEF TypeOK
<1>4. TypeOK' /\ Held(jar, session)'
  BY <1>1, <1>2, <1>3 DEF TypeOK
<1>5. \A s \in Sessions : Grows(session[s], session'[s])
  BY <1>1, GrowsIsReflexive DEF TypeOK
<1>6. /\ WellFormed(Idle) /\ Held(Idle.sent, session') /\ Held(Idle.got, session')
      /\ Moved(Idle, session') /\ Ended(Idle, session')
      /\ \A p \in Requests : Apart(request[p], Idle)
  BY <1>1 DEF WellFormed, Held, Moved, Ended, Apart
<1> DEFINE moved == {q}
<1>7. /\ moved \in SUBSET Requests /\ \A p, r \in moved : p = r
      /\ \A p \in Requests \ moved : request'[p] = request[p]
  BY <1>3
<1>8. \A r \in moved :
        /\ WellFormed(request'[r])
        /\ Held(request'[r].sent, session')
        /\ Held(request'[r].got, session')
        /\ Moved(request'[r], session')
        /\ faults' = 0 => Ended(request'[r], session')
        /\ \A p \in Requests \ {r} : Apart(request[p], request'[r])
  BY <1>3, <1>6
<1> HIDE DEF moved
<1> QED BY <1>4, <1>5, <1>7, <1>8, StepKeepsInv

LEMMA ReceiveStep ==
  ASSUME SessionInv, NEW q \in Requests, Receive(q) \/ LoseAnswer(q)
  PROVE  SessionInv'
<1>1. /\ request' = [request EXCEPT ![q] = Idle] /\ UNCHANGED <<session, member, lapsed>>
      /\ faults' \in 0 .. MaxFaults /\ faults <= faults'
  BY BoundsAreNumbers DEF Receive, LoseAnswer, SessionInv, TypeOK
<1>2. jar' \in {None, request[q].got, jar}
  BY DEF Receive, LoseAnswer
<1> QED BY <1>1, <1>2, EndStep

-----------------------------------------------------------------------------
(* The requests that write the rows of sessions. *)

(* The compare-and-set moves the row past the hash that was read; whoever   *)
(* had won with this hash before would have moved it already.               *)
LEMMA RefreshRotateStep ==
  ASSUME SessionInv, NEW q \in Requests, RefreshRotate(q)
  PROVE  SessionInv'
<1> DEFINE s == SessionOf(q)
           row == request[q]
<1>1. /\ UNCHANGED <<member, lapsed, jar, faults>> /\ TypeOK /\ WellFormed(row)
      /\ row.pc = "rotate" /\ Held(row.sent, session) /\ faults \in 0 .. MaxFaults
      /\ faults <= faults
  BY BoundsAreNumbers DEF RefreshRotate, SessionInv, TypeOK
<1>2. /\ row.got = None /\ row.runs = 0 /\ row.kind # "login" /\ row.kind # "logout"
      /\ row.kind # "none" /\ row.sent # None /\ row \in InFlight /\ s \in Sessions
      /\ session[s] \in SessionRow /\ s = row.sent[1]
  BY <1>1 DEF WellFormed, TypeOK, InFlight, Held, Issues, SessionOf
<1>3. CASE Goto(q, "revoke") /\ UNCHANGED session
  BY <1>1, <1>2, <1>3, GotoFields, ReadStep
<1>4. CASE /\ Rotates(s, row.read) /\ session[s].latest < MaxRotations
           /\ session' = [session EXCEPT ![s].latest = @ + 1]
           /\ request' = [request EXCEPT ![q].pc = "load",
                                         ![q].got = <<s, session[s].latest + 1>>]
  <2> DEFINE new == <<s, session[s].latest + 1>>
  <2>1. session[s].latest = row.read /\ session[s].latest \in Nat
        /\ session[s].latest + 1 \in 0 .. MaxRotations
    BY <1>2, <1>4, BoundsAreNumbers DEF Rotates, SessionRow
  <2>2. new \in Issues /\ new[1] = s /\ new[2] = session[s].latest + 1
    BY <1>2, <2>1 DEF Issues
  <2>3. session'[s] = [session[s] EXCEPT !.latest = session[s].latest + 1]
        /\ \A t \in Sessions \ {s} : session'[t] = session[t]
    BY <1>1, <1>2, <1>4 DEF TypeOK
  <2>4. /\ session'[s] \in SessionRow /\ session'[s].latest = session[s].latest + 1
        /\ session'[s].state = session[s].state
    BY <1>2, <2>1, <2>3 DEF SessionRow
  <2>5. session' \in [Sessions -> SessionRow]
    BY <1>1, <1>4, <2>3, <2>4 DEF TypeOK
  <2>6. \A t \in Sessions : Grows(session[t], session'[t])
    <3>1. Grows(session[s], session'[s])
      BY <2>1, <2>4 DEF Grows
    <3> QED BY <1>1, <2>3, <3>1, GrowsIsReflexive DEF TypeOK
  <2>7. request'[q] = [row EXCEPT !.pc = "load", !.got = new]
        /\ \A p \in Requests \ {q} : request'[p] = request[p]
    BY <1>1, <1>4 DEF TypeOK
  <2> HIDE DEF new
  <2>8. /\ request'[q] \in InFlight /\ request'[q].pc = "load" /\ request'[q].got = new
        /\ request'[q].kind = row.kind /\ request'[q].sent = row.sent
        /\ request'[q].read = row.read /\ request'[q].runs = 0
    BY <1>2, <2>2, <2>7 DEF InFlight
  <2>9. request' \in [Requests -> InFlight]
    BY <1>1, <1>4, <2>7, <2>8 DEF TypeOK
  <2>10. TypeOK'
    BY <1>1, <2>5, <2>9 DEF TypeOK
  <2>11. Held(jar, session)' /\ Held(row.sent, session')
    <3>1. jar' = jar /\ jar \in Issues \cup {None} /\ Held(jar, session)
          /\ row.sent \in Issues \cup {None}
      BY <1>1, <1>2 DEF SessionInv, TypeOK, InFlight
    <3> QED BY <1>1, <2>5, <2>6, <3>1, HeldLonger DEF TypeOK
  <2>12. Held(new, session')
    <3>1. session'[s].state # "none"
      BY <1>1, <1>2, <2>4 DEF Held
    <3> QED BY <2>1, <2>2, <2>4, <3>1 DEF Held
  <2>13. Moved(request'[q], session')
    BY <1>2, <2>1, <2>4, <2>8 DEF Moved
  <2>14. Ended(request'[q], session') /\ WellFormed(request'[q])
    <3>1. row.kind \in {"proxy", "session", "refresh"}
      BY <1>1, <1>2, RequestFields
    <3> QED BY <1>2, <2>8, <3>1 DEF Ended, WellFormed
  <2>15. \A p \in Requests \ {q} : Apart(request[p], request'[q])
    <3> SUFFICES ASSUME NEW p \in Requests \ {q}, request[p].kind # "login",
                        request[p].got # None, request[p].sent[1] = s
                 PROVE  request[p].read # row.read
      BY <1>2, <2>8 DEF Apart
    <3>1. request[p].read < session[s].latest
      BY DEF SessionInv, Moved
    <3>2. request[p].read \in Nat
      BY <1>1, BoundsAreNumbers DEF TypeOK, InFlight
    <3> QED BY <2>1, <3>1, <3>2
  <2> DEFINE moved == {q}
  <2>16. /\ moved \in SUBSET Requests /\ \A p, r \in moved : p = r
         /\ \A p \in Requests \ moved : request'[p] = request[p]
    BY <2>7
  <2>17. \A r \in moved :
          /\ WellFormed(request'[r])
          /\ Held(request'[r].sent, session')
          /\ Held(request'[r].got, session')
          /\ Moved(request'[r], session')
          /\ faults' = 0 => Ended(request'[r], session')
          /\ \A p \in Requests \ {r} : Apart(request[p], request'[r])
    BY <2>8, <2>11, <2>12, <2>13, <2>14, <2>15
  <2>18. faults <= faults'
    BY <1>1
  <2> HIDE DEF moved
  <2> QED BY <2>6, <2>10, <2>11, <2>16, <2>17, <2>18, StepKeepsInv
<1> QED BY <1>3, <1>4 DEF RefreshRotate


(* Revoking closes the session, and answers without tokens. *)
LEMMA RevokeStep ==
  ASSUME SessionInv, NEW q \in Requests, Revoke(q)
  PROVE  SessionInv'
<1> DEFINE s == SessionOf(q)
           row == request[q]
<1>1. /\ UNCHANGED <<member, lapsed, jar, faults>> /\ TypeOK /\ WellFormed(row)
      /\ row.pc = "revoke" /\ Held(row.sent, session) /\ Held(jar, session)
  BY DEF Revoke, SessionInv
<1>2. /\ row.runs = 0 /\ row.kind # "login" /\ row.kind # "none"
      /\ row.sent # None /\ row.sent \in Issues /\ s \in Sessions /\ s = row.sent[1]
      /\ session[s] \in SessionRow /\ session[s].state # "none" /\ jar \in Issues \cup {None}
  BY <1>1 DEF WellFormed, TypeOK, InFlight, Held, Issues, SessionOf
<1>3. /\ \A t \in Sessions \ {s} : session'[t] = session[t]
      /\ session'[s] = [session[s] EXCEPT !.state =
                          IF session[s].state = "open" THEN "revoked" ELSE session[s].state]
  BY <1>1, <1>2 DEF Revoke, TypeOK
<1>4. /\ session'[s] \in SessionRow /\ session'[s].latest = session[s].latest
      /\ session'[s].state \notin {"open", "none"}
  BY <1>2, <1>3 DEF SessionRow
<1>5. session' \in [Sessions -> SessionRow]
  BY <1>1, <1>3, <1>4 DEF Revoke, TypeOK
<1>6. \A t \in Sessions : Grows(session[t], session'[t])
  <2>1. Grows(session[s], session'[s])
    BY <1>2, <1>4, BoundsAreNumbers DEF Grows, SessionRow
  <2> QED BY <1>1, <1>3, <2>1, GrowsIsReflexive DEF TypeOK
<1>7. Changes(q) /\ request'[q].pc = "answer" /\ request'[q].kind = row.kind
      /\ request'[q].sent = row.sent /\ request'[q].got = None /\ request'[q].runs = 0
  BY <1>1, <1>2, AnswerFields DEF Revoke
<1>8. TypeOK'
  BY <1>1, <1>5, <1>7 DEF TypeOK, Changes
<1>9. Held(jar, session)' /\ Held(request'[q].sent, session') /\ Held(request'[q].got, session')
  <2>1. Held(jar, session') /\ Held(row.sent, session')
    BY <1>1, <1>2, <1>5, <1>6, HeldLonger DEF TypeOK
  <2> QED BY <1>1, <1>7, <2>1 DEF Held
<1>10. /\ WellFormed(request'[q]) /\ Moved(request'[q], session') /\ Ended(request'[q], session')
       /\ \A p \in Requests : Apart(request[p], request'[q])
  BY <1>2, <1>4, <1>7 DEF WellFormed, Moved, Ended, Apart
<1> DEFINE moved == {q}
<1>11. /\ moved \in SUBSET Requests /\ \A p, r \in moved : p = r
       /\ \A p \in Requests \ moved : request'[p] = request[p]
  BY <1>7 DEF Changes
<1>12. \A r \in moved :
        /\ WellFormed(request'[r])
        /\ Held(request'[r].sent, session')
        /\ Held(request'[r].got, session')
        /\ Moved(request'[r], session')
        /\ faults' = 0 => Ended(request'[r], session')
        /\ \A p \in Requests \ {r} : Apart(request[p], request'[r])
  BY <1>9, <1>10
<1>13. faults <= faults'
  BY <1>1, BoundsAreNumbers DEF TypeOK
<1> HIDE DEF moved
<1> QED BY <1>6, <1>8, <1>9, <1>11, <1>12, <1>13, StepKeepsInv

LEMMA LoginStep ==
  ASSUME SessionInv, NEW q \in Requests, NEW s \in Sessions, Login(q, s)
  PROVE  SessionInv'
<1> DEFINE row == request[q]
           new == <<s, 0>>
<1>1. /\ UNCHANGED <<member, lapsed, jar, faults>> /\ TypeOK /\ WellFormed(row)
      /\ row.pc = "login" /\ Held(row.sent, session) /\ Held(jar, session)
      /\ row \in InFlight /\ session[s] \in SessionRow /\ session[s].state = "none"
  BY DEF Login, SessionInv, TypeOK
<1>2. /\ row.runs = 0 /\ row.kind = "login" /\ jar \in Issues \cup {None}
      /\ row.sent \in Issues \cup {None} /\ session[s].latest \in Nat
  BY <1>1, BoundsAreNumbers DEF WellFormed, TypeOK, InFlight, SessionRow
<1>3. new \in Issues /\ new[1] = s /\ new[2] = 0
  BY BoundsAreNumbers DEF Issues
<1>4. /\ \A t \in Sessions \ {s} : session'[t] = session[t]
      /\ session'[s] = [session[s] EXCEPT !.state = "open"]
  BY <1>1 DEF Login, TypeOK
<1>5. /\ session'[s] \in SessionRow /\ session'[s].latest = session[s].latest
      /\ session'[s].state = "open"
  BY <1>1, <1>4 DEF SessionRow
<1>6. session' \in [Sessions -> SessionRow]
  BY <1>1, <1>4, <1>5 DEF Login, TypeOK
<1>7. \A t \in Sessions : Grows(session[t], session'[t])
  <2>1. Grows(session[s], session'[s])
    BY <1>1, <1>2, <1>5 DEF Grows
  <2> QED BY <1>1, <1>4, <2>1, GrowsIsReflexive DEF TypeOK
<1>8. /\ request'[q] = [row EXCEPT !.pc = "load", !.got = new]
      /\ \A p \in Requests \ {q} : request'[p] = request[p]
  BY <1>1 DEF Login, TypeOK
<1> HIDE DEF new
<1>9. /\ request'[q] \in InFlight /\ request'[q].pc = "load" /\ request'[q].got = new
      /\ request'[q].kind = "login" /\ request'[q].sent = row.sent /\ request'[q].runs = 0
  BY <1>1, <1>2, <1>3, <1>8 DEF InFlight
<1>10. TypeOK'
  <2>1. request' \in [Requests -> InFlight]
    BY <1>1, <1>8, <1>9 DEF Login, TypeOK
  <2> QED BY <1>1, <1>6, <2>1 DEF TypeOK
<1>11. /\ Held(jar, session)' /\ Held(request'[q].sent, session')
       /\ Held(request'[q].got, session')
  <2>1. Held(jar, session') /\ Held(row.sent, session')
    BY <1>1, <1>2, <1>6, <1>7, HeldLonger DEF TypeOK
  <2> QED BY <1>1, <1>2, <1>3, <1>5, <1>9, <2>1 DEF Held
<1>12. /\ WellFormed(request'[q]) /\ Moved(request'[q], session') /\ Ended(request'[q], session')
       /\ \A p \in Requests : Apart(request[p], request'[q])
  BY <1>9 DEF WellFormed, Moved, Ended, Apart
<1> DEFINE moved == {q}
<1>13. /\ moved \in SUBSET Requests /\ \A p, r \in moved : p = r
       /\ \A p \in Requests \ moved : request'[p] = request[p]
  BY <1>8
<1>14. \A r \in moved :
        /\ WellFormed(request'[r])
        /\ Held(request'[r].sent, session')
        /\ Held(request'[r].got, session')
        /\ Moved(request'[r], session')
        /\ faults' = 0 => Ended(request'[r], session')
        /\ \A p \in Requests \ {r} : Apart(request[p], request'[r])
  BY <1>11, <1>12
<1>15. faults <= faults'
  BY <1>1, BoundsAreNumbers DEF TypeOK
<1> HIDE DEF moved
<1> QED BY <1>7, <1>10, <1>11, <1>13, <1>14, <1>15, StepKeepsInv

-----------------------------------------------------------------------------
(* Time and administration: no request changes. *)

LEMMA QuietStep ==
  ASSUME SessionInv, TypeOK', Held(jar, session)', UNCHANGED request,
         \A s \in Sessions : Grows(session[s], session'[s]), faults <= faults'
  PROVE  SessionInv'
<1> DEFINE moved == {}
<1>1. /\ moved \in SUBSET Requests /\ \A p, q \in moved : p = q
      /\ \A p \in Requests \ moved : request'[p] = request[p]
  OBVIOUS
<1>2. \A q \in moved : FALSE
  OBVIOUS
<1> HIDE DEF moved
<1> QED BY <1>1, <1>2, StepKeepsInv

LEMMA LapseStep ==
  ASSUME SessionInv, NEW s \in Sessions, Lapse(s)
  PROVE  SessionInv'
<1>1. lapsed[s] + 1 \in 0 .. MaxRotations + 1
  BY BoundsAreNumbers DEF Lapse, SessionInv, TypeOK, SessionRow
<1>2. TypeOK' /\ Held(jar, session)' /\ faults <= faults'
  BY <1>1, BoundsAreNumbers DEF Lapse, SessionInv, TypeOK
<1>3. \A t \in Sessions : Grows(session[t], session'[t])
  BY GrowsIsReflexive DEF Lapse, SessionInv, TypeOK
<1> QED BY <1>2, <1>3, QuietStep DEF Lapse

LEMMA ChangeMemberStep ==
  ASSUME SessionInv, ChangeMember
  PROVE  SessionInv'
<1>1. faults' \in 0 .. MaxFaults /\ faults <= faults'
  BY BoundsAreNumbers DEF ChangeMember, SessionInv, TypeOK
<1>2. TypeOK' /\ Held(jar, session)'
  BY <1>1 DEF ChangeMember, SessionInv, TypeOK
<1>3. \A t \in Sessions : Grows(session[t], session'[t])
  BY GrowsIsReflexive DEF ChangeMember, SessionInv, TypeOK
<1> QED BY <1>1, <1>2, <1>3, QuietStep DEF ChangeMember

LEMMA ExpireStep ==
  ASSUME SessionInv, NEW s \in Sessions, Expire(s)
  PROVE  SessionInv'
<1>1. TypeOK /\ Held(jar, session) /\ session[s] \in SessionRow /\ session[s].state = "open"
  BY DEF Expire, SessionInv, TypeOK, Open
<1>2. /\ session'[s] = [session[s] EXCEPT !.state = "expired"]
      /\ \A t \in Sessions \ {s} : session'[t] = session[t]
  BY <1>1 DEF Expire, TypeOK
<1>3. /\ session'[s] \in SessionRow /\ session'[s].latest = session[s].latest
      /\ session'[s].state = "expired" /\ session[s].latest \in 0 .. MaxRotations
  BY <1>1, <1>2 DEF SessionRow
<1>4. session' \in [Sessions -> SessionRow]
  BY <1>1, <1>2, <1>3 DEF Expire, TypeOK
<1>5. \A t \in Sessions : Grows(session[t], session'[t])
  <2>1. Grows(session[s], session'[s])
    BY <1>1, <1>3, BoundsAreNumbers DEF Grows
  <2> QED BY <1>1, <1>2, <2>1, GrowsIsReflexive DEF TypeOK
<1>6. session[s].latest + 1 \in 0 .. MaxRotations + 1
  BY <1>3, BoundsAreNumbers
<1>7. TypeOK'
  BY <1>1, <1>4, <1>6 DEF Expire, TypeOK
<1>8. Held(jar, session)'
  <2>1. jar' \in {None, jar} /\ jar \in Issues \cup {None}
    BY <1>1 DEF Expire, TypeOK
  <2>2. Held(jar, session')
    BY <1>1, <1>4, <1>5, <2>1, HeldLonger DEF TypeOK
  <2> QED BY <2>1, <2>2 DEF Held
<1>9. faults <= faults' /\ UNCHANGED request
  BY <1>1, BoundsAreNumbers DEF Expire, TypeOK
<1> QED BY <1>5, <1>7, <1>8, <1>9, QuietStep

-----------------------------------------------------------------------------
(* The theorems. *)

LEMMA InitHolds == Init => SessionInv
<1> SUFFICES ASSUME Init PROVE SessionInv
  OBVIOUS
<1>1. Idle.kind = "none" /\ Idle.pc = "idle" /\ Idle.sent = None /\ Idle.got = None
      /\ Idle.runs = 0
  BY DEF Idle
<1>2. NoSession \in SessionRow
  BY BoundsAreNumbers DEF NoSession, SessionRow
<1>3. Idle \in InFlight
  <2>1. 0 \in 0 .. MaxRotations /\ 0 \in 0 .. 1
    BY BoundsAreNumbers
  <2>2. "none" \in Kinds \cup {"none", "login"} /\ None \in Issues \cup {None}
    OBVIOUS
  <2> QED BY <2>1, <2>2 DEF Idle, InFlight
<1>4. TypeOK
  BY <1>2, <1>3, BoundsAreNumbers DEF Init, TypeOK
<1>5. Held(jar, session)
  BY DEF Init, Held
<1>6. \A q \in Requests :
       /\ WellFormed(request[q]) /\ Held(request[q].sent, session)
       /\ Held(request[q].got, session) /\ Moved(request[q], session)
       /\ Ended(request[q], session)
  BY <1>1 DEF Init, WellFormed, Held, Moved, Ended
<1>7. \A p, q \in Requests : Apart(request[p], request[q])
  BY <1>1 DEF Init, Apart
<1> QED BY <1>4, <1>5, <1>6, <1>7 DEF SessionInv

LEMMA StepHolds == SessionInv /\ [Next]_vars => SessionInv'
<1> SUFFICES ASSUME SessionInv, [Next]_vars PROVE SessionInv'
  OBVIOUS
<1>1. ASSUME NEW q \in Requests, Serve(q) PROVE SessionInv'
  BY <1>1, ForwardStep, RefreshReadStep, RefreshResolveStep, RefreshRotateStep, RevokeStep,
     LoadStep, RetryStep, LoginStep, LogoutStep, ReceiveStep DEF Serve
<1>2. CASE UNCHANGED vars
  BY <1>2, Zenon DEF vars, SessionInv, TypeOK
<1> QED BY <1>1, <1>2, SendStep, SendLoginStep, LogoutStep, ReceiveStep, LapseStep, ExpireStep,
           ChangeMemberStep DEF Next

(* Every session, cookie and request keeps its type.  In particular no      *)
(* request is executed twice: the proxy sends again only what the backend   *)
(* had turned away.                                                         *)
THEOREM ExecutedOnce == Spec => []TypeOK
<1>1. SessionInv => TypeOK
  BY DEF SessionInv
<1> QED BY InitHolds, StepHolds, <1>1, PTL DEF Spec

(* However the refreshes of a browser overlap, one at most of those that    *)
(* found the same hash gets new tokens.                                     *)
THEOREM RotationHasOneWinner == Spec => []OneWinner
<1>1. SessionInv => OneWinner
  <2> SUFFICES ASSUME SessionInv, NEW p \in Requests, NEW q \in Requests, p # q,
                      Refreshed(p), Refreshed(q), SessionOf(p) = SessionOf(q)
               PROVE  request[p].read # request[q].read
    BY DEF OneWinner
  <2> QED BY DEF SessionInv, Apart, Refreshed, SessionOf
<1> QED BY InitHolds, StepHolds, <1>1, PTL DEF Spec

(* A logout that was answered leaves a session open only if a refresh had   *)
(* replaced the token it came with, or if something failed.                 *)
THEOREM LogoutIsEffective == Spec => []LogoutEndsSession
<1>1. SessionInv => LogoutEndsSession
  <2> SUFFICES ASSUME SessionInv, NEW q \in Requests,
                      request[q].kind = "logout", request[q].pc = "answer", faults = 0,
                      Open(SessionOf(q))
               PROVE  session[SessionOf(q)].latest # request[q].sent[2]
    BY DEF LogoutEndsSession
  <2> QED BY DEF SessionInv, Ended, SessionOf, Open
<1> QED BY InitHolds, StepHolds, <1>1, PTL DEF Spec

(* A session that a logout or a replay revoked is never written again: a    *)
(* refresh that had read it before finds its compare-and-set refused.       *)
THEOREM RevocationIsFinal == Spec => RevokedForGood
<1>1. TypeOK /\ [Next]_vars
        => [\A s \in Sessions : session[s].state = "revoked" => session'[s] = session[s]]_vars
  <2> SUFFICES ASSUME TypeOK, Next, NEW s \in Sessions, session[s].state = "revoked"
               PROVE  session'[s] = session[s]
    OBVIOUS
  <2>1. ASSUME NEW q \in Requests, RefreshRotate(q) PROVE session'[s] = session[s]
    BY <2>1 DEF RefreshRotate, Rotates, TypeOK
  <2>2. ASSUME NEW q \in Requests, Revoke(q) PROVE session'[s] = session[s]
    <3>1. session[s] \in SessionRow
      BY DEF TypeOK
    <3>2. session'[s] \in {session[s], [session[s] EXCEPT !.state = session[s].state]}
      BY <2>2 DEF Revoke, TypeOK
    <3>3. [session[s] EXCEPT !.state = session[s].state] = session[s]
      BY <3>1 DEF SessionRow
    <3> QED BY <3>2, <3>3
  <2>3. ASSUME NEW q \in Requests, NEW t \in Sessions, Login(q, t) PROVE session'[s] = session[s]
    BY <2>3 DEF Login, TypeOK
  <2>4. ASSUME NEW t \in Sessions, Expire(t) PROVE session'[s] = session[s]
    BY <2>4 DEF Expire, Open, TypeOK
  <2>5. ASSUME NEW q \in Requests, Serve(q) PROVE session'[s] = session[s]
    BY <2>1, <2>2, <2>3, <2>5
       DEF Serve, Forward, RefreshRead, RefreshResolve, Load, Retry, Logout, Receive
  <2> QED BY <2>4, <2>5 DEF Next, Send, SendLogin, LogoutFails, LoseAnswer, Lapse, ChangeMember
<1>2. SessionInv => TypeOK
  BY DEF SessionInv
<1> QED BY InitHolds, StepHolds, <1>1, <1>2, PTL DEF Spec, RevokedForGood

=============================================================================
