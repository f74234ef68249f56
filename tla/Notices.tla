------------------------------ MODULE Notices ------------------------------
(***************************************************************************)
(* The creation of notifications: createNotifications of                   *)
(* apps/api/src/modules/notifications, which the hooks of the other         *)
(* modules call, each time under the key of the event they announce.  A     *)
(* repeat is looked for before the SERIALIZABLE transaction, and again when *)
(* the unique indexes on the keys refuse the rows.  What becomes of the     *)
(* rows is in Delivery.                                                     *)
(***************************************************************************)
EXTENDS Naturals, FiniteSets

CONSTANTS
  Requests,  (* calls of createNotifications; each is handled once *)
  Keys,      (* idempotency keys; a dedupe key is treated alike *)
  Under,     (* the keys that begin with a key and a colon *)
  Long,      (* keys that are cut to make room for a suffix *)
  Targets,   (* a recipient on a channel *)
  Commands, Command,  (* Command[c] is a CommandRow *)
  None       (* null *)

(* What a command asks for.  "print" is what replayMatches compares, except *)
(* that it compares the text of the payload: "ordered" says whether jsonb   *)
(* returns its keys in the order in which they came.  "place" is the number *)
(* of the row that a target gets.                                           *)
CommandRow ==
  [key : Keys \cup {None}, targets : SUBSET Targets, place : [Targets -> Nat],
   print : Nat, ordered : BOOLEAN]

VARIABLES
  notices,   (* notifications, each with its outbox event *)
  request

vars == <<notices, request>>

Idle == [pc |-> "idle"]
Answers == {"created", "replayed", "refused"}
Call == {Idle} \cup [pc : {"create", "resolve"}, command : Commands]
  \cup [pc : {"done"}, command : Commands, answer : Answers, raced : BOOLEAN]

Goto(r, pc, c) ==
  /\ request' = [request EXCEPT ![r] = [pc |-> pc, command |-> c]]
  /\ UNCHANGED notices

Answer(r, c, answer) ==
  request' = [request EXCEPT ![r] =
    [pc |-> "done", command |-> c, answer |-> answer, raced |-> request[r].pc = "resolve"]]

-----------------------------------------------------------------------------

Key(c) == Command[c].key

KeySuffixes == (Nat \X Targets) \cup {None}

(* derivedKey: what is added to the key, which is the number of the row and *)
(* its target, or nothing when there is one row                             *)
Suffix(c, t) ==
  IF Cardinality(Command[c].targets) = 1 THEN None ELSE <<Command[c].place[t], t>>

(* The rows of a command, as request r creates them *)
Rows(r, c) ==
  {[key |-> Key(c), suffix |-> Suffix(c, t), target |-> t, command |-> c, by |-> r] :
     t \in Command[c].targets}

(* findIdempotencyReplay: the rows whose key is the command's, or begins with *)
(* it and a colon; a key that was cut does not.                             *)
Found(c) ==
  {x \in notices :
     /\ Key(c) # None /\ x.key # None
     /\ \/ x.key = Key(c) /\ (x.suffix = None \/ Key(c) \notin Long)
        \/ x.key \in Under[Key(c)]}

(* replayMatches *)
Matches(c, found) ==
  /\ Cardinality(found) = Cardinality(Command[c].targets)
  /\ \A x \in found : Command[x.command].print = Command[c].print
  /\ Command[c].ordered

(* Mutant of Taken: the indexes are gone. *)
NeverTaken(c) == FALSE

(* The unique indexes on (rtId, idempotencyKey) and (rtId, dedupeKey) *)
Taken(c) ==
  \E t \in Command[c].targets, x \in notices :
    Key(c) # None /\ x.key = Key(c) /\ x.suffix = Suffix(c, t)

-----------------------------------------------------------------------------

(* createNotifications: a replay, a mismatch, or nothing is there yet *)
Look(r, c) ==
  /\ request[r].pc = "idle"
  /\ \/ Found(c) = {} /\ Goto(r, "create", c)
     \/ /\ Found(c) # {}
        /\ Answer(r, c, IF Matches(c, Found(c)) THEN "replayed" ELSE "refused")
        /\ UNCHANGED notices

(* The transaction: all rows, or none.  It is refused when a recipient is  *)
(* gone, or when it met a conflict in each of its three attempts.          *)
Create(r) ==
  LET c == request[r].command IN
  /\ request[r].pc = "create"
  /\ \/ /\ ~Taken(c)
        /\ notices' = notices \cup Rows(r, c)
        /\ Answer(r, c, "created")
     \/ Taken(c) /\ Goto(r, "resolve", c)
     \/ Answer(r, c, "refused") /\ UNCHANGED notices

(* resolveCreateConflict: the rows are taken as they are *)
Resolve(r) ==
  LET c == request[r].command IN
  /\ request[r].pc = "resolve"
  /\ Answer(r, c, IF Found(c) = {} THEN "refused" ELSE "replayed")
  /\ UNCHANGED notices

Init ==
  /\ notices = {}
  /\ request = [r \in Requests |-> Idle]

Next ==
  \E r \in Requests :
    \/ \E c \in Commands : Look(r, c)
    \/ Create(r)
    \/ Resolve(r)

Spec == Init /\ [][Next]_vars

-----------------------------------------------------------------------------

(* The type of every variable. *)
TypeOK ==
  /\ notices \subseteq [key : Keys \cup {None}, suffix : KeySuffixes,
                        target : Targets, command : Commands, by : Requests]
  /\ request \in [Requests -> Call]

(* An event is announced once, however often and however closely together  *)
(* it is announced: all rows of a command with a key are of one request.    *)
(* And a request that is told that its rows are there is told the truth,    *)
(* unless others took its key while it ran.                                 *)
NotifiedOnce ==
  /\ \A x, y \in notices : x.command = y.command /\ x.key # None => x.by = y.by
  /\ \A r \in Requests :
       request[r].pc = "done" /\ request[r].answer # "refused" /\ ~request[r].raced =>
         Cardinality({x \in notices :
             Command[x.command].print = Command[request[r].command].print})
           >= Cardinality(Command[request[r].command].targets)

(* A repeat of what was announced is answered with the rows that exist:    *)
(* "returns existing notifications for idempotent duplicate creation",     *)
(* prisma-notifications.repository.spec.ts:23.  It is not, when the payload *)
(* comes back from the database with its keys in another order.             *)
DuplicatesAreReplayed ==
  [][\A r \in Requests :
       /\ request[r].pc = "idle"
       /\ request'[r].pc = "done"
       /\ \A x \in notices : x.command = request'[r].command
       => request'[r].answer = "replayed"]_vars
=============================================================================
