----------------------------- MODULE BotProofs -----------------------------
(***************************************************************************)
(* What the bot's unique indexes give it, for any number of accounts,      *)
(* updates, conversations, overlapping deliveries and faults, and what its *)
(* second look at the checklist does, where handlers do not overlap.       *)
(***************************************************************************)
EXTENDS Bot, TLAPS

(* An update is routed only after it was recorded. *)
UnrecordedIsUnrouted == \A u \in Ids : updates[u] = "NONE" => runs[u] = 0

(* The inductive invariant. *)
BotInv ==
  /\ TypeOK
  /\ UnrecordedIsUnrouted
  /\ HandledOnce
  /\ OneDraftPerFlow

Requested ==
  /\ handler \in [Webhooks -> Requests]
  /\ \A w \in Webhooks :
       handler[w] # Idle => handler[w].update \in Ids /\ sent[handler[w].update] \in Messages

-----------------------------------------------------------------------------
(* Requests and conversations. *)

LEMMA InIsConversation ==
  ASSUME NEW state \in States, NEW flow \in 0 .. MaxFlows, NEW house \in Houses \cup {None}
  PROVE  In(state, flow, house) \in Conversations
BY DEF In, Conversations

LEMMA PlainConversations ==
  /\ None \in Conversations
  /\ \A state \in States : In(state, 0, None) \in Conversations
  /\ Menu \in Conversations
<1>1. 0 \in 0 .. MaxFlows
  BY BoundsAreNumbers
<1>2. None \in Conversations
  BY DEF Conversations
<1> QED BY <1>1, <1>2, InIsConversation DEF Menu, States

LEMMA NextState ==
  ASSUME NEW c \in Conversations, c # None, NEW state \in States
  PROVE  [c EXCEPT !.state = state] \in Conversations
BY DEF Conversations

LEMMA IdleIsRequest == Idle \in Requests /\ Idle.pc = "idle"
<1>1. 0 \in 0 .. MaxUpdates
  BY BoundsAreNumbers
<1> QED BY <1>1 DEF Idle, Requests, Steps, Conversations

(* A request goes on. *)
LEMMA Moves ==
  ASSUME TypeOK, NEW w \in Webhooks, handler[w].pc # "idle",
         NEW pc \in Steps, Goto(w, pc), UNCHANGED sent
  PROVE  Requested'
BY IdleIsRequest DEF TypeOK, Requested, Goto, Requests

LEMMA MovesOn ==
  ASSUME TypeOK, NEW w \in Webhooks, handler[w].pc # "idle",
         NEW pc \in Steps, NEW c \in Conversations,
         handler' = [handler EXCEPT ![w].pc = pc, ![w].next = c], UNCHANGED sent
  PROVE  Requested'
BY IdleIsRequest DEF TypeOK, Requested, Requests

LEMMA Saves ==
  ASSUME TypeOK, NEW w \in Webhooks, handler[w].pc # "idle",
         NEW c \in Conversations, GoSave(w, c), UNCHANGED sent
  PROVE  Requested'
<1>1. "save" \in Steps
  BY DEF Steps
<1> QED BY <1>1, MovesOn DEF GoSave

(* A request ends. *)
LEMMA Ends ==
  ASSUME TypeOK, NEW w \in Webhooks, handler' = [handler EXCEPT ![w] = Idle], UNCHANGED sent
  PROVE  Requested'
BY IdleIsRequest DEF TypeOK, Requested

LEMMA AnswerIsTyped ==
  ASSUME TypeOK, NEW w \in Webhooks, handler[w].pc # "idle", Answered(w)
  PROVE  Requested' /\ sent' \in [Ids -> Messages \cup {None}]
<1>1. PICK u \in Ids : u = handler[w].update /\ sent[u] \in Messages
  BY IdleIsRequest DEF TypeOK
<1>2. PICK m : m = [sent[u] EXCEPT !.open = FALSE]
  OBVIOUS
<1>3. m \in Messages
  BY <1>1, <1>2 DEF Messages
<1>4. sent' = [sent EXCEPT ![u] = m]
  BY <1>1, <1>2 DEF Answered
<1>5. sent' \in [Ids -> Messages \cup {None}]
      /\ \A v \in Ids : sent[v] \in Messages => sent'[v] \in Messages
  BY <1>3, <1>4 DEF TypeOK
<1>6. Requested'
  BY <1>5, IdleIsRequest DEF Answered, TypeOK, Requested
<1> QED BY <1>5, <1>6

-----------------------------------------------------------------------------
(* The actions. *)

(* What every action has to keep of the tables besides its own change.     *)
LEMMA Frame ==
  ASSUME BotInv, Requested', sent' \in [Ids -> Messages \cup {None}],
         UNCHANGED <<updates, runs, conversation, drafts, items>>,
         bound' \subseteq Accounts, approval' \in {"PENDING", "APPROVED", "REJECTED"},
         flows' \in 1 .. MaxFlows, faults' \in 0 .. MaxFaults,
         crashed' \subseteq Ids, overlapped' \in BOOLEAN
  PROVE  BotInv'
BY DEF BotInv, TypeOK, Requested, UnrecordedIsUnrouted, HandledOnce, OneDraftPerFlow

LEMMA SendStep ==
  ASSUME BotInv, NEW u \in Ids, NEW a \in Accounts, NEW input \in Inputs, Send(u, a, input)
  PROVE  BotInv'
<1>1. PICK m : m = [account |-> a, input |-> input, open |-> TRUE]
  OBVIOUS
<1>2. m \in Messages
  BY <1>1 DEF Messages
<1>3. sent' = [sent EXCEPT ![u] = m] /\ UNCHANGED handler
  BY <1>1 DEF Send
<1>4. sent' \in [Ids -> Messages \cup {None}] /\ Requested'
  BY <1>2, <1>3 DEF BotInv, TypeOK, Requested
<1> QED BY <1>4, Frame DEF Send, BotInv, TypeOK, history, tables

LEMMA DeliverStep ==
  ASSUME BotInv, NEW w \in Webhooks, NEW u \in Ids, Deliver(w, u)
  PROVE  BotInv'
<1>1. PICK r : r = [Idle EXCEPT !.pc = "record", !.update = u]
  OBVIOUS
<1>2. r \in Requests /\ r.update = u
  <2>1. u \in 0 .. MaxUpdates
    BY BoundsAreNumbers DEF Ids
  <2>2. r = [pc |-> "record", update |-> u, next |-> None]
    BY <1>1 DEF Idle
  <2> QED BY <2>1, <2>2 DEF Requests, Steps, Conversations
<1>3. sent[u] \in Messages
  BY DEF Deliver, BotInv, TypeOK
<1>4. Requested'
  BY <1>1, <1>2, <1>3 DEF Deliver, BotInv, TypeOK, Requested
<1> QED BY <1>4, Frame DEF Deliver, BotInv, TypeOK, history, tables

(* The unique update id keeps a recorded update from being routed again.    *)
LEMMA RecordStep ==
  ASSUME BotInv, NEW w \in Webhooks, Record(w)
  PROVE  BotInv'
<1>1. handler[w].pc # "idle" /\ TypeOK
  BY DEF Record, BotInv
<1>2. PICK u : u = handler[w].update
  OBVIOUS
<1>3. u \in Ids
  BY <1>1, <1>2, IdleIsRequest DEF TypeOK
<1>4. CASE IsDuplicate(u)
  <2>1. Answered(w) /\ UNCHANGED <<updates, history>>
    BY <1>2, <1>4 DEF Record
  <2> QED BY <1>1, <2>1, AnswerIsTyped, Frame DEF Record, BotInv, TypeOK, history, tables
<1>5. CASE ~IsDuplicate(u)
  <2>1. /\ updates' = [updates EXCEPT ![u] = "RECEIVED"]
        /\ runs' = [runs EXCEPT ![u] = runs[u] + 1]
        /\ overlapped' \in BOOLEAN
        /\ Goto(w, "route")
        /\ UNCHANGED <<sent, crashed>>
    BY <1>1, <1>2, <1>5 DEF Record, TypeOK
  <2>2. runs[u] = 0
    BY <1>3, <1>5 DEF IsDuplicate, BotInv, UnrecordedIsUnrouted
  <2>3. Requested'
    BY <1>1, <2>1, Moves DEF Steps
  <2>4. /\ runs' \in [Ids -> Nat]
        /\ updates' \in [Ids -> {"NONE", "RECEIVED", "PROCESSED", "FAILED"}]
        /\ UnrecordedIsUnrouted'
        /\ HandledOnce'
    BY <1>1, <1>3, <2>1, <2>2 DEF BotInv, TypeOK, UnrecordedIsUnrouted, HandledOnce
  <2>5. UNCHANGED <<conversation, bound, tables, flows, faults>>
    BY DEF Record
  <2>6. TypeOK'
    BY <1>1, <2>1, <2>3, <2>4, <2>5 DEF TypeOK, Requested, tables
  <2> QED BY <2>4, <2>5, <2>6 DEF BotInv, OneDraftPerFlow, tables
<1> QED BY <1>4, <1>5

LEMMA RouteStep ==
  ASSUME BotInv, NEW w \in Webhooks, Route(w)
  PROVE  BotInv'
<1>1. /\ handler[w].pc # "idle"
      /\ TypeOK
      /\ AccountOf(w) \in Accounts
      /\ conversation[AccountOf(w)] \in Conversations
      /\ UNCHANGED <<sent, updates, history, conversation, tables, faults>>
  <2>1. Routing(w)
    BY DEF Route, RouteBind, RouteNowhere, RouteWrong, RouteCommand, RouteFinance,
           RouteJimpitan, RouteApproval
  <2>2. AccountOf(w) \in Accounts
    BY <2>1, IdleIsRequest DEF Routing, BotInv, TypeOK, AccountOf, Messages
  <2> QED BY <2>1, <2>2 DEF Routing, BotInv, TypeOK
<1>2. ASSUME Requested', bound' \subseteq Accounts, flows' \in 1 .. MaxFlows PROVE BotInv'
  BY <1>1, <1>2, Frame DEF TypeOK, history, tables
<1>3. ASSUME NEW pc \in Steps, Goto(w, pc) PROVE Requested'
  BY <1>1, <1>3, Moves
<1>4. ASSUME NEW c \in Conversations, GoSave(w, c) PROVE Requested'
  BY <1>1, <1>4, Saves
<1>5. /\ UNCHANGED bound => bound' \subseteq Accounts
      /\ UNCHANGED flows => flows' \in 1 .. MaxFlows
  BY <1>1 DEF TypeOK
<1>6. CASE RouteBind(w)
  <2>1. Requested'
    BY <1>3, <1>4, <1>6, PlainConversations DEF RouteBind, Steps
  <2>2. bound' \subseteq Accounts
    BY <1>1, <1>6 DEF RouteBind, TypeOK
  <2> QED BY <1>2, <1>5, <1>6, <2>1, <2>2 DEF RouteBind
<1>7. CASE RouteNowhere(w) \/ RouteWrong(w) \/ RouteApproval(w)
  <2>1. Requested' /\ UNCHANGED <<bound, flows>>
    BY <1>3, <1>7 DEF RouteNowhere, RouteWrong, RouteApproval, Steps
  <2> QED BY <1>2, <1>5, <2>1
<1>8. CASE RouteCommand(w)
  <2>1. UNCHANGED bound
    BY <1>8 DEF RouteCommand
  <2>2. CASE UNCHANGED flows
    <3>1. ASSUME GoSave(w, Menu) PROVE Requested'
      BY <1>4, <3>1, PlainConversations
    <3>2. ASSUME GoSave(w, None) PROVE Requested'
      BY <1>4, <3>2, PlainConversations
    <3>3. ASSUME GoSave(w, In("SELECT_SESSION", 0, None)) PROVE Requested'
      BY <1>4, <3>3, PlainConversations DEF States
    <3>4. ASSUME GoSave(w, In("APPROVAL_ACTION", 0, None)) PROVE Requested'
      BY <1>4, <3>4, PlainConversations DEF States
    <3>5. ASSUME Goto(w, "reply") PROVE Requested'
      BY <1>3, <3>5 DEF Steps
    <3>6. flows # flows + 1
      BY <1>1 DEF TypeOK
    <3> QED BY <1>2, <1>5, <1>8, <2>1, <2>2, <3>1, <3>2, <3>3, <3>4, <3>5, <3>6
            DEF RouteCommand
  <2>3. CASE ~UNCHANGED flows
    <3>1. /\ flows < MaxFlows
          /\ flows' = flows + 1
          /\ GoSave(w, In("SELECT_CATEGORY", flows + 1, None))
      BY <1>8, <2>3 DEF RouteCommand
    <3>2. flows' \in 1 .. MaxFlows /\ flows + 1 \in 0 .. MaxFlows
      BY <1>1, <3>1, BoundsAreNumbers DEF TypeOK
    <3>3. In("SELECT_CATEGORY", flows + 1, None) \in Conversations
      BY <3>2, InIsConversation DEF States
    <3> QED BY <1>2, <1>4, <1>5, <2>1, <3>1, <3>2, <3>3
  <2> QED BY <2>2, <2>3
<1>9. CASE RouteFinance(w)
  <2>1. PICK c \in Conversations : c = conversation[AccountOf(w)] /\ c # None
    BY <1>1, <1>9 DEF RouteFinance, Continues
  <2>2. /\ UNCHANGED <<bound, flows>>
        /\ \/ GoSave(w, [c EXCEPT !.state = "AMOUNT"])
           \/ GoSave(w, [c EXCEPT !.state = "DESCRIPTION"])
           \/ handler' = [handler EXCEPT ![w].pc = "lookup", ![w].next = c]
    BY <1>9, <2>1 DEF RouteFinance
  <2>3. /\ [c EXCEPT !.state = "AMOUNT"] \in Conversations
        /\ [c EXCEPT !.state = "DESCRIPTION"] \in Conversations
    BY <2>1, NextState DEF States
  <2>4. ASSUME handler' = [handler EXCEPT ![w].pc = "lookup", ![w].next = c] PROVE Requested'
    BY <1>1, <2>1, <2>4, MovesOn DEF Steps
  <2> QED BY <1>2, <1>4, <1>5, <2>2, <2>3, <2>4
<1>10. CASE RouteJimpitan(w)
  <2>1. PICK c \in Conversations : c = conversation[AccountOf(w)] /\ c # None
    BY <1>1, <1>10 DEF RouteJimpitan, Continues
  <2>2. /\ UNCHANGED <<bound, flows>>
        /\ \/ \E state \in {"BULK_AMOUNT", "SELECT_HOUSE", "BULK_NOTE"} :
                GoSave(w, In(state, 0, None))
           \/ Goto(w, "total") \/ Goto(w, "reply")
           \/ \E x \in Houses : GoSave(w, In("AMOUNT_STATUS", 0, x))
           \/ GoSave(w, [c EXCEPT !.state = "NOTE"])
           \/ handler' = [handler EXCEPT ![w].pc = "item", ![w].next = c]
    BY <1>10, <2>1 DEF RouteJimpitan
  <2>3. ASSUME NEW state \in {"BULK_AMOUNT", "SELECT_HOUSE", "BULK_NOTE"},
               GoSave(w, In(state, 0, None))
        PROVE  Requested'
    BY <1>4, <2>3, PlainConversations DEF States
  <2>4. ASSUME NEW x \in Houses, GoSave(w, In("AMOUNT_STATUS", 0, x)) PROVE Requested'
    <3>1. 0 \in 0 .. MaxFlows
      BY BoundsAreNumbers
    <3>2. In("AMOUNT_STATUS", 0, x) \in Conversations
      BY <3>1, InIsConversation DEF States
    <3> QED BY <1>4, <2>4, <3>2
  <2>5. [c EXCEPT !.state = "NOTE"] \in Conversations
    BY <2>1, NextState DEF States
  <2>6. ASSUME handler' = [handler EXCEPT ![w].pc = "item", ![w].next = c] PROVE Requested'
    BY <1>1, <2>1, <2>6, MovesOn DEF Steps
  <2>7. ASSUME Goto(w, "total") \/ Goto(w, "reply") PROVE Requested'
    BY <1>3, <2>7 DEF Steps
  <2> QED BY <1>2, <1>4, <1>5, <2>2, <2>3, <2>4, <2>5, <2>6, <2>7
<1> QED BY <1>6, <1>7, <1>8, <1>9, <1>10 DEF Route

LEMMA LookupDraftStep ==
  ASSUME BotInv, NEW w \in Webhooks, LookupDraft(w)
  PROVE  BotInv'
<1>1. handler[w].pc # "idle" /\ TypeOK /\ UNCHANGED sent
  BY DEF LookupDraft, BotInv
<1>2. GoSave(w, None) \/ Goto(w, "fail") \/ Goto(w, "draft")
  BY DEF LookupDraft, Replayed
<1>3. Requested'
  BY <1>1, <1>2, Moves, Saves, PlainConversations DEF Steps
<1> QED BY <1>1, <1>3, Frame DEF LookupDraft, TypeOK, history, tables

(* The unique index on the key keeps a second draft of a flow out.         *)
LEMMA InsertDraftStep ==
  ASSUME BotInv, NEW w \in Webhooks, InsertDraft(w)
  PROVE  BotInv'
<1>1. handler[w].pc # "idle" /\ TypeOK
  BY DEF InsertDraft, BotInv
<1>2. PICK f : f = handler[w].next.flow
  OBVIOUS
<1>3. UNCHANGED <<sent, updates, history, conversation, bound, items, approval, flows, faults>>
  BY DEF InsertDraft
<1>4. Requested'
  BY <1>1, <1>3, Moves, Saves, PlainConversations DEF InsertDraft, Replayed, Steps
<1>5. drafts' \in [1 .. MaxFlows -> Nat] /\ OneDraftPerFlow'
  <2>1. CASE drafts[f] > 0
    BY <1>1, <1>2, <2>1 DEF InsertDraft, KeyIsTaken, BotInv, OneDraftPerFlow, TypeOK
  <2>2. CASE ~(drafts[f] > 0)
    <3>1. drafts' = [drafts EXCEPT ![f] = drafts[f] + 1]
      BY <1>1, <1>2, <2>2 DEF InsertDraft, KeyIsTaken
    <3>2. CASE f \in 1 .. MaxFlows
      <4>1. drafts[f] = 0
        BY <1>1, <2>2, <3>2 DEF TypeOK
      <4>2. drafts' = [drafts EXCEPT ![f] = 1]
        BY <3>1, <4>1
      <4> QED BY <1>1, <3>2, <4>2 DEF BotInv, OneDraftPerFlow, TypeOK
    <3>3. CASE f \notin 1 .. MaxFlows
      <4>1. drafts' = drafts
        BY <1>1, <3>1, <3>3 DEF TypeOK
      <4> QED BY <1>1, <4>1 DEF BotInv, OneDraftPerFlow, TypeOK
    <3> QED BY <3>2, <3>3
  <2> QED BY <2>1, <2>2
<1>6. TypeOK'
  BY <1>1, <1>3, <1>4, <1>5 DEF TypeOK, Requested, history
<1> QED BY <1>3, <1>5, <1>6 DEF BotInv, UnrecordedIsUnrouted, HandledOnce, history

LEMMA SaveItemStep ==
  ASSUME BotInv, NEW w \in Webhooks, SaveItem(w)
  PROVE  BotInv'
<1>1. handler[w].pc # "idle" /\ TypeOK
  BY DEF SaveItem, BotInv
<1>2. /\ UNCHANGED <<sent, updates, history, conversation, bound, drafts, approval, flows, faults>>
      /\ GoSave(w, None) \/ GoSave(w, In("SELECT_HOUSE", 0, None))
  BY DEF SaveItem
<1>3. Requested'
  BY <1>1, <1>2, Saves, PlainConversations DEF States
<1>4. items' \in [Houses -> Nat]
  <2>1. PICK x : items' = [items EXCEPT ![x] = items[x] + 1]
    BY DEF SaveItem
  <2>2. \A y \in Houses : items[y] \in Nat /\ items[y] + 1 \in Nat
    BY <1>1 DEF TypeOK
  <2> QED BY <1>1, <2>1, <2>2 DEF TypeOK
<1>5. TypeOK'
  BY <1>1, <1>2, <1>3, <1>4 DEF TypeOK, Requested, history
<1> QED BY <1>2, <1>5
        DEF BotInv, UnrecordedIsUnrouted, HandledOnce, OneDraftPerFlow, history

LEMMA SaveTotalStep ==
  ASSUME BotInv, NEW w \in Webhooks, SaveTotal(w)
  PROVE  BotInv'
<1>1. Requested'
  BY Saves, PlainConversations DEF SaveTotal, BotInv
<1> QED BY <1>1, Frame DEF SaveTotal, BotInv, TypeOK, history, tables

LEMMA DecideStep ==
  ASSUME BotInv, NEW w \in Webhooks, Decide(w)
  PROVE  BotInv'
<1>1. Requested'
  BY Moves DEF Decide, BotInv, Steps
<1>2. approval' \in {"PENDING", "APPROVED", "REJECTED"}
  BY DEF Decide, BotInv, TypeOK
<1> QED BY <1>1, <1>2, Frame DEF Decide, BotInv, TypeOK, history

LEMMA SaveStep ==
  ASSUME BotInv, NEW w \in Webhooks, Save(w)
  PROVE  BotInv'
<1>1. TypeOK /\ handler[w].pc # "idle"
      /\ UNCHANGED <<sent, updates, history, bound, tables, flows, faults>>
  BY DEF Save, BotInv
<1>2. Requested'
  BY <1>1, Moves DEF Save, Steps
<1>3. conversation' \in [Accounts -> Conversations]
  BY <1>1 DEF Save, TypeOK, Requests
<1>4. TypeOK'
  BY <1>1, <1>2, <1>3 DEF TypeOK, Requested, history, tables
<1> QED BY <1>1, <1>4
        DEF BotInv, UnrecordedIsUnrouted, HandledOnce, OneDraftPerFlow, history, tables

LEMMA EndStep ==
  ASSUME BotInv, NEW w \in Webhooks, Finish(w) \/ Fail(w)
  PROVE  BotInv'
<1>1. PICK u : u = handler[w].update
  OBVIOUS
<1>2. PICK status \in {"PROCESSED", "FAILED"} : updates' = [updates EXCEPT ![u] = status]
  BY <1>1 DEF Finish, Fail
<1>3. /\ TypeOK /\ handler[w].pc # "idle" /\ Answered(w)
      /\ UNCHANGED <<history, conversation, bound, tables, flows, faults>>
  BY DEF Finish, Fail, BotInv
<1>4. Requested' /\ sent' \in [Ids -> Messages \cup {None}]
  BY <1>3, AnswerIsTyped
<1>5. /\ updates' \in [Ids -> {"NONE", "RECEIVED", "PROCESSED", "FAILED"}]
      /\ UnrecordedIsUnrouted'
  BY <1>2, <1>3 DEF BotInv, TypeOK, UnrecordedIsUnrouted, history
<1>6. TypeOK'
  BY <1>3, <1>4, <1>5 DEF TypeOK, Requested, history, tables
<1> QED BY <1>3, <1>5, <1>6 DEF BotInv, HandledOnce, OneDraftPerFlow, history, tables

(* A service refuses, or the handler dies, at any moment.                  *)
LEMMA FaultStep ==
  ASSUME BotInv, NEW w \in Webhooks, Refused(w) \/ Crash(w)
  PROVE  BotInv'
<1>1. CASE Refused(w)
  <2>1. Requested'
    BY <1>1, Moves DEF Refused, BotInv, Steps
  <2>2. faults' \in 0 .. MaxFaults
    BY <1>1, BoundsAreNumbers DEF Refused, BotInv, TypeOK
  <2> QED BY <1>1, <2>1, <2>2, Frame DEF Refused, BotInv, TypeOK, history, tables
<1>2. CASE Crash(w)
  <2>1. Requested'
    BY <1>2, Ends DEF Crash, BotInv
  <2>2. faults' \in 0 .. MaxFaults /\ crashed' \subseteq Ids
    BY <1>2, BoundsAreNumbers DEF Crash, BotInv, TypeOK
  <2> QED BY <1>2, <2>1, <2>2, Frame DEF Crash, BotInv, TypeOK, tables
<1> QED BY <1>1, <1>2

LEMMA AccountStep ==
  ASSUME BotInv, NEW a \in Accounts, ExpireConversation(a) \/ Unbind(a)
  PROVE  BotInv'
<1>1. CASE ExpireConversation(a)
  <2>1. PICK c \in Conversations : c = conversation[a] /\ c # None
    BY <1>1 DEF ExpireConversation, BotInv, TypeOK
  <2>2. [c EXCEPT !.expired = TRUE] \in Conversations
    BY <2>1 DEF Conversations
  <2>3. /\ conversation' = [conversation EXCEPT ![a] = [c EXCEPT !.expired = TRUE]]
        /\ UNCHANGED <<sent, updates, history, bound, tables, handler, flows, faults>>
    BY <1>1, <2>1 DEF ExpireConversation
  <2>4. conversation' \in [Accounts -> Conversations]
    BY <2>2, <2>3 DEF BotInv, TypeOK
  <2>5. TypeOK'
    BY <2>3, <2>4 DEF BotInv, TypeOK, history, tables
  <2> QED BY <2>3, <2>5
          DEF BotInv, UnrecordedIsUnrouted, HandledOnce, OneDraftPerFlow, history, tables
<1>2. CASE Unbind(a)
  <2>1. Requested'
    BY <1>2 DEF Unbind, BotInv, TypeOK, Requested
  <2> QED BY <1>2, <2>1, Frame DEF Unbind, BotInv, TypeOK, history, tables
<1> QED BY <1>1, <1>2

-----------------------------------------------------------------------------
(* The theorems. *)

LEMMA InitHolds == Init => BotInv
<1> SUFFICES ASSUME Init PROVE BotInv
  OBVIOUS
<1>1. Begun \subseteq Conversations
  <2>1. 0 \in 0 .. MaxFlows /\ 1 \in 0 .. MaxFlows
    BY BoundsAreNumbers
  <2> QED BY <2>1, InIsConversation, PlainConversations DEF Begun, States
<1>2. conversation \in [Accounts -> Conversations]
  BY <1>1 DEF Init
<1>3. TypeOK
  <2>1. sent \in [Ids -> Messages \cup {None}]
    BY DEF Init
  <2>2. /\ handler \in [Webhooks -> Requests]
        /\ \A w \in Webhooks : handler[w] = Idle
    BY IdleIsRequest DEF Init
  <2>3. flows \in 1 .. MaxFlows /\ faults \in 0 .. MaxFaults
    BY BoundsAreNumbers DEF Init
  <2>4. bound \subseteq Accounts
    BY DEF Init
  <2> QED BY <1>2, <2>1, <2>2, <2>3, <2>4 DEF Init, TypeOK
<1> QED BY <1>3 DEF Init, BotInv, UnrecordedIsUnrouted, HandledOnce, OneDraftPerFlow

LEMMA StepHolds == BotInv /\ [Next]_vars => BotInv'
<1> SUFFICES ASSUME BotInv, [Next]_vars PROVE BotInv'
  OBVIOUS
<1>1. CASE UNCHANGED vars
  BY <1>1 DEF vars, history, tables, BotInv, TypeOK, UnrecordedIsUnrouted, HandledOnce,
              OneDraftPerFlow
<1>2. ASSUME NEW w \in Webhooks, Handle(w) PROVE BotInv'
  BY <1>2, RecordStep, RouteStep, LookupDraftStep, InsertDraftStep, SaveItemStep,
     SaveTotalStep, DecideStep, SaveStep, EndStep DEF Handle
<1> QED BY <1>1, <1>2, SendStep, DeliverStep, FaultStep, AccountStep DEF Next

(* Every variable keeps its type, and a request is about an update that     *)
(* was sent, whichever deliveries overlap.                                 *)
THEOREM TypeCorrect == Spec => []TypeOK
<1>1. BotInv => TypeOK
  BY DEF BotInv
<1> QED BY InitHolds, StepHolds, <1>1, PTL DEF Spec

(* However often Telegram delivers an update and however deliveries         *)
(* overlap, the bot acts on it at most once.                               *)
THEOREM UpdatesRunOnce == Spec => []HandledOnce
<1>1. BotInv => HandledOnce
  BY DEF BotInv
<1> QED BY InitHolds, StepHolds, <1>1, PTL DEF Spec

(* A finance conversation creates at most one transaction, also when two    *)
(* handlers answer its last question together or it is left open by an      *)
(* error.                                                                  *)
THEOREM FlowsDraftOnce == Spec => []OneDraftPerFlow
<1>1. BotInv => OneDraftPerFlow
  BY DEF BotInv
<1> QED BY InitHolds, StepHolds, <1>1, PTL DEF Spec

-----------------------------------------------------------------------------
(* Items of houses. *)

Busy(w) == handler[w].pc \notin {"idle", "record"}

(* Unless one update was begun while another was handled, one handler works *)
(* at a time.                                                              *)
OneAtATime == overlapped \/ \A v, w \in Webhooks : Busy(v) /\ Busy(w) => v = w

(* A conversation about an item is about a house. *)
Noted(c) == c # None /\ c.state \in {"AMOUNT_STATUS", "NOTE"} => c.house \in Houses

HousesAreNoted ==
  /\ \A a \in Accounts : Noted(conversation[a])
  /\ \A w \in Webhooks : handler[w].pc = "save" => Noted(handler[w].next)

(* What is about to be written was looked for. *)
ItemIsNew ==
  \A w \in Webhooks : handler[w].pc = "item" =>
    /\ handler[w].next.house \in Houses
    /\ overlapped \/ items[handler[w].next.house] = 0

ItemInv == BotInv /\ OneAtATime /\ HousesAreNoted /\ ItemIsNew /\ HouseRecordedOnce

LEMMA ItemInit == Init => ItemInv
<1> SUFFICES ASSUME Init PROVE ItemInv
  OBVIOUS
<1>1. \A w \in Webhooks : handler[w].pc = "idle"
  BY IdleIsRequest DEF Init
<1>2. \A c \in Begun : Noted(c)
  BY DEF Begun, Noted, In
<1> QED BY <1>1, <1>2, InitHolds
        DEF Init, ItemInv, OneAtATime, Busy, HousesAreNoted, ItemIsNew, HouseRecordedOnce

(* A step of one handler, when it has nothing to do with items.             *)
LEMMA HandlerGoesOn ==
  ASSUME ItemInv, BotInv', NEW w \in Webhooks,
         \A v \in Webhooks : v # w => handler'[v] = handler[v],
         Busy(w)' => Busy(w) \/ overlapped' \/ \A v \in Webhooks : v # w => ~Busy(v),
         overlapped => overlapped',
         items' = items,
         \A a \in Accounts : Noted(conversation'[a]),
         handler'[w].pc = "save" => Noted(handler'[w].next),
         handler'[w].pc = "item" =>
           handler'[w].next.house \in Houses /\ items[handler'[w].next.house] = 0
  PROVE  ItemInv'
<1> USE DEF ItemInv
<1>1. OneAtATime'
  BY DEF OneAtATime, Busy
<1>2. HousesAreNoted'
  BY DEF HousesAreNoted, Noted
<1>3. ItemIsNew'
  BY DEF ItemIsNew
<1>4. HouseRecordedOnce'
  BY DEF HouseRecordedOnce
<1> QED BY <1>1, <1>2, <1>3, <1>4

(* The same, when the conversations stay, too, and the handler was busy.    *)
LEMMA BusyGoesOn ==
  ASSUME ItemInv, BotInv', NEW w \in Webhooks, Busy(w),
         \A v \in Webhooks : v # w => handler'[v] = handler[v],
         UNCHANGED <<overlapped, items, conversation>>,
         handler'[w].pc = "save" => Noted(handler'[w].next),
         handler'[w].pc # "item"
  PROVE  ItemInv'
BY HandlerGoesOn DEF ItemInv, HousesAreNoted

(* What a handler that goes on leaves. *)
LEMMA HandlerAfter ==
  ASSUME ItemInv, NEW w \in Webhooks,
         NEW pc, NEW c
  PROVE  /\ Goto(w, pc) => /\ handler'[w].pc = pc
                           /\ \A v \in Webhooks : v # w => handler'[v] = handler[v]
         /\ GoSave(w, c) => /\ handler'[w].pc = "save" /\ handler'[w].next = c
                            /\ \A v \in Webhooks : v # w => handler'[v] = handler[v]
         /\ handler' = [handler EXCEPT ![w].pc = pc, ![w].next = c] =>
              /\ handler'[w].pc = pc /\ handler'[w].next = c
              /\ \A v \in Webhooks : v # w => handler'[v] = handler[v]
BY DEF ItemInv, BotInv, TypeOK, Requests, Goto, GoSave

LEMMA PlainAreNoted ==
  /\ Noted(None) /\ Noted(Menu)
  /\ \A state, flow : state \notin {"AMOUNT_STATUS", "NOTE"} => Noted(In(state, flow, None))
  /\ \A x \in Houses : Noted(In("AMOUNT_STATUS", 0, x))
BY DEF Noted, Menu, In

LEMMA RouteItems ==
  ASSUME ItemInv, BotInv', NEW w \in Webhooks, Route(w)
  PROVE  ItemInv'
<1>1. /\ handler[w].pc = "route" /\ Busy(w)
      /\ UNCHANGED <<overlapped, items, conversation>>
      /\ AccountOf(w) \in Accounts
      /\ conversation[AccountOf(w)] \in Conversations
  <2>1. Routing(w)
    BY DEF Route, RouteBind, RouteNowhere, RouteWrong, RouteCommand, RouteFinance,
           RouteJimpitan, RouteApproval
  <2>2. AccountOf(w) \in Accounts
    BY <2>1, IdleIsRequest DEF Routing, ItemInv, BotInv, TypeOK, AccountOf, Messages
  <2> QED BY <2>1, <2>2 DEF Routing, ItemInv, BotInv, TypeOK, Busy, history, tables
<1>2. ASSUME NEW pc \in Steps \ {"save", "item"}, Goto(w, pc) PROVE ItemInv'
  BY <1>1, <1>2, HandlerAfter, BusyGoesOn
<1>3. ASSUME NEW c, GoSave(w, c), Noted(c) PROVE ItemInv'
  BY <1>1, <1>3, HandlerAfter, BusyGoesOn
<1>4. CASE RouteBind(w) \/ RouteNowhere(w) \/ RouteWrong(w) \/ RouteApproval(w)
  <2>1. GoSave(w, Menu) \/ Goto(w, "reply") \/ Goto(w, "fail") \/ Goto(w, "decide")
    BY <1>4 DEF RouteBind, RouteNowhere, RouteWrong, RouteApproval
  <2> QED BY <1>2, <1>3, <2>1, PlainAreNoted DEF Steps
<1>5. CASE RouteCommand(w)
  <2>1. \/ GoSave(w, Menu) \/ GoSave(w, None) \/ Goto(w, "reply")
        \/ GoSave(w, In("SELECT_SESSION", 0, None))
        \/ GoSave(w, In("SELECT_CATEGORY", flows + 1, None))
        \/ GoSave(w, In("APPROVAL_ACTION", 0, None))
    BY <1>5 DEF RouteCommand
  <2> QED BY <1>2, <1>3, <2>1, PlainAreNoted DEF Steps
<1>6. CASE RouteFinance(w)
  <2>1. PICK c \in Conversations : c = conversation[AccountOf(w)] /\ c # None
    BY <1>1, <1>6 DEF RouteFinance, Continues
  <2>2. \/ GoSave(w, [c EXCEPT !.state = "AMOUNT"])
        \/ GoSave(w, [c EXCEPT !.state = "DESCRIPTION"])
        \/ handler' = [handler EXCEPT ![w].pc = "lookup", ![w].next = c]
    BY <1>6, <2>1 DEF RouteFinance
  <2>3. Noted([c EXCEPT !.state = "AMOUNT"]) /\ Noted([c EXCEPT !.state = "DESCRIPTION"])
    BY <2>1 DEF Noted, Conversations
  <2>4. CASE handler' = [handler EXCEPT ![w].pc = "lookup", ![w].next = c]
    <3>1. handler'[w].pc = "lookup" /\ \A v \in Webhooks : v # w => handler'[v] = handler[v]
      BY <2>4 DEF ItemInv, BotInv, TypeOK, Requests
    <3> QED BY <1>1, <3>1, BusyGoesOn
  <2> QED BY <1>3, <2>2, <2>3, <2>4
<1>7. CASE RouteJimpitan(w)
  <2>1. PICK c \in Conversations : c = conversation[AccountOf(w)] /\ c # None
    BY <1>1, <1>7 DEF RouteJimpitan, Continues
  <2>2. \/ \E state \in {"BULK_AMOUNT", "SELECT_HOUSE", "BULK_NOTE"} :
             GoSave(w, In(state, 0, None))
        \/ Goto(w, "total") \/ Goto(w, "reply")
        \/ \E x \in Houses : GoSave(w, In("AMOUNT_STATUS", 0, x))
        \/ c.state = "AMOUNT_STATUS" /\ GoSave(w, [c EXCEPT !.state = "NOTE"])
        \/ /\ c.state = "NOTE" /\ ~(items[c.house] > 0)
           /\ handler' = [handler EXCEPT ![w].pc = "item", ![w].next = c]
    BY <1>7, <2>1 DEF RouteJimpitan, At, IsRecorded
  <2>3. Noted(c)
    BY <1>1, <2>1 DEF ItemInv, HousesAreNoted
  <2>4. CASE c.state = "AMOUNT_STATUS" /\ GoSave(w, [c EXCEPT !.state = "NOTE"])
    <3>1. Noted([c EXCEPT !.state = "NOTE"])
      BY <2>1, <2>3, <2>4 DEF Noted, Conversations
    <3> QED BY <1>3, <2>4, <3>1
  <2>5. CASE /\ c.state = "NOTE" /\ ~(items[c.house] > 0)
             /\ handler' = [handler EXCEPT ![w].pc = "item", ![w].next = c]
    <3>1. c.house \in Houses
      BY <2>1, <2>3, <2>5 DEF Noted
    <3>2. items[c.house] = 0
      BY <2>5, <3>1 DEF ItemInv, BotInv, TypeOK
    <3>3. /\ handler'[w].pc = "item" /\ handler'[w].next = c
          /\ \A v \in Webhooks : v # w => handler'[v] = handler[v]
      BY <2>5 DEF ItemInv, BotInv, TypeOK, Requests
    <3> QED BY <1>1, <3>1, <3>2, <3>3, HandlerGoesOn DEF ItemInv, HousesAreNoted
  <2> QED BY <1>2, <1>3, <2>2, <2>4, <2>5, PlainAreNoted DEF Steps
<1> QED BY <1>4, <1>5, <1>6, <1>7 DEF Route

LEMMA SaveItemItems ==
  ASSUME ItemInv, BotInv', NEW w \in Webhooks, SaveItem(w)
  PROVE  ItemInv'
<1> DEFINE x == handler[w].next.house
<1>1. /\ items' = [items EXCEPT ![x] = items[x] + 1]
      /\ UNCHANGED <<overlapped, conversation>> /\ handler[w].pc = "item"
  BY DEF SaveItem, history
<1>2. /\ handler'[w].pc = "save" /\ Noted(handler'[w].next)
      /\ \A v \in Webhooks : v # w => handler'[v] = handler[v]
  <2>1. GoSave(w, None) \/ GoSave(w, In("SELECT_HOUSE", 0, None))
    BY DEF SaveItem
  <2>2. Noted(None) /\ Noted(In("SELECT_HOUSE", 0, None))
    BY PlainAreNoted
  <2> QED BY <2>1, <2>2, HandlerAfter
<1>3. OneAtATime' /\ HousesAreNoted'
  BY <1>1, <1>2 DEF ItemInv, OneAtATime, Busy, HousesAreNoted, Noted
<1>4. \A v \in Webhooks : v # w /\ handler[v].pc = "item" => overlapped
  BY <1>1 DEF ItemInv, OneAtATime, Busy
<1>5. ItemIsNew'
  BY <1>1, <1>2, <1>4 DEF ItemInv, ItemIsNew
<1>6. HouseRecordedOnce'
  BY <1>1 DEF ItemInv, ItemIsNew, HouseRecordedOnce, BotInv, TypeOK
<1> QED BY <1>3, <1>5, <1>6 DEF ItemInv

LEMMA HandleItems ==
  ASSUME ItemInv, BotInv', NEW w \in Webhooks, Handle(w)
  PROVE  ItemInv'
<1>1. CASE Record(w)
  <2>1. handler[w].pc = "record" /\ UNCHANGED <<conversation, items>>
    BY <1>1 DEF Record, tables
  <2>2. CASE Answered(w) /\ UNCHANGED history
    <3>1. handler'[w].pc = "idle" /\ \A v \in Webhooks : v # w => handler'[v] = handler[v]
      BY <2>2, IdleIsRequest DEF Answered, ItemInv, BotInv, TypeOK
    <3> QED BY <2>1, <2>2, <3>1, HandlerGoesOn DEF Busy, history, ItemInv, HousesAreNoted
  <2>3. CASE /\ Goto(w, "route")
             /\ overlapped' = (overlapped \/ \E v \in Webhooks \ {w} :
                                 handler[v].pc \notin {"idle", "record"})
    <3>1. handler'[w].pc = "route" /\ \A v \in Webhooks : v # w => handler'[v] = handler[v]
      BY <2>3, HandlerAfter
    <3> QED BY <2>1, <2>3, <3>1, HandlerGoesOn DEF Busy, ItemInv, HousesAreNoted
  <2> QED BY <1>1, <2>2, <2>3 DEF Record
<1>2. CASE LookupDraft(w) \/ InsertDraft(w) \/ SaveTotal(w) \/ Decide(w)
  <2>1. Busy(w) /\ UNCHANGED <<overlapped, items, conversation>>
    BY <1>2 DEF LookupDraft, InsertDraft, SaveTotal, Decide, Busy, history, tables
  <2>2. GoSave(w, None) \/ \E pc \in {"fail", "draft", "reply"} : Goto(w, pc)
    BY <1>2 DEF LookupDraft, InsertDraft, SaveTotal, Decide, Replayed
  <2> QED BY <2>1, <2>2, HandlerAfter, PlainAreNoted, BusyGoesOn
<1>3. CASE Save(w)
  <2>1. /\ handler[w].pc = "save" /\ UNCHANGED <<overlapped, items>>
        /\ handler'[w].pc = "reply" /\ \A v \in Webhooks : v # w => handler'[v] = handler[v]
    BY <1>3, HandlerAfter DEF Save, history, tables
  <2>2. \A a \in Accounts : conversation'[a] = conversation[a] \/ conversation'[a] = handler[w].next
    BY <1>3 DEF Save, ItemInv, BotInv, TypeOK
  <2>3. \A a \in Accounts : Noted(conversation'[a])
    BY <2>1, <2>2 DEF ItemInv, HousesAreNoted
  <2> QED BY <2>1, <2>3, HandlerGoesOn DEF Busy
<1>4. CASE Finish(w) \/ Fail(w)
  <2>1. Busy(w) /\ UNCHANGED <<overlapped, items, conversation>> /\ Answered(w)
    BY <1>4 DEF Finish, Fail, Busy, history, tables
  <2>2. handler'[w].pc = "idle" /\ \A v \in Webhooks : v # w => handler'[v] = handler[v]
    BY <2>1, IdleIsRequest DEF Answered, ItemInv, BotInv, TypeOK
  <2> QED BY <2>1, <2>2, BusyGoesOn
<1> QED BY <1>1, <1>2, <1>3, <1>4, RouteItems, SaveItemItems DEF Handle

LEMMA ItemNext == ItemInv /\ [Next]_vars => ItemInv'
<1> SUFFICES ASSUME ItemInv, [Next]_vars PROVE ItemInv'
  OBVIOUS
<1>1. BotInv'
  BY StepHolds DEF ItemInv
<1>2. ASSUME UNCHANGED <<handler, overlapped, items>>,
             \A a \in Accounts : Noted(conversation[a]) => Noted(conversation'[a])
      PROVE  ItemInv'
  BY <1>1, <1>2 DEF ItemInv, OneAtATime, Busy, HousesAreNoted, ItemIsNew, HouseRecordedOnce
<1>3. CASE UNCHANGED vars
  BY <1>2, <1>3 DEF vars
<1>4. ASSUME NEW u \in Ids, NEW a \in Accounts, NEW input \in Inputs, Send(u, a, input)
      PROVE  ItemInv'
  BY <1>2, <1>4 DEF Send, history, tables
<1>5. ASSUME NEW a \in Accounts, ExpireConversation(a) PROVE ItemInv'
  <2>1. PICK c \in Conversations : c = conversation[a] /\ c # None
    BY <1>5 DEF ExpireConversation, ItemInv, BotInv, TypeOK
  <2>2. Noted(c) => Noted([c EXCEPT !.expired = TRUE])
    BY <2>1 DEF Noted, Conversations
  <2>3. conversation' = [conversation EXCEPT ![a] = [c EXCEPT !.expired = TRUE]]
    BY <1>5, <2>1 DEF ExpireConversation
  <2>4. \A b \in Accounts : Noted(conversation[b]) => Noted(conversation'[b])
    BY <2>1, <2>2, <2>3 DEF ItemInv, BotInv, TypeOK
  <2> QED BY <1>2, <1>5, <2>4 DEF ExpireConversation, history, tables
<1>6. ASSUME NEW a \in Accounts, Unbind(a) PROVE ItemInv'
  BY <1>2, <1>6 DEF Unbind, history, tables
<1>7. ASSUME NEW w \in Webhooks, NEW u \in Ids, Deliver(w, u) PROVE ItemInv'
  <2>1. UNCHANGED <<overlapped, items, conversation>>
    BY <1>7 DEF Deliver, history, tables
  <2>2. handler'[w].pc = "record" /\ \A v \in Webhooks : v # w => handler'[v] = handler[v]
    BY <1>7 DEF Deliver, ItemInv, BotInv, TypeOK, Idle
  <2> QED BY <1>1, <2>1, <2>2, HandlerGoesOn DEF Busy, ItemInv, HousesAreNoted
<1>8. ASSUME NEW w \in Webhooks, Refused(w) \/ Crash(w) PROVE ItemInv'
  <2>1. UNCHANGED <<overlapped, items, conversation>>
    BY <1>8 DEF Refused, Crash, history, tables
  <2>2. /\ \A v \in Webhooks : v # w => handler'[v] = handler[v]
        /\ handler'[w].pc = "idle" \/ (Busy(w) /\ handler'[w].pc = "fail")
    <3>1. CASE Refused(w)
      BY <3>1, HandlerAfter DEF Refused, Busy
    <3>2. CASE Crash(w)
      BY <3>2, IdleIsRequest DEF Crash, ItemInv, BotInv, TypeOK
    <3> QED BY <1>8, <3>1, <3>2
  <2> QED BY <1>1, <2>1, <2>2, HandlerGoesOn DEF Busy, ItemInv, HousesAreNoted
<1> QED BY <1>1, <1>3, <1>4, <1>5, <1>6, <1>7, <1>8, HandleItems DEF Next

(* Of updates that are handled one after the other, whichever of them fail  *)
(* or die on the way, no two write the item of the same house.              *)
THEOREM HousesAreRecordedOnce == Spec => []HouseRecordedOnce
<1>1. ItemInv => HouseRecordedOnce
  BY DEF ItemInv
<1> QED BY ItemInit, ItemNext, <1>1, PTL DEF Spec
=============================================================================
