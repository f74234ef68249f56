-------------------------------- MODULE Bot --------------------------------
(***************************************************************************)
(* The Telegram bot's webhook: apps/api/src/modules/telegram.  Telegram    *)
(* delivers an update until it gets an answer, and several at once; each   *)
(* delivery is a request of its own.  An update is recorded under its      *)
(* unique id, then routed by the conversation its account is in, and what  *)
(* it does, what becomes of the conversation and that it was processed are *)
(* commits one after the other.  Accounts are bound in one RT.             *)
(***************************************************************************)
EXTENDS Naturals, FiniteSets

CONSTANTS
  Accounts,
  Houses,     (* the houses of the PER_HOUSE collection the bot offers *)
  Webhooks,   (* deliveries that are handled at the same time *)
  MaxUpdates, (* bound on the updates *)
  MaxFlows,   (* bound on the finance conversations *)
  MaxFaults,  (* bound on crashes, failed replies and services' refusals *)
  None        (* null *)

ASSUME NothingIsNoHouse == None \notin Houses
ASSUME BoundsAreNumbers ==
  MaxUpdates \in Nat /\ MaxFlows \in Nat \ {0} /\ MaxFaults \in Nat

VARIABLES
  sent,         (* what users sent; an update's id is its number *)
  updates,      (* telegram_updates: the status under which each is recorded *)
  runs,         (* history: how often an update was routed *)
  conversation, (* the session setting of each account, or None *)
  bound,        (* accounts that are bound and may do what they ask for *)
  drafts,       (* how many transactions have the key of a conversation *)
  items,        (* how often the bot wrote the item of a house *)
  approval,     (* the approval the bot offers: PENDING, or decided *)
  handler,      (* webhook requests *)
  flows,        (* finance conversations so far *)
  faults,
  crashed,      (* history: updates whose handler died *)
  overlapped    (* history: an update was begun while another was handled *)

vars == <<sent, updates, runs, conversation, bound, drafts, items, approval, handler, flows,
          faults, crashed, overlapped>>

tables == <<drafts, items, approval>>
history == <<runs, crashed, overlapped>>

Ids == 1 .. MaxUpdates
Inputs == {"bind", "menu", "cancel", "finance", "jimpitan", "approval", "text"}
Idle == [pc |-> "idle", update |-> 0, next |-> None]

(* A conversation: its state, the finance flow (or 0) and the house (or    *)
(* None) it is about.                                                      *)
In(state, flow, house) ==
  [state |-> state, flow |-> flow, house |-> house, expired |-> FALSE]
Menu == In("IDLE", 0, None)

AccountOf(w) == sent[handler[w].update].account
Goto(w, pc) == handler' = [handler EXCEPT ![w].pc = pc]

(* The handler is going to save c, or to clear the conversation if it is None. *)
GoSave(w, c) == handler' = [handler EXCEPT ![w].pc = "save", ![w].next = c]

-----------------------------------------------------------------------------
(* Telegram. *)

Send(u, a, input) ==
  /\ sent[u] = None
  /\ \A v \in 1 .. (u - 1) : sent[v] # None
  /\ sent' = [sent EXCEPT ![u] = [account |-> a, input |-> input, open |-> TRUE]]
  /\ UNCHANGED <<updates, history, conversation, bound, tables, handler, flows, faults>>

(* An update is delivered, and again as long as no delivery was answered. *)
Deliver(w, u) ==
  /\ sent[u] # None
  /\ sent[u].open
  /\ handler[w] = Idle
  /\ \A v \in Webhooks : handler[v].update = u => faults < MaxFaults
  /\ handler' = [handler EXCEPT ![w] = [Idle EXCEPT !.pc = "record", !.update = u]]
  /\ UNCHANGED <<sent, updates, history, conversation, bound, tables, flows, faults>>

(* The request ends with an answer, so that Telegram does not try again.   *)
Answered(w) ==
  /\ sent' = [sent EXCEPT ![handler[w].update].open = FALSE]
  /\ handler' = [handler EXCEPT ![w] = Idle]

(* Mutant of IsDuplicate: whatever is not processed yet is taken up again. *)
IsProcessed(u) == updates[u] \in {"PROCESSED", "FAILED"}

(* The unique index on telegramUpdateId *)
IsDuplicate(u) == updates[u] # "NONE"

(* recordIncomingUpdate, after upsertAccount *)
Record(w) ==
  LET u == handler[w].update IN
  /\ handler[w].pc = "record"
  /\ IF IsDuplicate(u)
     THEN Answered(w) /\ UNCHANGED <<updates, history>>
     ELSE /\ updates' = [updates EXCEPT ![u] = "RECEIVED"]
          /\ runs' = [runs EXCEPT ![u] = @ + 1]
          /\ overlapped' = (overlapped \/ \E v \in Webhooks \ {w} :
                               handler[v].pc \notin {"idle", "record"})
          /\ Goto(w, "route")
          /\ UNCHANGED <<sent, crashed>>
  /\ UNCHANGED <<conversation, bound, tables, flows, faults>>

-----------------------------------------------------------------------------
(* routeUpdate: the bindings, the conversation and what the user says.     *)

Routing(w) ==
  /\ handler[w].pc = "route"
  /\ UNCHANGED <<sent, updates, history, conversation, tables, faults>>

Says(w, input) == sent[handler[w].update].input = input

(* getSession: the conversation that goes on, with no command to end it *)
Continues(w) ==
  /\ Says(w, "text")
  /\ conversation[AccountOf(w)] # None
  /\ ~conversation[AccountOf(w)].expired
  /\ conversation[AccountOf(w)].state # "IDLE"

At(w, state) == Continues(w) /\ conversation[AccountOf(w)].state = state

(* getVerifiedContexts and assertAnyPermission, for every update *)
Allowed(w) == AccountOf(w) \in bound

(* bindAccount: the code is verified and used up, or is not valid *)
RouteBind(w) ==
  /\ Routing(w)
  /\ Says(w, "bind")
  /\ \/ bound' = bound \cup {AccountOf(w)} /\ GoSave(w, Menu)
     \/ UNCHANGED bound /\ Goto(w, "reply")
  /\ UNCHANGED flows

(* No binding, no conversation to go on with, or nothing to offer in one.  *)
RouteNowhere(w) ==
  /\ Routing(w)
  /\ ~Says(w, "bind")
  /\ \/ ~Allowed(w)
     \/ Says(w, "text") /\ ~Continues(w)
     \/ Says(w, "finance") \/ Says(w, "jimpitan")
  /\ Goto(w, "reply")
  /\ UNCHANGED <<bound, flows>>

(* What the user says is no answer to the question. *)
RouteWrong(w) ==
  /\ Routing(w)
  /\ Allowed(w)
  /\ Continues(w)
  /\ Goto(w, "fail")
  /\ UNCHANGED <<bound, flows>>

(* menu, /cancel, startJimpitanFlow, startFinanceFlow, startApprovalFlow *)
RouteCommand(w) ==
  /\ Routing(w)
  /\ Allowed(w)
  /\ \/ Says(w, "menu") /\ GoSave(w, Menu) /\ UNCHANGED flows
     \/ Says(w, "cancel") /\ GoSave(w, None) /\ UNCHANGED flows
     \/ Says(w, "jimpitan") /\ GoSave(w, In("SELECT_SESSION", 0, None)) /\ UNCHANGED flows
     \/ /\ Says(w, "finance")
        /\ flows < MaxFlows
        /\ flows' = flows + 1
        /\ GoSave(w, In("SELECT_CATEGORY", flows + 1, None))
     \/ /\ Says(w, "approval")
        /\ IF approval = "PENDING" THEN GoSave(w, In("APPROVAL_ACTION", 0, None))
           ELSE Goto(w, "reply")
        /\ UNCHANGED flows
  /\ UNCHANGED bound

(* continueSession of a finance conversation *)
RouteFinance(w) ==
  /\ Routing(w)
  /\ Allowed(w)
  /\ Continues(w)
  /\ LET c == conversation[AccountOf(w)] IN
     \/ At(w, "SELECT_CATEGORY") /\ GoSave(w, [c EXCEPT !.state = "AMOUNT"])
     \/ At(w, "AMOUNT") /\ GoSave(w, [c EXCEPT !.state = "DESCRIPTION"])
     \/ /\ At(w, "DESCRIPTION")
        /\ handler' = [handler EXCEPT ![w].pc = "lookup", ![w].next = c]
  /\ UNCHANGED <<bound, flows>>

(* Mutant of IsRecorded: the list of houses was right when it was shown. *)
IsRecordedNever(x) == x = None

(* getChecklist: the house has an item *)
IsRecorded(x) == items[x] > 0

(* continueSession of a jimpitan conversation *)
RouteJimpitan(w) ==
  /\ Routing(w)
  /\ Allowed(w)
  /\ Continues(w)
  /\ LET c == conversation[AccountOf(w)] IN
     \/ /\ At(w, "SELECT_SESSION")
        /\ \E state \in {"BULK_AMOUNT", "SELECT_HOUSE"} : GoSave(w, In(state, 0, None))
     \/ At(w, "BULK_AMOUNT") /\ GoSave(w, In("BULK_NOTE", 0, None))
     \/ At(w, "BULK_NOTE") /\ Goto(w, "total")
     \/ /\ At(w, "SELECT_HOUSE")
        /\ \E x \in Houses : IF IsRecorded(x) THEN Goto(w, "reply")
                             ELSE GoSave(w, In("AMOUNT_STATUS", 0, x))
     \/ At(w, "AMOUNT_STATUS") /\ GoSave(w, [c EXCEPT !.state = "NOTE"])
     \/ /\ At(w, "NOTE")
        /\ IF IsRecorded(c.house) THEN Goto(w, "reply")
           ELSE handler' = [handler EXCEPT ![w].pc = "item", ![w].next = c]
  /\ UNCHANGED <<bound, flows>>

(* decideApproval, which leaves the conversation where it is *)
RouteApproval(w) ==
  /\ Routing(w)
  /\ Allowed(w)
  /\ At(w, "APPROVAL_ACTION")
  /\ Goto(w, "decide")
  /\ UNCHANGED <<bound, flows>>

Route(w) ==
  \/ RouteBind(w)
  \/ RouteNowhere(w)
  \/ RouteWrong(w)
  \/ RouteCommand(w)
  \/ RouteFinance(w)
  \/ RouteJimpitan(w)
  \/ RouteApproval(w)

-----------------------------------------------------------------------------
(* The services' commits. *)

(* createTransactionDraft's look at the idempotency key.  A replay with     *)
(* another description is refused.                                          *)
Replayed(w) == GoSave(w, None) \/ Goto(w, "fail")

LookupDraft(w) ==
  /\ handler[w].pc = "lookup"
  /\ IF drafts[handler[w].next.flow] > 0 THEN Replayed(w) ELSE Goto(w, "draft")
  /\ UNCHANGED <<sent, updates, history, conversation, bound, tables, flows, faults>>

(* Mutant of KeyIsTaken: no unique index on transactions' keys. *)
KeyIsFree(flow) == FALSE

(* The unique index on (rtId, idempotencyKey) *)
KeyIsTaken(flow) == drafts[flow] > 0

(* createTransactionDraft's insert: the flow is in the idempotency key.    *)
InsertDraft(w) ==
  LET flow == handler[w].next.flow IN
  /\ handler[w].pc = "draft"
  /\ IF KeyIsTaken(flow)
     THEN Replayed(w) /\ UNCHANGED drafts
     ELSE GoSave(w, None) /\ drafts' = [drafts EXCEPT ![flow] = @ + 1]
  /\ UNCHANGED <<sent, updates, history, conversation, bound, items, approval, flows, faults>>

(* saveJimpitanItem: upsertCollectionItems and the houses that remain *)
SaveItem(w) ==
  /\ handler[w].pc = "item"
  /\ items' = [items EXCEPT ![handler[w].next.house] = @ + 1]
  /\ GoSave(w, IF \A x \in Houses : items'[x] > 0 THEN None
               ELSE In("SELECT_HOUSE", 0, None))
  /\ UNCHANGED <<sent, updates, history, conversation, bound, drafts, approval, flows, faults>>

(* saveBulkJimpitanTotal *)
SaveTotal(w) ==
  /\ handler[w].pc = "total"
  /\ GoSave(w, None)
  /\ UNCHANGED <<sent, updates, history, conversation, bound, tables, flows, faults>>

(* approve and reject: a decided approval is only told of.                 *)
Decide(w) ==
  /\ handler[w].pc = "decide"
  /\ approval' \in IF approval = "PENDING" THEN {"APPROVED", "REJECTED"} ELSE {approval}
  /\ Goto(w, "reply")
  /\ UNCHANGED <<sent, updates, history, conversation, bound, drafts, items, flows, faults>>

-----------------------------------------------------------------------------
(* The end of an update. *)

(* saveSession and clearSession *)
Save(w) ==
  /\ handler[w].pc = "save"
  /\ conversation' = [conversation EXCEPT ![AccountOf(w)] = handler[w].next]
  /\ Goto(w, "reply")
  /\ UNCHANGED <<sent, updates, history, bound, tables, flows, faults>>

(* The replies are sent, markUpdateProcessed *)
Finish(w) ==
  /\ handler[w].pc = "reply"
  /\ updates' = [updates EXCEPT ![handler[w].update] = "PROCESSED"]
  /\ Answered(w)
  /\ UNCHANGED <<history, conversation, bound, tables, flows, faults>>

(* Mutant of Fail: the error is told to the user only. *)
FailUnmarked(w) ==
  /\ handler[w].pc = "fail"
  /\ Answered(w)
  /\ UNCHANGED <<updates, history, conversation, bound, tables, flows, faults>>

(* The error is told to the user, markUpdateFailed *)
Fail(w) ==
  /\ handler[w].pc = "fail"
  /\ updates' = [updates EXCEPT ![handler[w].update] = "FAILED"]
  /\ Answered(w)
  /\ UNCHANGED <<history, conversation, bound, tables, flows, faults>>

(* A reply cannot be sent, or a service or the database refuses: the update *)
(* fails whatever it has done already.                                      *)
Refused(w) ==
  /\ handler[w].pc \in {"route", "lookup", "draft", "item", "total", "decide", "save", "reply"}
  /\ faults < MaxFaults
  /\ faults' = faults + 1
  /\ Goto(w, "fail")
  /\ UNCHANGED <<sent, updates, history, conversation, bound, tables, flows>>

(* The process dies, or the message about an error cannot be sent either.  *)
Crash(w) ==
  /\ handler[w] # Idle
  /\ faults < MaxFaults
  /\ faults' = faults + 1
  /\ handler' = [handler EXCEPT ![w] = Idle]
  /\ crashed' = crashed \cup {handler[w].update}
  /\ UNCHANGED <<sent, updates, runs, overlapped, conversation, bound, tables, flows>>

(* Two hours pass, far longer than any handler runs. *)
ExpireConversation(a) ==
  /\ conversation[a] # None
  /\ ~conversation[a].expired
  /\ \A w \in Webhooks : handler[w] # Idle => AccountOf(w) # a
  /\ conversation' = [conversation EXCEPT ![a].expired = TRUE]
  /\ UNCHANGED <<sent, updates, history, bound, tables, handler, flows, faults>>

(* The account's membership, or what its roles permit, is taken away. *)
Unbind(a) ==
  /\ a \in bound
  /\ bound' = bound \ {a}
  /\ UNCHANGED <<sent, updates, history, conversation, tables, handler, flows, faults>>

-----------------------------------------------------------------------------

(* Conversations that earlier updates may have left. *)
Begun ==
  {None, In("SELECT_CATEGORY", 1, None), In("DESCRIPTION", 1, None),
   In("SELECT_SESSION", 0, None), In("BULK_NOTE", 0, None)} \cup {In("NOTE", 0, x) : x \in Houses}

Init ==
  /\ sent = [u \in Ids |-> None]
  /\ updates = [u \in Ids |-> "NONE"]
  /\ runs = [u \in Ids |-> 0]
  /\ conversation \in [Accounts -> Begun]
  /\ \A a, b \in Accounts :
       a # b /\ conversation[a] # None /\ conversation[b] # None =>
         conversation[a].flow = 0 \/ conversation[a].flow # conversation[b].flow
  /\ bound \in {{}, Accounts}
  /\ drafts = [f \in 1 .. MaxFlows |-> 0]
  /\ items = [x \in Houses |-> 0]
  /\ approval = "PENDING"
  /\ handler = [w \in Webhooks |-> Idle]
  /\ flows = 1
  /\ faults = 0
  /\ crashed = {}
  /\ overlapped = FALSE

Handle(w) ==
  \/ Record(w)
  \/ Route(w)
  \/ LookupDraft(w)
  \/ InsertDraft(w)
  \/ SaveItem(w)
  \/ SaveTotal(w)
  \/ Decide(w)
  \/ Save(w)
  \/ Finish(w)
  \/ Fail(w)

Next ==
  \/ \E u \in Ids, a \in Accounts, input \in Inputs : Send(u, a, input)
  \/ \E w \in Webhooks : Handle(w) \/ Refused(w) \/ Crash(w) \/ \E u \in Ids : Deliver(w, u)
  \/ \E a \in Accounts : ExpireConversation(a) \/ Unbind(a)

Spec == Init /\ [][Next]_vars

(* A request that has begun runs on: the event loop of the process. *)
FairSpec == Spec /\ \A w \in Webhooks : WF_vars(Handle(w))

-----------------------------------------------------------------------------
(* Properties. *)

States == {"IDLE", "SELECT_SESSION", "SELECT_HOUSE", "AMOUNT_STATUS", "NOTE", "BULK_AMOUNT",
           "BULK_NOTE", "SELECT_CATEGORY", "AMOUNT", "DESCRIPTION", "APPROVAL_ACTION"}
Conversations == [state : States, flow : 0 .. MaxFlows, house : Houses \cup {None},
                  expired : BOOLEAN] \cup {None}

Messages == [account : Accounts, input : Inputs, open : BOOLEAN]
Steps == {"idle", "record", "route", "lookup", "draft", "item", "total", "decide", "save",
          "reply", "fail"}
Requests == [pc : Steps, update : 0 .. MaxUpdates, next : Conversations]

(* What TelegramUpdate, its status and the session settings may hold, and   *)
(* that a request is about an update that was sent.                        *)
TypeOK ==
  /\ sent \in [Ids -> Messages \cup {None}]
  /\ updates \in [Ids -> {"NONE", "RECEIVED", "PROCESSED", "FAILED"}]
  /\ runs \in [Ids -> Nat]
  /\ conversation \in [Accounts -> Conversations]
  /\ bound \subseteq Accounts
  /\ drafts \in [1 .. MaxFlows -> Nat]
  /\ items \in [Houses -> Nat]
  /\ approval \in {"PENDING", "APPROVED", "REJECTED"}
  /\ handler \in [Webhooks -> Requests]
  /\ \A w \in Webhooks :
       handler[w] # Idle => handler[w].update \in Ids /\ sent[handler[w].update] \in Messages
  /\ flows \in 1 .. MaxFlows
  /\ faults \in 0 .. MaxFaults
  /\ crashed \subseteq Ids
  /\ overlapped \in BOOLEAN

(* However often Telegram delivers an update, the bot acts on it once: the *)
(* unique update id decides between deliveries handled at the same time.   *)
HandledOnce == \A u \in Ids : runs[u] <= 1

(* A finance conversation leaves one transaction, also when its last       *)
(* answer comes twice or the conversation is left open by an error after   *)
(* the draft was committed: the flow's idempotency key.                    *)
OneDraftPerFlow == \A f \in 1 .. MaxFlows : drafts[f] <= 1

(* Updates handled one after the other record a house once, also when the  *)
(* conversation is left at the note after the item was committed: the      *)
(* checklist is read again before the item is written.                     *)
HouseRecordedOnce == overlapped \/ \A x \in Houses : items[x] <= 1

(* Every update that is taken up is marked in the end with what came of it, *)
(* also when its handler meets another of its account, unless it dies.     *)
UpdatesAreSettled ==
  \A u \in Ids : updates[u] = "RECEIVED" ~> updates[u] # "RECEIVED" \/ u \in crashed
=============================================================================
