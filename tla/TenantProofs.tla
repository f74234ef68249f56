---------------------------- MODULE TenantProofs ----------------------------
(***************************************************************************)
(* Proofs about the components of an RT, by component, for any number of   *)
(* rows and of requests that overlap.                                      *)
(***************************************************************************)
EXTENDS RegisterProofs, Sequences, FiniteSetTheorems

-----------------------------------------------------------------------------
(* Bindings. *)

(* A code that has bound an account is no setting any more. *)
CodesAreUsedUp ==
  \A c \in Codes : usedBy[c] = {} \/ (codes[c] = None /\ \E a \in Telegrams : usedBy[c] = {a})

BindingInv == B!TypeOK /\ B!OneAccountEach /\ CodesAreUsedUp

LEMMA BindingInit == B!Init => BindingInv
  BY DEF B!Init, BindingInv, B!TypeOK, B!OneAccountEach, CodesAreUsedUp

LEMMA CodeSteps ==
  ASSUME BindingInv, NEW c \in Codes,
         \/ \E m \in Members, x \in B!Someone(Residents) : B!CreateCode(c, m, x)
         \/ B!ExpireCode(c)
         \/ \E a \in Telegrams : B!BeginVerify(a, c)
  PROVE  BindingInv'
<1>1. CASE \E m \in Members, x \in B!Someone(Residents) : B!CreateCode(c, m, x)
  BY <1>1 DEF BindingInv, B!TypeOK, B!OneAccountEach, CodesAreUsedUp, B!CreateCode, B!Coded
<1>2. CASE B!ExpireCode(c)
  <2>1. /\ codes[c] # None
        /\ codes' = [codes EXCEPT ![c] = [codes[c] EXCEPT !.expired = TRUE]]
        /\ UNCHANGED <<active, archived, bindings, verifying, usedBy>>
    BY <1>2 DEF B!ExpireCode
  <2>2. [codes[c] EXCEPT !.expired = TRUE] \in B!Coded
    BY <2>1 DEF BindingInv, B!TypeOK, B!Coded
  <2>3. B!TypeOK' /\ B!OneAccountEach'
    BY <2>1, <2>2 DEF BindingInv, B!TypeOK, B!OneAccountEach
  <2>4. CodesAreUsedUp'
    BY <2>1 DEF BindingInv, CodesAreUsedUp, B!TypeOK
  <2> QED BY <2>3, <2>4 DEF BindingInv
<1>3. CASE \E a \in Telegrams : B!BeginVerify(a, c)
  BY <1>3 DEF BindingInv, B!TypeOK, B!OneAccountEach, CodesAreUsedUp, B!BeginVerify, B!Coded,
              B!Verified
<1> QED BY <1>1, <1>2, <1>3

LEMMA VerifyStep ==
  ASSUME BindingInv, NEW a \in Telegrams, B!EndVerify(a)
  PROVE  BindingInv'
<1> USE NothingIsNobody DEF BindingInv
<1>1. B!TypeOK'
  BY DEF B!TypeOK, B!EndVerify, B!Binding, B!Bound, B!Verified, B!Someone
<1>2. B!OneAccountEach'
  BY DEF B!TypeOK, B!EndVerify, B!OneAccountEach, B!Conflicts, B!Binding, B!Bound, B!Verified
<1>3. CodesAreUsedUp'
  BY DEF B!TypeOK, B!EndVerify, CodesAreUsedUp, B!IsUsedUp, B!Verified
<1> QED BY <1>1, <1>2, <1>3

LEMMA ResidentSteps ==
  ASSUME BindingInv, NEW x \in Residents,
         \/ \E a \in Telegrams : B!BindResident(x, a)
         \/ B!UnbindResident(x)
  PROVE  BindingInv'
<1> USE NothingIsNobody DEF BindingInv
<1>1. CASE \E a \in Telegrams : B!BindResident(x, a)
  <2>1. B!TypeOK'
    BY <1>1 DEF B!TypeOK, B!BindResident, B!Without, B!Binding, B!Bound, B!Someone
  <2>2. B!OneAccountEach'
    BY <1>1 DEF B!TypeOK, B!BindResident, B!OneAccountEach, B!Without, B!Binding, B!Bound
  <2>3. CodesAreUsedUp'
    BY <1>1 DEF B!BindResident, CodesAreUsedUp
  <2> QED BY <2>1, <2>2, <2>3
<1>2. CASE B!UnbindResident(x)
  BY <1>2 DEF B!TypeOK, B!UnbindResident, B!OneAccountEach, CodesAreUsedUp, B!Without, B!Bound
<1> QED BY <1>1, <1>2

LEMMA BindingNext == BindingInv /\ [B!Next]_binding => BindingInv'
<1> SUFFICES ASSUME BindingInv, [B!Next]_binding PROVE BindingInv'
  OBVIOUS
<1>1. ASSUME NEW x \in Residents, B!ArchiveResident(x) \/ B!ReactivateResident(x)
      PROVE  BindingInv'
  BY <1>1 DEF BindingInv, B!TypeOK, B!OneAccountEach, CodesAreUsedUp, B!ArchiveResident,
              B!ReactivateResident
<1>2. ASSUME NEW m \in Members, NEW status \in BOOLEAN, B!SetActive(m, status)
      PROVE  BindingInv'
  BY <1>2 DEF BindingInv, B!TypeOK, B!OneAccountEach, CodesAreUsedUp, B!SetActive
<1>3. CASE UNCHANGED binding
  BY <1>3 DEF BindingInv, B!TypeOK, B!OneAccountEach, CodesAreUsedUp, binding
<1> QED BY <1>1, <1>2, <1>3, CodeSteps, VerifyStep, ResidentSteps DEF B!Next

(* A member and a resident speak through one Telegram account each, however *)
(* many accounts verify codes of one member at the same time.              *)
THEOREM OneAccount == Spec => []OneAccountEach
<1>1. Init => BindingInv
  BY BindingInit DEF Init
<1>2. BindingInv /\ [Next]_vars => BindingInv'
  BY BindingNext DEF Next, vars
<1>3. BindingInv => OneAccountEach
  BY DEF BindingInv, OneAccountEach
<1> QED BY <1>1, <1>2, <1>3, PTL DEF Spec

(* A code binds one account, also when two send it at the same time.       *)
THEOREM CodesBindOnce == Spec => []B!CodeBindsOnce
<1>1. Init => BindingInv
  BY BindingInit DEF Init
<1>2. BindingInv /\ [Next]_vars => BindingInv'
  BY BindingNext DEF Next, vars
<1>3. BindingInv => B!CodeBindsOnce
  <2> SUFFICES ASSUME BindingInv, NEW c \in Codes PROVE B!Cardinality(usedBy[c]) <= 1
    BY DEF B!CodeBindsOnce
  <2>1. B!Cardinality(usedBy[c]) = Cardinality(usedBy[c])
    BY DEF B!Cardinality, Cardinality
  <2>2. usedBy[c] = {} \/ \E a \in Telegrams : usedBy[c] = {a}
    BY DEF BindingInv, CodesAreUsedUp
  <2>3. Cardinality(usedBy[c]) \in {0, 1}
    BY <2>2, FS_EmptySet, FS_Singleton
  <2> QED BY <2>1, <2>3
<1> QED BY <1>1, <1>2, <1>3, PTL DEF Spec

(* What is done to residents does not touch the account of a member who is *)
(* bound without a resident.                                               *)
THEOREM MembersKeepAccounts == Spec => B!MembersKeepTheirAccount
<1> DEFINE Kept ==
      \A a \in Telegrams :
        bindings[a] # None /\ bindings[a].resident = None /\ bindings'[a] # bindings[a] =>
          verifying[a] # None /\ verifying'[a] = None
<1>1. Init => BindingInv
  BY BindingInit DEF Init
<1>2. BindingInv /\ [Next]_vars => BindingInv'
  BY BindingNext DEF Next, vars
<1>3. BindingInv /\ [Next]_vars => [Kept]_(B!vars)
  <2> SUFFICES ASSUME BindingInv, B!Next PROVE Kept
    BY DEF Next, vars, B!vars, houses, binding, members, content, pictures
  <2> USE NothingIsNobody DEF BindingInv, B!TypeOK
  <2>1. ASSUME NEW a \in Telegrams, B!EndVerify(a) PROVE Kept
    BY <2>1 DEF B!EndVerify
  <2>2. ASSUME NEW a \in Telegrams, NEW x \in Residents, B!BindResident(x, a) PROVE Kept
    BY <2>2 DEF B!BindResident, B!Without, B!IsBindable
  <2>3. ASSUME NEW x \in Residents, B!UnbindResident(x) PROVE Kept
    BY <2>3 DEF B!UnbindResident, B!Without
  <2>4. ASSUME UNCHANGED bindings PROVE Kept
    BY <2>4
  <2> QED BY <2>1, <2>2, <2>3, <2>4 DEF B!Next, B!CreateCode, B!ExpireCode, B!BeginVerify,
              B!ArchiveResident, B!ReactivateResident, B!SetActive
<1> QED BY <1>1, <1>2, <1>3, PTL DEF Spec, B!MembersKeepTheirAccount

-----------------------------------------------------------------------------
(* Posts and reactions. *)

Reacts(r) == editing[r].pc \in {"react", "mirror"}

(* The reactions to a post as they will be when a transaction commits. *)
RowsAfter(r) ==
  [rows[editing[r].post] EXCEPT ![editing[r].visitor] = editing[r].new]

CountOf(reactions) == C!Cardinality({v \in Visitors : reactions[v] # None})

(* Where no reactions overlapped, one request at most has to do with a      *)
(* post, and what it is going to write as its count is right.               *)
MirrorIsReady ==
  \A r \in Requests : Reacts(r) =>
    /\ posts[editing[r].post] # None
    /\ editing[r].post \notin hurried =>
         /\ \A s \in Requests : Reacts(s) /\ editing[s].post = editing[r].post => s = r
         /\ editing[r].pc = "mirror" => editing[r].count = CountOf(RowsAfter(r))

(* Nobody reacts to a post that does not exist. *)
NoPostNoRows == \A p \in Posts : posts[p] = None => \A v \in Visitors : rows[p][v] = None

ContentInv == C!TypeOK /\ C!CountMirrorsRows /\ MirrorIsReady /\ NoPostNoRows

LEMMA SameCardinality == ASSUME NEW S PROVE C!Cardinality(S) = Cardinality(S)
BY DEF C!Cardinality, Cardinality

LEMMA CountsAreCounts ==
  ASSUME NEW S \in SUBSET Visitors
  PROVE  C!Cardinality(S) \in 0 .. C!Cardinality(Visitors)
BY VisitorsAreFinite, SameCardinality, FS_Subset, FS_CardinalityType

(* Counting the others and the visitor is counting all. *)
LEMMA CountOfChanged ==
  ASSUME NEW reactions \in [Visitors -> Reactions \cup {None}], NEW v \in Visitors,
         NEW new \in Reactions \cup {None}
  PROVE  CountOf([reactions EXCEPT ![v] = new]) =
           C!Cardinality({x \in Visitors \ {v} : reactions[x] # None})
             + IF new = None THEN 0 ELSE 1
<1> DEFINE others == {x \in Visitors \ {v} : reactions[x] # None}
           all == {x \in Visitors : [reactions EXCEPT ![v] = new][x] # None}
<1>1. IsFiniteSet(others) /\ v \notin others
  BY VisitorsAreFinite, FS_Subset
<1>2. all = IF new = None THEN others ELSE others \cup {v}
  OBVIOUS
<1>3. Cardinality(others \cup {v}) = Cardinality(others) + 1
  BY <1>1, FS_AddElement
<1>4. Cardinality(others) + 0 = Cardinality(others)
  BY <1>1, FS_CardinalityType
<1>5. C!Cardinality(all) = Cardinality(all) /\ C!Cardinality(others) = Cardinality(others)
  BY SameCardinality
<1> QED BY <1>2, <1>3, <1>4, <1>5 DEF CountOf

LEMMA ContentInit == C!Init => ContentInv
<1> SUFFICES ASSUME C!Init PROVE ContentInv
  OBVIOUS
<1>1. C!TypeOK
  BY DEF C!Init, C!TypeOK, C!Idle, C!Work
<1>2. C!CountMirrorsRows
  BY DEF C!Init, C!CountMirrorsRows
<1>3. MirrorIsReady /\ NoPostNoRows
  BY DEF C!Init, MirrorIsReady, NoPostNoRows, Reacts, C!Idle, C!Work
<1> QED BY <1>1, <1>2, <1>3 DEF ContentInv

(* A step may end reactions as long as it leaves the others as they are.   *)
LEMMA ReactionsGoOn ==
  ASSUME ContentInv, UNCHANGED <<rows, hurried>>,
         \A p \in Posts : posts[p] # None => posts'[p] # None,
         \A s \in Requests : Reacts(s)' => Reacts(s) /\ editing'[s] = editing[s]
  PROVE  MirrorIsReady'
<1> SUFFICES ASSUME NEW r \in Requests, Reacts(r)'
             PROVE  /\ posts'[editing'[r].post] # None
                    /\ editing'[r].post \notin hurried' =>
                         /\ \A s \in Requests :
                              Reacts(s)' /\ editing'[s].post = editing'[r].post => s = r
                         /\ editing'[r].pc = "mirror" =>
                              editing'[r].count = CountOf(RowsAfter(r)')
  BY DEF MirrorIsReady
<1>1. Reacts(r) /\ editing'[r] = editing[r]
  OBVIOUS
<1>2. editing[r].post \in Posts
  BY <1>1 DEF ContentInv, C!TypeOK, C!Idle, C!Work, Reacts
<1>3. RowsAfter(r)' = RowsAfter(r)
  BY <1>1 DEF RowsAfter
<1> QED BY <1>1, <1>2, <1>3 DEF ContentInv, MirrorIsReady

(* Statuses and deletions disturb no reactions. *)
LEMMA PostsAlike ==
  ASSUME ContentInv, C!TypeOK', UNCHANGED <<rows, editing, hurried>>,
         \A p \in Posts : (posts'[p] = None <=> posts[p] = None)
           /\ (posts[p] # None => posts'[p].count = posts[p].count)
  PROVE  ContentInv'
<1>1. C!CountMirrorsRows'
  BY DEF ContentInv, C!CountMirrorsRows, C!TypeOK
<1>2. MirrorIsReady'
  BY ReactionsGoOn DEF ContentInv, C!TypeOK, C!Idle, C!Work, Reacts
<1>3. NoPostNoRows'
  BY DEF ContentInv, NoPostNoRows
<1> QED BY <1>1, <1>2, <1>3 DEF ContentInv

LEMMA PostSteps ==
  ASSUME ContentInv,
         \/ \E p \in Posts, status \in {"PUBLISHED", "ARCHIVED"} : C!SetStatus(p, status)
         \/ \E p \in Posts : C!DeletePost(p)
         \/ \E r \in Requests : C!BeginPost(r)
         \/ \E r \in Requests : C!Crash(r)
         \/ UNCHANGED content
  PROVE  ContentInv'
<1> USE NothingIsNoRow DEF ContentInv, C!TypeOK
<1>1. ASSUME NEW p \in Posts, NEW status \in {"PUBLISHED", "ARCHIVED"}, C!SetStatus(p, status)
      PROVE  ContentInv'
  <2>1. C!TypeOK' /\ \A x \in Posts : posts'[x] = None <=> posts[x] = None
    BY <1>1 DEF C!SetStatus, C!Exists, C!PostRow
  <2>2. \A x \in Posts : posts[x] # None => posts'[x].count = posts[x].count
    BY <1>1 DEF C!SetStatus, C!Exists, C!PostRow
  <2> QED BY <1>1, <2>1, <2>2, PostsAlike DEF C!SetStatus
<1>2. ASSUME NEW p \in Posts, C!DeletePost(p)
      PROVE  ContentInv'
  <2>1. C!TypeOK' /\ \A x \in Posts : posts'[x] = None <=> posts[x] = None
    BY <1>2 DEF C!DeletePost, C!Exists, C!PostRow
  <2>2. \A x \in Posts : posts[x] # None => posts'[x].count = posts[x].count
    BY <1>2 DEF C!DeletePost, C!Exists, C!PostRow
  <2> QED BY <1>2, <2>1, <2>2, PostsAlike DEF C!DeletePost
<1>3. ASSUME NEW r \in Requests, C!BeginPost(r)
      PROVE  ContentInv'
  <2>1. /\ C!TypeOK' /\ UNCHANGED <<posts, rows, hurried>>
        /\ \A s \in Requests \ {r} : editing'[s] = editing[s]
        /\ editing'[r].pc = "insert"
    BY <1>3 DEF C!BeginPost, C!Work
  <2> QED BY <2>1, ReactionsGoOn DEF C!CountMirrorsRows, NoPostNoRows, Reacts
<1>4. ASSUME NEW r \in Requests, C!Crash(r)
      PROVE  ContentInv'
  <2>1. /\ C!TypeOK' /\ UNCHANGED <<posts, rows, hurried>>
        /\ \A s \in Requests \ {r} : editing'[s] = editing[s]
        /\ editing'[r].pc = "idle"
    BY <1>4 DEF C!Crash, C!Done, C!Idle, C!Work
  <2> QED BY <2>1, ReactionsGoOn DEF C!CountMirrorsRows, NoPostNoRows, Reacts
<1>5. CASE UNCHANGED content
  BY <1>5, ReactionsGoOn DEF content, C!CountMirrorsRows, NoPostNoRows, Reacts
<1> QED BY <1>1, <1>2, <1>3, <1>4, <1>5

(* A new post has no reactions yet. *)
LEMMA InsertStep ==
  ASSUME ContentInv, NEW r \in Requests, NEW p \in Posts, C!InsertPost(r, p)
  PROVE  ContentInv'
<1> USE NothingIsNoRow DEF ContentInv
<1>1. CASE C!SlugTaken(editing[r].slug)
  <2>1. /\ UNCHANGED <<posts, rows, hurried>>
        /\ refused' = (refused \/ editing[r].alone)
        /\ editing' = [editing EXCEPT ![r] = C!Idle]
    BY <1>1 DEF C!InsertPost, C!Done
  <2>2. refused' \in BOOLEAN
    BY <2>1
  <2>3. /\ C!TypeOK'
        /\ \A s \in Requests \ {r} : editing'[s] = editing[s]
        /\ editing'[r].pc = "idle"
    <3> HIDE <2>1
    <3>1. /\ UNCHANGED <<posts, rows, hurried>>
          /\ editing' = [editing EXCEPT ![r] = C!Idle]
      BY <2>1
    <3> QED BY <2>2, <3>1 DEF C!TypeOK, C!Idle, C!Work
  <2> QED BY <2>1, <2>3, ReactionsGoOn DEF C!CountMirrorsRows, NoPostNoRows, Reacts
<1>2. CASE ~C!SlugTaken(editing[r].slug)
  <2> DEFINE q == editing[r]
             new == [slug |-> q.slug, status |-> q.status, deleted |-> FALSE, count |-> 0]
  <2>1. /\ q.slug \in 1 .. Suffixes /\ q.status \in {"DRAFT", "PUBLISHED"}
        /\ posts[p] = None
        /\ posts' = [posts EXCEPT ![p] = new]
        /\ UNCHANGED <<rows, hurried, refused>>
    BY <1>2 DEF C!TypeOK, C!InsertPost, C!Idle, C!Work
  <2>2. CountOf(rows[p]) = 0
    <3>1. {v \in Visitors : rows[p][v] # None} = {}
      BY <2>1 DEF NoPostNoRows
    <3> QED BY <3>1, SameCardinality, FS_EmptySet DEF CountOf
  <2>3. new \in C!PostRow
    <3>1. 0 \in 0 .. C!Cardinality(Visitors)
      BY CountsAreCounts, SameCardinality, FS_EmptySet
    <3> QED BY <2>1, <3>1 DEF C!PostRow
  <2>4. \A s \in Requests :
          \/ editing'[s] = editing[s]
          \/ editing'[s].pc \in {"idle", "insert"}
    BY <1>2 DEF C!TypeOK, C!InsertPost, C!Idle, C!Work
  <2>5. C!TypeOK'
    <3>1. posts' \in [Posts -> C!PostRow \cup {None}]
      BY <2>1, <2>3 DEF C!TypeOK
    <3> DEFINE after == [s \in Requests |->
                 IF s = r THEN C!Idle
                 ELSE IF editing[s].pc = "insert" THEN [editing[s] EXCEPT !.alone = FALSE]
                 ELSE editing[s]]
    <3>2. editing' = after
      BY <1>2 DEF C!InsertPost
    <3>3. after \in [Requests -> C!Work]
      <4> SUFFICES ASSUME NEW s \in Requests
                   PROVE  after[s] \in C!Work
        OBVIOUS
      <4> QED BY DEF C!TypeOK, C!Idle, C!Work
    <3> QED BY <2>1, <3>1, <3>2, <3>3 DEF C!TypeOK
  <2>6. C!CountMirrorsRows'
    BY <2>1, <2>2, <2>3 DEF C!TypeOK, C!CountMirrorsRows, CountOf
  <2>7. MirrorIsReady'
    BY <2>1, <2>3, <2>4, ReactionsGoOn DEF C!TypeOK, Reacts
  <2>8. NoPostNoRows'
    BY <2>1, <2>3 DEF C!TypeOK, NoPostNoRows
  <2> QED BY <2>5, <2>6, <2>7, <2>8
<1> QED BY <1>1, <1>2

(* Reactions that begin beside another of the post are hurried. *)
LEMMA BeginReactionStep ==
  ASSUME ContentInv, NEW r \in Requests, NEW p \in Posts, NEW v \in Visitors,
         NEW type \in Reactions, C!BeginReaction(r, p, v, type)
  PROVE  ContentInv'
<1> USE DEF ContentInv
<1>1. /\ UNCHANGED <<posts, rows, refused>>
      /\ editing'[r].pc = "react" /\ editing'[r].post = p
      /\ \A s \in Requests \ {r} : editing'[s] = editing[s]
      /\ posts[p] # None /\ editing[r].pc = "idle"
      /\ hurried \subseteq hurried'
      /\ p \notin hurried' => \A s \in Requests : Reacts(s) => editing[s].post # p
  BY DEF C!TypeOK, C!BeginReaction, C!IsPublic, C!Exists, Reacts, C!Idle, C!Work
<1>2. C!TypeOK'
  <2>1. 0 \in 0 .. C!Cardinality(Visitors)
    BY CountsAreCounts, SameCardinality, FS_EmptySet
  <2> QED BY <2>1 DEF C!TypeOK, C!BeginReaction, C!Work
<1>3. C!CountMirrorsRows' /\ NoPostNoRows'
  BY <1>1 DEF C!CountMirrorsRows, NoPostNoRows
<1>4. MirrorIsReady'
  BY <1>1 DEF MirrorIsReady, Reacts, RowsAfter, CountOf
<1> QED BY <1>2, <1>3, <1>4

(* What is counted is what will be there. *)
LEMMA WriteReactionStep ==
  ASSUME ContentInv, NEW r \in Requests, C!WriteReaction(r)
  PROVE  ContentInv'
<1> USE DEF ContentInv
<1> DEFINE q == editing[r]
           others == {v \in Visitors \ {q.visitor} : rows[q.post][v] # None}
           count == C!Cardinality(others) + IF q.new = None THEN 0 ELSE 1
<1>1. /\ q.pc = "react" /\ q.post \in Posts /\ q.visitor \in Visitors
      /\ q.new \in Reactions \cup {None}
      /\ UNCHANGED <<posts, rows, hurried, refused>>
  BY DEF C!TypeOK, C!WriteReaction, C!Idle, C!Work
<1>2. count = CountOf(RowsAfter(r))
  <2>1. rows[q.post] \in [Visitors -> Reactions \cup {None}]
    BY <1>1 DEF C!TypeOK
  <2>2. CountOf([rows[q.post] EXCEPT ![q.visitor] = q.new]) = count
    BY <1>1, <2>1, CountOfChanged
  <2> QED BY <2>2 DEF RowsAfter
<1>3. count \in 0 .. C!Cardinality(Visitors)
  BY <1>2, CountsAreCounts DEF CountOf
<1>4. \/ editing' = [editing EXCEPT ![r] = C!Idle]
      \/ editing' = [editing EXCEPT ![r].pc = "mirror", ![r].count = count]
  BY DEF C!WriteReaction, C!Done
<1>5. C!TypeOK'
  <2> DEFINE mirror == [q EXCEPT !.pc = "mirror", !.count = count]
  <2>1. C!Idle \in C!Work
    BY DEF C!Work
  <2>2. mirror \in C!Work
    <3>1. q \in [pc : {"react", "mirror"}, post : Posts, visitor : Visitors,
                 count : 0 .. C!Cardinality(Visitors), new : Reactions \cup {None}]
      BY <1>1 DEF C!TypeOK, C!Idle, C!Work
    <3>2. mirror \in [pc : {"react", "mirror"}, post : Posts, visitor : Visitors,
                      count : 0 .. C!Cardinality(Visitors), new : Reactions \cup {None}]
      <4> HIDE DEF q, count
      <4> QED BY <1>3, <3>1
    <3> QED BY <3>2 DEF C!Work
  <2>3. editing' = [editing EXCEPT ![r] = C!Idle] \/ editing' = [editing EXCEPT ![r] = mirror]
    BY <1>4 DEF C!TypeOK
  <2> HIDE DEF mirror
  <2>4. editing' \in [Requests -> C!Work]
    BY <2>1, <2>2, <2>3 DEF C!TypeOK
  <2> QED BY <1>1, <2>4 DEF C!TypeOK
<1>6. C!CountMirrorsRows' /\ NoPostNoRows'
  BY <1>1 DEF C!CountMirrorsRows, NoPostNoRows
<1>7. MirrorIsReady'
  <2>1. /\ \A s \in Requests : Reacts(s)' => Reacts(s) /\ editing'[s].post = editing[s].post
        /\ \A s \in Requests \ {r} : editing'[s] = editing[s]
    BY <1>1, <1>4 DEF C!TypeOK, C!Idle, C!Work, Reacts
  <2>2. Reacts(r)' => editing'[r].count = CountOf(RowsAfter(r)) /\ RowsAfter(r)' = RowsAfter(r)
    BY <1>1, <1>2, <1>4 DEF C!TypeOK, C!Idle, C!Work, Reacts, RowsAfter
  <2>3. \A s \in Requests \ {r} : RowsAfter(s)' = RowsAfter(s)
    BY <1>1, <2>1 DEF RowsAfter
  <2> SUFFICES ASSUME NEW x \in Requests, Reacts(x)'
               PROVE  /\ posts'[editing'[x].post] # None
                      /\ editing'[x].post \notin hurried' =>
                           /\ \A s \in Requests :
                                Reacts(s)' /\ editing'[s].post = editing'[x].post => s = x
                           /\ editing'[x].pc = "mirror" =>
                                editing'[x].count = CountOf(RowsAfter(x)')
    BY DEF MirrorIsReady
  <2> QED BY <1>1, <2>1, <2>2, <2>3 DEF MirrorIsReady
<1> QED BY <1>5, <1>6, <1>7

(* The mirror of the only reaction in progress is the count of all rows.   *)
LEMMA EndReactionStep ==
  ASSUME ContentInv, NEW r \in Requests, C!EndReaction(r)
  PROVE  ContentInv'
<1> USE NothingIsNoRow DEF ContentInv
<1> DEFINE q == editing[r]
<1>1. /\ q.pc = "mirror" /\ q.post \in Posts /\ q.visitor \in Visitors
      /\ q.new \in Reactions \cup {None} /\ q.count \in 0 .. C!Cardinality(Visitors)
      /\ posts[q.post] \in C!PostRow
      /\ rows' = [rows EXCEPT ![q.post] = RowsAfter(r)]
      /\ posts' = [posts EXCEPT ![q.post].count = q.count]
      /\ editing' = [editing EXCEPT ![r] = C!Idle]
      /\ UNCHANGED <<hurried, refused>>
  BY DEF C!TypeOK, C!EndReaction, C!Done, C!Idle, C!Work, MirrorIsReady, Reacts, RowsAfter
<1>2. RowsAfter(r) \in [Visitors -> Reactions \cup {None}]
  BY <1>1 DEF C!TypeOK, RowsAfter
<1>3. C!TypeOK'
  BY <1>1, <1>2 DEF C!TypeOK, C!PostRow, C!Work
<1>4. \A p \in Posts : posts'[p] = None <=> posts[p] = None
  <2>1. /\ posts[q.post] # None /\ posts'[q.post] # None
        /\ \A p \in Posts \ {q.post} : posts'[p] = posts[p]
    BY <1>1, <1>3 DEF C!TypeOK, C!PostRow
  <2> QED BY <2>1
<1>5. C!CountMirrorsRows'
  <2>1. q.post \notin hurried => q.count = CountOf(RowsAfter(r))
    BY <1>1 DEF MirrorIsReady, Reacts
  <2>2. /\ posts'[q.post].count = q.count
        /\ rows'[q.post] = RowsAfter(r)
        /\ \A p \in Posts \ {q.post} : posts'[p] = posts[p] /\ rows'[p] = rows[p]
    BY <1>1 DEF C!TypeOK, C!PostRow
  <2> SUFFICES ASSUME NEW p \in Posts \ hurried', posts'[p] # None
               PROVE  posts'[p].count = CountOf(rows'[p])
    BY DEF C!CountMirrorsRows, CountOf
  <2>3. CASE p = q.post
    BY <1>1, <2>1, <2>2, <2>3
  <2>4. CASE p # q.post
    BY <1>1, <2>2, <2>4 DEF C!CountMirrorsRows, CountOf
  <2> QED BY <2>3, <2>4
<1>6. MirrorIsReady'
  <2>1. \A s \in Requests : Reacts(s)' => s # r /\ Reacts(s) /\ editing'[s] = editing[s]
    BY <1>1 DEF C!TypeOK, C!Idle, C!Work, Reacts
  <2>2. \A s \in Requests : Reacts(s)' => editing[s].post \in Posts /\ editing[s].visitor \in Visitors
    BY <2>1 DEF C!TypeOK, C!Idle, C!Work, Reacts
  <2>3. \A s \in Requests : Reacts(s)' /\ editing[s].post \notin hurried => editing[s].post # q.post
    BY <1>1, <2>1 DEF MirrorIsReady, Reacts
  <2>4. \A s \in Requests : Reacts(s)' /\ editing[s].post \notin hurried =>
          RowsAfter(s)' = RowsAfter(s)
    BY <1>1, <2>1, <2>2, <2>3 DEF C!TypeOK, RowsAfter
  <2> SUFFICES ASSUME NEW x \in Requests, Reacts(x)'
               PROVE  /\ posts'[editing'[x].post] # None
                      /\ editing'[x].post \notin hurried' =>
                           /\ \A s \in Requests :
                                Reacts(s)' /\ editing'[s].post = editing'[x].post => s = x
                           /\ editing'[x].pc = "mirror" =>
                                editing'[x].count = CountOf(RowsAfter(x)')
    BY DEF MirrorIsReady
  <2> QED BY <1>1, <1>4, <2>1, <2>2, <2>4 DEF MirrorIsReady
<1>7. NoPostNoRows'
  BY <1>1, <1>2, <1>4 DEF C!TypeOK, NoPostNoRows
<1> QED BY <1>3, <1>5, <1>6, <1>7

LEMMA ContentNext == ContentInv /\ [C!Next]_content => ContentInv'
BY PostSteps, InsertStep, BeginReactionStep, WriteReactionStep, EndReactionStep DEF C!Next

(* Where reactions to a post do not overlap, the count it shows is right. *)
THEOREM CountsAreMirrored == Spec => []CountMirrorsRows
<1>1. Init => ContentInv
  BY ContentInit DEF Init
<1>2. ContentInv /\ [Next]_vars => ContentInv'
  BY ContentNext DEF Next, vars
<1>3. ContentInv => CountMirrorsRows
  BY DEF ContentInv, CountMirrorsRows
<1> QED BY <1>1, <1>2, <1>3, PTL DEF Spec

(* A request that found its slug free, and beside which no other post was   *)
(* inserted, can only meet a deleted post under it.                        *)
FoundFree ==
  \A r \in Requests : editing[r].pc = "insert" /\ editing[r].alone =>
    \A p \in Posts : posts[p] # None /\ posts[p].slug = editing[r].slug => posts[p].deleted

RefusedForDeleted == refused => \E p \in Posts : posts[p] # None /\ posts[p].deleted

OneSlugEach ==
  \A p, q \in Posts :
    posts[p] # None /\ posts[q] # None /\ posts[p].slug = posts[q].slug => p = q

SlugInv == FoundFree /\ RefusedForDeleted /\ OneSlugEach

(* Posts keep their slugs, what is deleted stays deleted, and requests that *)
(* go on have looked for their slugs before.                               *)
LEMMA SlugsStay ==
  ASSUME SlugInv, refused' = refused,
         \A p \in Posts : posts'[p] # None =>
           /\ posts[p] # None
           /\ posts'[p].slug = posts[p].slug,
         \A p \in Posts : posts[p] # None =>
           /\ posts'[p] # None
           /\ posts[p].deleted => posts'[p].deleted,
         \A s \in Requests : editing'[s].pc = "insert" =>
           editing'[s] = editing[s]
  PROVE  SlugInv'
<1>1. FoundFree'
  BY DEF SlugInv, FoundFree
<1>2. RefusedForDeleted'
  BY DEF SlugInv, RefusedForDeleted
<1>3. OneSlugEach'
  BY DEF SlugInv, OneSlugEach
<1> QED BY <1>1, <1>2, <1>3 DEF SlugInv

LEMMA BeginPostSlug ==
  ASSUME C!TypeOK, SlugInv, NEW r \in Requests, C!BeginPost(r)
  PROVE  SlugInv'
<1>1. PICK n \in 1 .. Suffixes :
        /\ C!FirstFree(n)
        /\ editing'[r].slug = n
        /\ \A s \in Requests \ {r} : editing'[s] = editing[s]
        /\ UNCHANGED <<posts, refused>>
  BY DEF C!BeginPost, C!TypeOK
<1>2. \A p \in Posts : posts[p] # None /\ posts[p].slug = n => posts[p].deleted
  BY <1>1 DEF C!FirstFree, C!SlugExists, C!Exists
<1>3. FoundFree'
  BY <1>1, <1>2 DEF SlugInv, FoundFree
<1> QED BY <1>1, <1>3 DEF SlugInv, RefusedForDeleted, OneSlugEach

LEMMA InsertSlug ==
  ASSUME C!TypeOK, SlugInv, NEW r \in Requests, NEW p \in Posts, C!InsertPost(r, p)
  PROVE  SlugInv'
<1> DEFINE q == editing[r]
<1>1. q.pc = "insert" /\ q.alone \in BOOLEAN /\ posts[p] = None
  BY DEF C!TypeOK, C!InsertPost, C!Idle, C!Work
<1>2. CASE C!SlugTaken(q.slug)
  <2>1. /\ refused' = (refused \/ q.alone) /\ posts' = posts
        /\ editing'[r].pc = "idle"
        /\ \A s \in Requests \ {r} : editing'[s] = editing[s]
    BY <1>2 DEF C!TypeOK, C!InsertPost, C!Done, C!Idle
  <2>2. q.alone => \E x \in Posts : posts[x] # None /\ posts[x].deleted
    BY <1>1, <1>2 DEF C!SlugTaken, SlugInv, FoundFree
  <2>3. RefusedForDeleted'
    BY <1>1, <2>1, <2>2 DEF SlugInv, RefusedForDeleted
  <2> QED BY <2>1, <2>3 DEF SlugInv, FoundFree, OneSlugEach
<1>3. CASE ~C!SlugTaken(q.slug)
  <2>1. /\ refused' = refused
        /\ posts'[p].slug = q.slug
        /\ \A x \in Posts \ {p} : posts'[x] = posts[x]
        /\ \A s \in Requests : editing'[s].pc = "insert" => ~editing'[s].alone
    BY <1>3 DEF C!TypeOK, C!InsertPost, C!Idle, C!Work
  <2>2. FoundFree'
    BY <2>1 DEF FoundFree
  <2>3. RefusedForDeleted'
    BY <1>1, <2>1 DEF SlugInv, RefusedForDeleted
  <2>4. OneSlugEach'
    BY <1>3, <2>1 DEF C!SlugTaken, SlugInv, OneSlugEach
  <2> QED BY <2>2, <2>3, <2>4 DEF SlugInv
<1> QED BY <1>2, <1>3

LEMMA SlugNext == ContentInv /\ SlugInv /\ [C!Next]_content => SlugInv'
<1> SUFFICES ASSUME ContentInv, C!TypeOK, C!TypeOK', SlugInv, [C!Next]_content PROVE SlugInv'
  BY ContentNext DEF ContentInv
<1> USE NothingIsNoRow
<1>1. ASSUME NEW p \in Posts, NEW status \in {"PUBLISHED", "ARCHIVED"}, C!SetStatus(p, status)
      PROVE  SlugInv'
  BY <1>1, SlugsStay DEF C!SetStatus, C!Exists, C!TypeOK, C!PostRow
<1>2. ASSUME NEW p \in Posts, C!DeletePost(p)
      PROVE  SlugInv'
  BY <1>2, SlugsStay DEF C!DeletePost, C!Exists, C!TypeOK, C!PostRow
<1>3. ASSUME NEW r \in Requests, NEW p \in Posts, NEW v \in Visitors, NEW type \in Reactions,
             C!BeginReaction(r, p, v, type)
      PROVE  SlugInv'
  BY <1>3, SlugsStay DEF C!BeginReaction, C!TypeOK
<1>4. ASSUME NEW r \in Requests, C!WriteReaction(r) \/ C!Crash(r)
      PROVE  SlugInv'
  <2>1. /\ UNCHANGED <<posts, refused>>
        /\ \A s \in Requests \ {r} : editing'[s] = editing[s]
        /\ editing'[r].pc \in {"idle", "mirror"}
    <3>1. CASE C!WriteReaction(r)
      BY <3>1 DEF C!WriteReaction, C!Done, C!TypeOK, C!Idle, C!Work
    <3>2. CASE C!Crash(r)
      BY <3>2 DEF C!Crash, C!Done, C!TypeOK, C!Idle
    <3> QED BY <1>4, <3>1, <3>2
  <2> QED BY <2>1, SlugsStay
<1>5. ASSUME NEW r \in Requests, C!EndReaction(r)
      PROVE  SlugInv'
  <2>1. /\ UNCHANGED refused /\ posts' = [posts EXCEPT ![editing[r].post].count = editing[r].count]
        /\ \A s \in Requests : editing'[s].pc = "insert" => editing'[s] = editing[s]
    BY <1>5 DEF C!EndReaction, C!Done, C!TypeOK, C!Idle
  <2>2. editing[r].post \in Posts /\ posts[editing[r].post] \in C!PostRow
    BY <1>5 DEF C!EndReaction, C!TypeOK, C!Idle, C!Work, ContentInv, MirrorIsReady, Reacts
  <2> DEFINE q == editing[r].post
  <2>3. /\ posts'[q] # None
        /\ posts'[q].slug = posts[q].slug /\ posts'[q].deleted = posts[q].deleted
        /\ \A p \in Posts \ {q} : posts'[p] = posts[p]
    <3>1. /\ posts'[q] = [posts[q] EXCEPT !.count = editing[r].count]
          /\ \A p \in Posts \ {q} : posts'[p] = posts[p]
      BY <2>1, <2>2 DEF C!TypeOK
    <3>2. posts'[q].slug = posts[q].slug /\ posts'[q].deleted = posts[q].deleted
      BY <2>2, <3>1 DEF C!PostRow
    <3>3. editing[r].count \in 0 .. C!Cardinality(Visitors)
      BY <1>5 DEF C!EndReaction, C!TypeOK, C!Idle, C!Work
    <3>4. posts'[q] \in C!PostRow
      BY <2>2, <3>1, <3>3 DEF C!PostRow
    <3> QED BY <3>1, <3>2, <3>4
  <2>4. \A p \in Posts :
          /\ posts'[p] = None <=> posts[p] = None
          /\ posts[p] # None => /\ posts'[p].slug = posts[p].slug
                               /\ posts'[p].deleted = posts[p].deleted
    BY <2>2, <2>3
  <2> QED BY <2>1, <2>4, SlugsStay
<1>6. CASE UNCHANGED content
  BY <1>6, SlugsStay DEF content
<1> QED BY <1>1, <1>2, <1>3, <1>4, <1>5, <1>6, BeginPostSlug, InsertSlug DEF C!Next

(* Where no post was inserted beside it, a post is refused for its slug     *)
(* only where a post was deleted: what FreeSlugIsFree of MCContent denies   *)
(* happens for one reason, that the unique index knows no deletedAt and     *)
(* slugExists does.  And no two posts, deleted ones among them, share a slug. *)
THEOREM SlugsAreRefusedForDeleted ==
  Spec => [](OneSlugEach /\ (~C!FreeSlugIsFree => \E p \in Posts : posts[p] # None /\ posts[p].deleted))
<1>1. Init => ContentInv /\ SlugInv
  <2>1. Init => SlugInv
    BY DEF Init, C!Init, C!Idle, SlugInv, FoundFree, RefusedForDeleted, OneSlugEach
  <2> QED BY <2>1, ContentInit DEF Init
<1>2. ContentInv /\ SlugInv /\ [Next]_vars => ContentInv' /\ SlugInv'
  BY ContentNext, SlugNext DEF Next, vars, ContentInv
<1>3. SlugInv =>
        OneSlugEach /\ (~C!FreeSlugIsFree => \E p \in Posts : posts[p] # None /\ posts[p].deleted)
  BY DEF SlugInv, RefusedForDeleted, C!FreeSlugIsFree
<1> QED BY <1>1, <1>2, <1>3, PTL DEF Spec

-----------------------------------------------------------------------------
(* Images and files. *)

At(r, pcs) == upload[r].pc \in pcs

(* An upload has an image of its own, which has no row before the upload   *)
(* ends; its file is there when the row is stored.                         *)
UploadsAreApart ==
  \A r \in Requests : upload[r] \in A!Uploading =>
    /\ images[upload[r].image] = None
    /\ At(r, {"row", "clean"}) => upload[r].image \in files
    /\ \A s \in Requests : upload[s] \in A!Uploading /\ upload[s].image = upload[r].image => s = r

(* What a request unlinks is not shown any more. *)
UnlinkedIsDeleted ==
  \A r \in Requests : At(r, {"unlink"}) =>
    images[upload[r].old] # None /\ images[upload[r].old].status = "DELETED"

FilesAreThere == \A i \in Images : A!IsLive(i) => i \in files

NoFileIsForgotten ==
  \A i \in files \ leaked : ~A!IsLive(i) =>
    \E r \in Requests :
      \/ At(r, {"row", "clean"}) /\ upload[r].image = i
      \/ At(r, {"unlink"}) /\ upload[r].old = i

UploadsCover(r, p) == upload[r] \in A!Uploading /\ upload[r].post = p /\ upload[r].role = "cover"

(* Of a post that is not crowded one upload of a cover, which has taken the *)
(* old one away before it stores the new.                                  *)
OneCover ==
  \A p \in Posts \ crowded :
    /\ \A i, j \in A!Cover(p) : i = j
    /\ \A r, s \in Requests : UploadsCover(r, p) /\ UploadsCover(s, p) => r = s
    /\ \A r \in Requests : UploadsCover(r, p) =>
         \A i \in A!Cover(p) : At(r, {"delete"}) /\ i = upload[r].old

ImageInv ==
  /\ A!TypeOK /\ UploadsAreApart /\ UnlinkedIsDeleted /\ FilesAreThere /\ NoFileIsForgotten
  /\ OneCover

LEMMA ImageInit == A!Init => ImageInv
<1> SUFFICES ASSUME A!Init PROVE ImageInv
  OBVIOUS
<1>1. A!TypeOK
  BY BoundsAreNumbers DEF A!Init, A!TypeOK, A!Idle
<1>2. UploadsAreApart /\ UnlinkedIsDeleted /\ FilesAreThere /\ NoFileIsForgotten /\ OneCover
  BY DEF A!Init, A!Idle, A!Uploading, At, UploadsAreApart, UnlinkedIsDeleted, FilesAreThere,
         NoFileIsForgotten, OneCover, A!IsLive, A!Cover, UploadsCover
<1> QED BY <1>1, <1>2 DEF ImageInv

(* A request that works is a removal or an upload. *)
LEMMA UploadTypes ==
  ASSUME A!TypeOK, NEW r \in Requests
  PROVE  /\ upload[r] \in {A!Idle} \cup A!Removals \cup A!Uploading
         /\ upload[r].pc = "idle" <=> upload[r] = A!Idle
         /\ At(r, {"put", "row", "clean"}) => upload[r] \in A!Uploading
         /\ A!Uploads(r) <=> upload[r] # A!Idle
BY DEF A!TypeOK, A!Idle, A!Removals, A!Uploading, At, A!Uploads

(* Of which posts it becomes known that they are without a cover. *)
LEMMA UncoveredPosts ==
  ASSUME A!TypeOK, NEW r \in Requests
  PROVE  /\ bare \subseteq A!Uncovered(r) /\ A!Uncovered(r) \subseteq Posts
         /\ \A p \in Posts : upload[r].post = p /\ upload[r].role = "cover" /\ ~At(r, {"delete"})
                             => p \in A!Uncovered(r)
BY DEF A!Uncovered, A!TypeOK, At

(* What a request that ends leaves behind: nothing, or what is known to be  *)
(* leaked.                                                                 *)
LEMMA RequestEnds ==
  ASSUME ImageInv, NEW r \in Requests, upload[r] # A!Idle,
         upload' = [upload EXCEPT ![r] = A!Idle],
         UNCHANGED <<existing, images, crowded>>,
         faults' \in 0 .. MaxFaults, leaked \subseteq leaked', leaked' \subseteq Images,
         bare' \subseteq Posts, files' \subseteq files \cup leaked',
         \A i \in files \ files' : \/ At(r, {"clean"}) /\ i = upload[r].image
                                   \/ At(r, {"unlink"}) /\ i = upload[r].old,
         At(r, {"row", "clean"}) => upload[r].image \notin files' \ leaked',
         At(r, {"unlink"}) => upload[r].old \notin files' \ leaked'
  PROVE  ImageInv'
<1> USE DEF ImageInv
<1>1. /\ upload'[r] = A!Idle /\ \A s \in Requests \ {r} : upload'[s] = upload[s]
      /\ upload'[r] \notin A!Uploading /\ upload'[r].pc = "idle"
  BY DEF A!TypeOK, A!Idle, A!Uploading
<1>2. A!TypeOK'
  BY <1>1 DEF A!TypeOK, A!Idle
<1>3. \A i \in files \ files' : ~A!IsLive(i)
  BY UploadTypes DEF UnlinkedIsDeleted, UploadsAreApart, A!IsLive, At
<1>4. ASSUME NEW s \in Requests \ {r}, At(s, {"row", "clean"})
      PROVE  upload[s].image \in files'
  <2>1. upload[s] \in A!Uploading /\ images[upload[s].image] = None /\ upload[s].image \in files
    BY <1>4, UploadTypes DEF UploadsAreApart, At
  <2>2. ~(At(r, {"unlink"}) /\ upload[s].image = upload[r].old)
    BY <2>1 DEF UnlinkedIsDeleted
  <2>3. ~(At(r, {"clean"}) /\ upload[s].image = upload[r].image)
    BY <2>1, UploadTypes DEF UploadsAreApart, At
  <2> QED BY <2>1, <2>2, <2>3
<1>5. UploadsAreApart'
  BY <1>1, <1>4 DEF UploadsAreApart, At
<1>6. UnlinkedIsDeleted' /\ FilesAreThere'
  BY <1>1, <1>3 DEF UnlinkedIsDeleted, FilesAreThere, At, A!IsLive
<1>7. NoFileIsForgotten'
  BY <1>1 DEF NoFileIsForgotten, At, A!IsLive
<1>8. OneCover'
  <2>1. \A p \in Posts : A!Cover(p)' = A!Cover(p)
    BY DEF A!Cover, A!IsLive
  <2>2. \A p \in Posts, s \in Requests : UploadsCover(s, p)' =>
          UploadsCover(s, p) /\ upload'[s] = upload[s]
    BY <1>1 DEF UploadsCover
  <2> QED BY <2>1, <2>2 DEF OneCover, At
<1> QED BY <1>2, <1>5, <1>6, <1>7, <1>8

LEMMA BeginUploadStep ==
  ASSUME ImageInv, NEW r \in Requests, NEW p \in Posts, NEW i \in Images,
         NEW role \in {"cover", "gallery"}, A!BeginUpload(r, p, i, role)
  PROVE  ImageInv'
<1> USE DEF ImageInv
<1>1. PICK old \in IF A!Replaced(p, role) = {} THEN {None} ELSE A!Replaced(p, role) :
        upload' = [upload EXCEPT ![r] =
          [pc |-> IF old = None THEN "put" ELSE "delete", post |-> p, image |-> i,
           role |-> role, old |-> old]]
  BY DEF A!BeginUpload
<1>2. /\ upload[r] = A!Idle /\ images[i] = None /\ i \notin files
      /\ \A s \in Requests : upload[s] # A!Idle => upload[s].image # i
      /\ UNCHANGED <<existing, images, files, faults, leaked, bare>>
  BY UploadTypes DEF A!BeginUpload
<1>3. /\ old \in Images \cup {None}
      /\ old # None => old \in A!Replaced(p, role)
      /\ old = None => A!Replaced(p, role) = {}
  BY NothingIsNobody DEF A!Replaced, A!Cover
<1>4. upload'[r] \in A!Uploading /\ \A s \in Requests \ {r} : upload'[s] = upload[s]
  BY <1>1, <1>3 DEF A!TypeOK, A!Uploading
<1>5. A!TypeOK'
  <2>1. crowded' \subseteq Posts
    BY DEF A!BeginUpload, A!TypeOK
  <2>2. upload'[r].pc \in {"delete", "unlink"} => upload'[r].old \in Images
    BY <1>1, <1>3, NothingIsNobody DEF A!TypeOK
  <2> QED BY <1>1, <1>2, <1>4, <2>1, <2>2 DEF A!TypeOK
<1>6. upload'[r].image = i /\ upload'[r].post = p /\ upload'[r].role = role /\ upload'[r].old = old
      /\ upload'[r].pc = IF old = None THEN "put" ELSE "delete"
  BY <1>1 DEF A!TypeOK
<1>7. UploadsAreApart'
  BY <1>2, <1>4, <1>6, UploadTypes DEF UploadsAreApart, At, A!Uploading, A!Idle
<1>8. UnlinkedIsDeleted' /\ FilesAreThere'
  BY <1>2, <1>4, <1>6 DEF UnlinkedIsDeleted, FilesAreThere, At, A!IsLive
<1>9. NoFileIsForgotten'
  BY <1>2, <1>4 DEF NoFileIsForgotten, At, A!IsLive, A!Idle
<1>10. OneCover'
  <2>1. \A x \in Posts : A!Cover(x)' = A!Cover(x)
    BY <1>2 DEF A!Cover, A!IsLive
  <2>2. crowded \subseteq crowded'
    BY DEF A!BeginUpload
  <2>3. \A x \in Posts, s \in Requests : UploadsCover(s, x)' =>
          IF s = r THEN x = p /\ role = "cover" ELSE UploadsCover(s, x)
    BY <1>4, <1>6 DEF UploadsCover
  <2>4. p \notin crowded' /\ role = "cover" => \A s \in Requests : ~UploadsCover(s, p)
    BY UploadTypes DEF A!BeginUpload, UploadsCover, A!Uploading, A!Idle
  <2>5. p \notin crowded' /\ role = "cover" => \A x \in A!Cover(p) : old = x /\ upload'[r].pc = "delete"
    BY <1>3, <1>6, <2>2, NothingIsNobody DEF OneCover, A!Replaced, A!Cover
  <2> QED BY <1>4, <1>6, <2>1, <2>2, <2>3, <2>4, <2>5 DEF OneCover, At
<1> QED BY <1>5, <1>7, <1>8, <1>9, <1>10

(* Steps that move a request on without touching rows of images. *)
LEMMA SoftDeleteStep ==
  ASSUME ImageInv, NEW r \in Requests, A!SoftDelete(r)
  PROVE  ImageInv'
<1> USE DEF ImageInv
<1> DEFINE i == upload[r].old
<1>1. /\ upload[r] \in A!Removals \cup A!Uploading /\ upload[r].pc = "delete" /\ i \in Images
      /\ UNCHANGED <<existing, files, faults, crowded, leaked>> /\ bare' \subseteq Posts
  BY UploadTypes DEF A!SoftDelete, A!TypeOK, A!Idle, A!IsLive, A!ImageRow
<1>2. CASE A!IsLive(i)
  <2>1. /\ images' = [images EXCEPT ![i].status = "DELETED"]
        /\ upload' = [upload EXCEPT ![r].pc = "unlink"]
        /\ images[i] \in A!ImageRow
    BY <1>1, <1>2 DEF A!SoftDelete, A!Goto, A!IsLive, A!TypeOK
  <2>2. /\ images'[i] \in A!ImageRow /\ images'[i].status = "DELETED"
        /\ \A j \in Images \ {i} : images'[j] = images[j]
    BY <1>1, <2>1 DEF A!TypeOK, A!ImageRow
  <2>3. /\ upload'[r].pc = "unlink" /\ upload'[r].image = upload[r].image
        /\ upload'[r].old = i /\ upload'[r].post = upload[r].post /\ upload'[r].role = upload[r].role
        /\ upload'[r] \in A!Removals \cup A!Uploading
        /\ upload'[r] \in A!Uploading <=> upload[r] \in A!Uploading
        /\ \A s \in Requests \ {r} : upload'[s] = upload[s]
    BY <1>1, <2>1, NothingIsNobody DEF A!TypeOK, A!Removals, A!Uploading
  <2>4. A!TypeOK'
    BY <1>1, <2>1, <2>2, <2>3 DEF A!TypeOK
  <2>5. \A j \in Images : A!IsLive(j)' <=> A!IsLive(j) /\ j # i
    BY <2>2 DEF A!IsLive
  <2>6. UploadsAreApart'
    <3>1. \A s \in Requests : upload'[s] \in A!Uploading =>
            upload[s] \in A!Uploading /\ upload'[s].image = upload[s].image /\ upload[s].image \in Images
      BY <2>3 DEF A!Uploading
    <3>2. \A j \in Images : images[j] = None => images'[j] = None
      BY <1>2, <2>2 DEF A!IsLive
    <3> QED BY <1>1, <2>3, <3>1, <3>2 DEF UploadsAreApart, At
  <2>7. UnlinkedIsDeleted'
    BY <2>2, <2>3, NothingIsNoRow DEF UnlinkedIsDeleted, At, A!TypeOK
  <2>8. FilesAreThere' /\ NoFileIsForgotten'
    BY <1>1, <2>3, <2>5 DEF FilesAreThere, NoFileIsForgotten, At, A!TypeOK
  <2>9. OneCover'
    <3>1. \A p \in Posts : A!Cover(p)' = A!Cover(p) \ {i}
      BY <2>2, <2>5 DEF A!Cover
    <3>2. \A p \in Posts, s \in Requests : UploadsCover(s, p)' <=> UploadsCover(s, p)
      BY <2>3 DEF UploadsCover
    <3> QED BY <1>1, <2>3, <3>1, <3>2 DEF OneCover, At
  <2> QED BY <2>4, <2>6, <2>7, <2>8, <2>9
<1>3. CASE ~A!IsLive(i)
  <2>1. UNCHANGED images /\ upload' = [upload EXCEPT ![r] = A!Idle]
    BY <1>3 DEF A!SoftDelete, A!Done
  <2>2. /\ faults' \in 0 .. MaxFaults /\ leaked \subseteq Images
        /\ upload[r] # A!Idle /\ ~At(r, {"row", "clean"}) /\ ~At(r, {"unlink"}) /\ ~At(r, {"clean"})
    BY <1>1 DEF A!TypeOK, At, A!Idle
  <2> QED BY <1>1, <2>1, <2>2, RequestEnds
<1> QED BY <1>2, <1>3

LEMMA UnlinkStep ==
  ASSUME ImageInv, NEW r \in Requests, A!Unlink(r)
  PROVE  ImageInv'
<1> USE DEF ImageInv
<1> DEFINE old == upload[r].old
<1>1. /\ upload[r] \in A!Removals \cup A!Uploading /\ upload[r].pc = "unlink" /\ old \in Images
      /\ UNCHANGED <<existing, images, crowded, bare>>
  BY UploadTypes DEF A!Unlink, A!TypeOK, A!Idle
<1>2. /\ files' \subseteq files /\ files \ files' \subseteq {old}
      /\ leaked \subseteq leaked' /\ leaked' \subseteq Images
      /\ faults' \in 0 .. MaxFaults /\ old \notin files' \ leaked'
  BY <1>1, BoundsAreNumbers DEF A!Unlink, A!DeleteFile, A!TypeOK
<1>3. CASE upload[r].image = None
  <2>1. bare' \subseteq Posts
    BY <1>1 DEF A!TypeOK
  <2> QED BY <1>1, <1>2, <1>3, <2>1, UploadTypes, RequestEnds DEF A!Unlink, A!Done, At
<1>4. CASE upload[r].image # None
  <2>1. upload' = [upload EXCEPT ![r].pc = "put"] /\ upload[r] \in A!Uploading
    BY <1>1, <1>4 DEF A!Unlink, A!Goto, A!Removals
  <2>2. /\ upload'[r] \in A!Uploading /\ upload'[r].pc = "put"
        /\ upload'[r].image = upload[r].image /\ upload'[r].post = upload[r].post
        /\ upload'[r].role = upload[r].role
        /\ \A s \in Requests \ {r} : upload'[s] = upload[s]
    BY <2>1 DEF A!TypeOK, A!Uploading
  <2>3. A!TypeOK'
    BY <1>1, <1>2, <2>1, <2>2 DEF A!TypeOK
  <2>4. images[old] # None /\ images[old].status = "DELETED"
    BY <1>1 DEF UnlinkedIsDeleted, At
  <2>5. UploadsAreApart'
    <3>1. ASSUME NEW s \in Requests, At(s, {"row", "clean"})' PROVE upload[s].image \in files'
      BY <1>2, <2>2, <2>4, <3>1, UploadTypes DEF UploadsAreApart, At
    <3> QED BY <1>1, <2>1, <2>2, <3>1 DEF UploadsAreApart, At
  <2>6. UnlinkedIsDeleted' /\ FilesAreThere'
    BY <1>1, <1>2, <2>2, <2>4 DEF UnlinkedIsDeleted, FilesAreThere, At, A!IsLive
  <2>7. NoFileIsForgotten'
    BY <1>1, <1>2, <2>2 DEF NoFileIsForgotten, At, A!IsLive
  <2>8. OneCover'
    <3>1. \A p \in Posts : A!Cover(p)' = A!Cover(p)
      BY <1>1 DEF A!Cover, A!IsLive
    <3>2. \A p \in Posts, s \in Requests : UploadsCover(s, p)' <=> UploadsCover(s, p)
      BY <2>1, <2>2 DEF UploadsCover
    <3> QED BY <1>1, <2>2, <3>1, <3>2 DEF OneCover, At
  <2> QED BY <2>3, <2>5, <2>6, <2>7, <2>8
<1> QED BY <1>3, <1>4

LEMMA PutStep ==
  ASSUME ImageInv, NEW r \in Requests, A!Put(r)
  PROVE  ImageInv'
<1> USE DEF ImageInv
<1>1. /\ upload[r] \in A!Uploading /\ upload[r].pc = "put" /\ upload[r].image \in Images
      /\ UNCHANGED <<existing, images, crowded>>
  BY UploadTypes DEF A!Put, At, A!Uploading
<1>2. CASE /\ files' = files \cup {upload[r].image} /\ UNCHANGED <<faults, leaked, bare>>
           /\ upload' = [upload EXCEPT ![r].pc = "row"]
  <2>1. /\ upload'[r] \in A!Uploading /\ upload'[r].pc = "row"
        /\ upload'[r].image = upload[r].image /\ upload'[r].post = upload[r].post
        /\ upload'[r].role = upload[r].role
        /\ \A s \in Requests \ {r} : upload'[s] = upload[s]
    BY <1>1, <1>2 DEF A!TypeOK, A!Uploading
  <2>2. A!TypeOK'
    BY <1>1, <1>2, <2>1 DEF A!TypeOK
  <2>3. UploadsAreApart'
    BY <1>1, <1>2, <2>1 DEF UploadsAreApart, At
  <2>4. UnlinkedIsDeleted' /\ FilesAreThere' /\ NoFileIsForgotten'
    BY <1>1, <1>2, <2>1 DEF UnlinkedIsDeleted, FilesAreThere, NoFileIsForgotten, At, A!IsLive
  <2>5. OneCover'
    <3>1. \A p \in Posts : A!Cover(p)' = A!Cover(p)
      BY <1>1 DEF A!Cover, A!IsLive
    <3>2. \A p \in Posts, s \in Requests : UploadsCover(s, p)' <=> UploadsCover(s, p)
      BY <1>1, <2>1 DEF UploadsCover
    <3> QED BY <1>1, <2>1, <3>1, <3>2 DEF OneCover, At
  <2> QED BY <2>2, <2>3, <2>4, <2>5
<1>3. CASE /\ faults < MaxFaults /\ faults' = faults + 1 /\ A!PartlyWritten(upload[r].image)
           /\ bare' = A!Uncovered(r) /\ upload' = [upload EXCEPT ![r] = A!Idle]
  <2>1. /\ faults' \in 0 .. MaxFaults
        /\ upload[r] # A!Idle /\ ~At(r, {"row", "clean"}) /\ ~At(r, {"unlink"}) /\ ~At(r, {"clean"})
    BY <1>1, <1>3, BoundsAreNumbers DEF A!TypeOK, At, A!Idle
  <2>2. /\ leaked \subseteq leaked' /\ leaked' \subseteq Images
        /\ files \subseteq files' /\ files' \subseteq files \cup leaked'
    BY <1>1, <1>3 DEF A!PartlyWritten, A!TypeOK
  <2> QED BY <1>1, <1>3, <2>1, <2>2, UncoveredPosts, RequestEnds
<1> QED BY <1>2, <1>3 DEF A!Put, A!Goto, A!Done

LEMMA RefuseImageStep ==
  ASSUME ImageInv, NEW r \in Requests, A!RefuseImage(r)
  PROVE  ImageInv'
<1> USE DEF ImageInv
<1>1. /\ upload[r].pc = "put" /\ upload' = [upload EXCEPT ![r] = A!Idle]
      /\ bare' = A!Uncovered(r) /\ UNCHANGED <<existing, images, files, faults, crowded, leaked>>
  BY DEF A!RefuseImage, A!Done
<1>2. upload[r] # A!Idle /\ ~At(r, {"row", "clean"}) /\ ~At(r, {"unlink"}) /\ ~At(r, {"clean"})
  BY <1>1 DEF At, A!Idle
<1>3. faults' \in 0 .. MaxFaults /\ leaked' \subseteq Images
  BY <1>1 DEF A!TypeOK
<1> QED BY <1>1, <1>2, <1>3, UncoveredPosts, RequestEnds

LEMMA InsertImageStep ==
  ASSUME ImageInv, NEW r \in Requests, A!InsertImage(r)
  PROVE  ImageInv'
<1> USE DEF ImageInv
<1> DEFINE q == upload[r]
           row == [post |-> q.post, role |-> q.role, status |-> "UPLOADED"]
<1>1. /\ q \in A!Uploading /\ q.pc = "row" /\ q.image \in Images /\ row \in A!ImageRow
      /\ images[q.image] = None /\ q.image \in files /\ row # None
      /\ UNCHANGED <<existing, files, crowded, leaked>>
  BY UploadTypes, NothingIsNoRow DEF A!InsertImage, At, A!Uploading, UploadsAreApart, A!ImageRow
<1>4. bare' \subseteq Posts
  BY UncoveredPosts DEF A!InsertImage, A!TypeOK
<1>2. CASE /\ images' = [images EXCEPT ![q.image] = row] /\ UNCHANGED faults
           /\ upload' = [upload EXCEPT ![r] = A!Idle]
  <2>1. /\ upload'[r] = A!Idle /\ \A s \in Requests \ {r} : upload'[s] = upload[s]
        /\ upload'[r] \notin A!Uploading /\ upload'[r].pc = "idle"
    BY <1>2 DEF A!TypeOK, A!Idle, A!Uploading
  <2>2. /\ images'[q.image] = row /\ \A i \in Images \ {q.image} : images'[i] = images[i]
    BY <1>1, <1>2 DEF A!TypeOK
  <2>3. A!TypeOK'
    BY <1>1, <1>2, <1>4, <2>1 DEF A!TypeOK, A!Idle
  <2>4. \A i \in Images : A!IsLive(i)' <=> A!IsLive(i) \/ i = q.image
    BY <1>1, <2>2 DEF A!IsLive
  <2>5. UploadsAreApart'
    <3>1. \A s \in Requests \ {r} : upload[s] \in A!Uploading =>
            upload[s].image # q.image /\ upload[s].image \in Images
      BY <1>1 DEF UploadsAreApart, A!Uploading
    <3> QED BY <1>1, <2>1, <2>2, <3>1 DEF UploadsAreApart, At
  <2>6. UnlinkedIsDeleted'
    BY <1>1, <2>1, <2>2 DEF UnlinkedIsDeleted, At, A!TypeOK
  <2>7. FilesAreThere'
    BY <1>1, <2>4 DEF FilesAreThere
  <2>8. NoFileIsForgotten'
    BY <1>1, <2>1, <2>4 DEF NoFileIsForgotten, At, A!TypeOK
  <2>9. OneCover'
    <3>1. \A p \in Posts : A!Cover(p)' = IF p = q.post /\ q.role = "cover"
                                        THEN A!Cover(p) \cup {q.image} ELSE A!Cover(p)
      <4> SUFFICES ASSUME NEW p \in Posts
                   PROVE  A!Cover(p)' = IF p = q.post /\ q.role = "cover"
                                        THEN A!Cover(p) \cup {q.image} ELSE A!Cover(p)
        OBVIOUS
      <4>1. row.post = q.post /\ row.role = q.role /\ q.image \in Images
        BY <1>1
      <4>2. \A i \in Images \ {q.image} : i \in A!Cover(p)' <=> i \in A!Cover(p)
        BY <2>2, <2>4 DEF A!Cover
      <4>3. q.image \in A!Cover(p)' <=> p = q.post /\ q.role = "cover"
        BY <2>2, <2>4, <4>1 DEF A!Cover
      <4>4. q.image \notin A!Cover(p)
        BY <1>1 DEF A!Cover, A!IsLive
      <4>5. A!Cover(p) \subseteq Images /\ A!Cover(p)' \subseteq Images
        BY DEF A!Cover
      <4> HIDE DEF q, row
      <4> QED BY <4>1, <4>2, <4>3, <4>4, <4>5
    <3>2. \A p \in Posts, s \in Requests : UploadsCover(s, p)' =>
            UploadsCover(s, p) /\ s # r /\ upload'[s] = upload[s]
      BY <2>1 DEF UploadsCover
    <3>3. q.role = "cover" => UploadsCover(r, q.post)
      BY <1>1 DEF UploadsCover
    <3>4. q.role = "cover" /\ q.post \notin crowded => A!Cover(q.post) = {}
      BY <1>1, <3>3 DEF OneCover, At, A!Uploading
    <3> QED BY <1>1, <3>1, <3>2, <3>3, <3>4 DEF OneCover, At
  <2> QED BY <2>3, <2>5, <2>6, <2>7, <2>8, <2>9
<1>3. CASE /\ faults < MaxFaults /\ faults' = faults + 1 /\ UNCHANGED images
           /\ upload' = [upload EXCEPT ![r].pc = "clean"]
  <2>1. /\ upload'[r] \in A!Uploading /\ upload'[r].pc = "clean"
        /\ upload'[r].image = q.image /\ upload'[r].post = q.post /\ upload'[r].role = q.role
        /\ \A s \in Requests \ {r} : upload'[s] = upload[s]
    BY <1>1, <1>3 DEF A!TypeOK, A!Uploading
  <2>2. A!TypeOK'
    BY <1>1, <1>3, <1>4, <2>1, BoundsAreNumbers DEF A!TypeOK
  <2>3. UploadsAreApart'
    BY <1>1, <1>3, <2>1 DEF UploadsAreApart, At
  <2>4. UnlinkedIsDeleted' /\ FilesAreThere' /\ NoFileIsForgotten'
    BY <1>1, <1>3, <2>1 DEF UnlinkedIsDeleted, FilesAreThere, NoFileIsForgotten, At, A!IsLive
  <2>5. OneCover'
    <3>1. \A p \in Posts : A!Cover(p)' = A!Cover(p)
      BY <1>3 DEF A!Cover, A!IsLive
    <3>2. \A p \in Posts, s \in Requests : UploadsCover(s, p)' <=> UploadsCover(s, p)
      BY <1>1, <2>1 DEF UploadsCover
    <3> QED BY <1>1, <2>1, <3>1, <3>2 DEF OneCover, At
  <2> QED BY <2>2, <2>3, <2>4, <2>5
<1> QED BY <1>2, <1>3 DEF A!InsertImage, A!Failed, A!Goto, A!Done

(* The ends of requests, and the rest. *)
LEMMA ImageEnds ==
  ASSUME ImageInv, NEW r \in Requests, A!Clean(r) \/ A!Crash(r)
  PROVE  ImageInv'
<1> USE DEF ImageInv
<1>1. upload[r] # A!Idle /\ upload' = [upload EXCEPT ![r] = A!Idle]
      /\ UNCHANGED <<existing, images, crowded>> /\ bare' \subseteq Posts
  BY UploadTypes, UncoveredPosts DEF A!Clean, A!Crash, A!Done, A!Idle, A!TypeOK
<1>2. /\ At(r, {"put", "row", "clean"}) => upload[r].image \in Images
      /\ At(r, {"unlink"}) => upload[r].old \in Images
  BY UploadTypes DEF At, A!TypeOK, A!Uploading
<1>3. CASE A!Clean(r)
  <2>1. /\ files' \subseteq files /\ files \ files' \subseteq {upload[r].image}
        /\ leaked \subseteq leaked' /\ leaked' \subseteq Images
        /\ faults' \in 0 .. MaxFaults /\ upload[r].image \notin files' \ leaked'
        /\ upload[r].pc = "clean"
    BY <1>2, <1>3, BoundsAreNumbers DEF A!Clean, A!DeleteFile, A!TypeOK, At
  <2> QED BY <1>1, <2>1, RequestEnds DEF At
<1>4. CASE A!Crash(r)
  <2>1. faults' \in 0 .. MaxFaults
    BY <1>4, BoundsAreNumbers DEF A!Crash, A!TypeOK
  <2>2. /\ leaked \subseteq leaked' /\ leaked' \subseteq Images
        /\ files \subseteq files' /\ files' \subseteq files \cup leaked'
        /\ At(r, {"row", "clean"}) => upload[r].image \in leaked'
        /\ At(r, {"unlink"}) => upload[r].old \in leaked'
    <3>1. CASE upload[r].pc = "put" /\ A!PartlyWritten(upload[r].image)
      BY <1>2, <3>1 DEF At, A!TypeOK, A!PartlyWritten
    <3>2. CASE /\ UNCHANGED files
               /\ leaked' = leaked \cup {i \in Images :
                    \/ upload[r].pc \in {"row", "clean"} /\ i = upload[r].image
                    \/ upload[r].pc = "unlink" /\ i = upload[r].old}
      BY <1>2, <3>2 DEF At, A!TypeOK
    <3> QED BY <1>4, <3>1, <3>2 DEF A!Crash
  <2> QED BY <1>1, <2>1, <2>2, RequestEnds
<1> QED BY <1>3, <1>4

LEMMA ImageOthers ==
  ASSUME ImageInv,
         \/ UNCHANGED pictures
         \/ \E p \in Posts : A!DeletePost(p)
         \/ \E r \in Requests, i \in Images : A!BeginRemove(r, i)
  PROVE  ImageInv'
<1> USE DEF ImageInv
<1>1. UNCHANGED <<images, files, faults, crowded, leaked, bare>> /\ existing' \subseteq existing
  BY DEF pictures, A!DeletePost, A!BeginRemove
<1>2. ASSUME NEW s \in Requests
      PROVE  upload'[s] = upload[s] \/ (upload'[s] \in A!Removals /\ upload'[s].pc = "delete"
               /\ upload'[s].old \in Images /\ upload[s] = A!Idle)
  BY DEF pictures, A!DeletePost, A!BeginRemove, A!TypeOK, A!Removals
<1>3. A!TypeOK'
  <2>1. upload' \in [Requests -> {A!Idle} \cup A!Removals \cup A!Uploading]
    BY DEF pictures, A!DeletePost, A!BeginRemove, A!TypeOK, A!Removals
  <2> QED BY <1>1, <1>2, <2>1 DEF A!TypeOK
<1>4. \A s \in Requests : upload'[s] \in A!Uploading => upload'[s] = upload[s]
  BY <1>2, NothingIsNobody DEF A!Removals, A!Uploading
<1>5. UploadsAreApart'
  BY <1>1, <1>4 DEF UploadsAreApart, At
<1>6. UnlinkedIsDeleted' /\ FilesAreThere' /\ NoFileIsForgotten'
  BY <1>1, <1>2 DEF UnlinkedIsDeleted, FilesAreThere, NoFileIsForgotten, At, A!IsLive, A!Idle
<1>7. OneCover'
  <2>1. \A p \in Posts : A!Cover(p)' = A!Cover(p)
    BY <1>1 DEF A!Cover, A!IsLive
  <2>2. \A p \in Posts, s \in Requests : UploadsCover(s, p)' =>
          UploadsCover(s, p) /\ upload'[s] = upload[s]
    BY <1>4 DEF UploadsCover
  <2> QED BY <1>1, <2>1, <2>2 DEF OneCover, At
<1> QED BY <1>3, <1>5, <1>6, <1>7

LEMMA ImageNext == ImageInv /\ [A!Next]_pictures => ImageInv'
BY BeginUploadStep, SoftDeleteStep, UnlinkStep, RefuseImageStep, PutStep, InsertImageStep, ImageEnds, ImageOthers
DEF A!Next

(* A file that is known to be leaked is nobody's: no row shows it, no       *)
(* upload stores it, and no request is about to remove it.  What a request  *)
(* unlinks is there, and no other request unlinks it.                      *)
LeakedFiles ==
  /\ leaked \subseteq files
  /\ \A i \in leaked : ~A!IsLive(i)
  /\ \A r \in Requests : upload[r] \in A!Uploading => upload[r].image \notin leaked
  /\ \A r \in Requests : At(r, {"unlink"}) =>
       /\ upload[r].old \in files \ leaked
       /\ \A s \in Requests : At(s, {"unlink"}) /\ upload[s].old = upload[r].old => s = r

(* What an upload replaces is a cover of its post. *)
OldIsACover ==
  \A r \in Requests : upload[r] \in A!Uploading /\ upload[r].old # None =>
    /\ images[upload[r].old] # None
    /\ images[upload[r].old].post = upload[r].post
    /\ images[upload[r].old].role = "cover"
    /\ upload[r].role = "cover"

CoverKept ==
  \A p \in Posts : A!HadCover(p) /\ p \notin bare => A!Cover(p) # {} \/ A!Replacing(p)

LossInv == LeakedFiles /\ OldIsACover /\ CoverKept

(* A request that ends, or goes on to clean up. *)
LEMMA CoversWhenLeaving ==
  ASSUME ImageInv, LossInv, NEW r \in Requests, upload'[r].pc \in {"idle", "clean"},
         upload'[r] \in A!Uploading =>
           /\ upload[r] \in A!Uploading /\ upload'[r].old = upload[r].old
           /\ upload'[r].post = upload[r].post /\ upload'[r].role = upload[r].role,
         \A s \in Requests \ {r} : upload'[s] = upload[s], UNCHANGED images, bare \subseteq bare',
         \A p \in Posts : At(r, {"unlink", "put", "row"}) /\ upload[r].post = p
                            /\ upload[r].role = "cover" => p \in bare'
  PROVE  OldIsACover' /\ CoverKept'
<1>2. OldIsACover'
  BY DEF LossInv, OldIsACover
<1>3. \A p \in Posts : /\ A!HadCover(p)' <=> A!HadCover(p)
                       /\ A!Cover(p)' = A!Cover(p)
  BY DEF A!HadCover, A!Cover, A!IsLive
<1>4. \A p \in Posts : A!Replacing(p) => A!Replacing(p)' \/ p \in bare'
  BY DEF A!Replacing, At
<1> QED BY <1>2, <1>3, <1>4 DEF LossInv, CoverKept

LEMMA CoversWhenDone ==
  ASSUME ImageInv, LossInv, NEW r \in Requests,
         upload' = [upload EXCEPT ![r] = A!Idle], UNCHANGED images, bare \subseteq bare',
         \A p \in Posts : At(r, {"unlink", "put", "row"}) /\ upload[r].post = p
                            /\ upload[r].role = "cover" => p \in bare'
  PROVE  OldIsACover' /\ CoverKept'
<1>1. A!Idle.pc \in {"idle", "clean"} /\ A!Idle \notin A!Uploading
  BY DEF A!Idle, A!Uploading
<1>2. upload'[r] = A!Idle /\ \A s \in Requests \ {r} : upload'[s] = upload[s]
  BY DEF ImageInv, A!TypeOK
<1> QED BY <1>1, <1>2, CoversWhenLeaving

LEMMA LossBeginUpload ==
  ASSUME ImageInv, LossInv, NEW r \in Requests, NEW p \in Posts, NEW i \in Images,
         NEW role \in {"cover", "gallery"}, A!BeginUpload(r, p, i, role)
  PROVE  LossInv'
<1> USE DEF ImageInv, LossInv
<1>1. PICK old \in IF A!Replaced(p, role) = {} THEN {None} ELSE A!Replaced(p, role) :
        upload' = [upload EXCEPT ![r] =
          [pc |-> IF old = None THEN "put" ELSE "delete", post |-> p, image |-> i,
           role |-> role, old |-> old]]
  BY DEF A!BeginUpload
<1>2. /\ upload[r] = A!Idle /\ images[i] = None /\ i \notin files
      /\ UNCHANGED <<existing, images, files, faults, leaked, bare>>
  BY DEF A!BeginUpload
<1>3. old # None => /\ old \in Images /\ A!IsLive(old) /\ images[old].post = p
                    /\ images[old].role = "cover" /\ role = "cover"
  BY <1>1 DEF A!Replaced, A!Cover
<1>4. /\ upload'[r].image = i /\ upload'[r].old = old /\ upload'[r].post = p
      /\ upload'[r].role = role /\ upload'[r].pc \in {"put", "delete"}
      /\ \A s \in Requests \ {r} : upload'[s] = upload[s]
  BY <1>1 DEF A!TypeOK
<1>5. LeakedFiles'
  BY <1>2, <1>4 DEF LeakedFiles, At, A!IsLive
<1>6. OldIsACover'
  BY <1>2, <1>3, <1>4 DEF OldIsACover, A!IsLive
<1>7. CoverKept'
  <2>1. \A x \in Posts : (A!HadCover(x)' <=> A!HadCover(x)) /\ A!Cover(x)' = A!Cover(x)
    BY <1>2 DEF A!HadCover, A!Cover, A!IsLive
  <2>2. \A x \in Posts : A!Replacing(x) => A!Replacing(x)'
    <3>1. upload[r].pc \notin {"unlink", "put", "row"}
      BY <1>2 DEF A!Idle
    <3> QED BY <1>4, <3>1 DEF A!Replacing
  <2> QED BY <1>2, <2>1, <2>2 DEF CoverKept
<1> QED BY <1>5, <1>6, <1>7

LEMMA LossSoftDelete ==
  ASSUME ImageInv, LossInv, NEW r \in Requests, A!SoftDelete(r)
  PROVE  LossInv'
<1> USE DEF ImageInv, LossInv
<1> DEFINE i == upload[r].old
<1>1. /\ upload[r] \in A!Removals \cup A!Uploading /\ upload[r].pc = "delete" /\ i \in Images
      /\ UNCHANGED <<existing, files, faults, crowded, leaked>>
  BY UploadTypes DEF A!SoftDelete, A!TypeOK, A!Idle
<1>2. CASE A!IsLive(i)
  <2>1. /\ images' = [images EXCEPT ![i].status = "DELETED"]
        /\ upload' = [upload EXCEPT ![r].pc = "unlink"]
        /\ images[i] \in A!ImageRow
        /\ bare' = IF upload[r].image = None /\ images[i].role = "cover"
                   THEN bare \cup {images[i].post} ELSE bare
    BY <1>1, <1>2 DEF A!SoftDelete, A!Goto, A!IsLive, A!TypeOK
  <2>2. /\ images'[i].status = "DELETED" /\ images'[i].post = images[i].post
        /\ images'[i].role = images[i].role /\ images'[i] # None
        /\ \A j \in Images \ {i} : images'[j] = images[j]
    <3>1. images'[i] \in A!ImageRow
      BY <1>1, <2>1 DEF A!TypeOK, A!ImageRow
    <3> QED BY <1>1, <2>1, <3>1, NothingIsNoRow DEF A!TypeOK, A!ImageRow
  <2>3. /\ upload'[r].pc = "unlink" /\ upload'[r].image = upload[r].image
        /\ upload'[r].old = i /\ upload'[r].post = upload[r].post /\ upload'[r].role = upload[r].role
        /\ upload'[r] \in A!Uploading <=> upload[r] \in A!Uploading
        /\ \A s \in Requests \ {r} : upload'[s] = upload[s]
    BY <1>1, <2>1, NothingIsNobody DEF A!TypeOK, A!Removals, A!Uploading
  <2>4. \A j \in Images : A!IsLive(j)' <=> A!IsLive(j) /\ j # i
    BY <2>2 DEF A!IsLive
  <2>5. LeakedFiles'
    <3>1. i \in files \ leaked
      BY <1>1, <1>2 DEF FilesAreThere, LeakedFiles
    <3>2. \A s \in Requests : At(s, {"unlink"}) => upload[s].old # i
      BY <1>2 DEF UnlinkedIsDeleted, A!IsLive
    <3>3. \A j \in leaked : ~A!IsLive(j)'
      BY <2>4 DEF LeakedFiles, A!TypeOK
    <3>4. \A s \in Requests : upload'[s] \in A!Uploading => upload'[s].image \notin leaked
      BY <2>3 DEF LeakedFiles
    <3>5. \A s \in Requests : At(s, {"unlink"})' <=> At(s, {"unlink"}) \/ s = r
      BY <2>3 DEF At
    <3>6. ASSUME NEW s \in Requests, At(s, {"unlink"})'
          PROVE  /\ upload'[s].old \in files \ leaked
                 /\ \A t \in Requests : At(t, {"unlink"})' /\ upload'[t].old = upload'[s].old => t = s
      BY <2>3, <3>1, <3>2, <3>5, <3>6 DEF LeakedFiles
    <3> QED BY <1>1, <3>3, <3>4, <3>6 DEF LeakedFiles
  <2>6. OldIsACover'
    <3>1. \A s \in Requests : upload'[s] \in A!Uploading =>
            /\ upload[s] \in A!Uploading /\ upload'[s].old = upload[s].old
            /\ upload'[s].post = upload[s].post /\ upload'[s].role = upload[s].role
            /\ upload[s].old \in Images \cup {None}
      BY <2>3 DEF A!Uploading
    <3> QED BY <2>2, <3>1 DEF OldIsACover
  <2>7. CoverKept'
    <3> SUFFICES ASSUME NEW p \in Posts, A!HadCover(p)', p \notin bare'
                 PROVE  A!Cover(p)' # {} \/ A!Replacing(p)'
      BY DEF CoverKept
    <3>1. A!HadCover(p) /\ p \notin bare
      BY <2>1, <2>2, <1>2 DEF A!HadCover, A!IsLive
    <3>2. A!Replacing(p) => A!Replacing(p)'
      <4>1. upload[r].pc \notin {"unlink", "put", "row"}
        BY <1>1
      <4> QED BY <2>3, <4>1 DEF A!Replacing
    <3>3. CASE i \notin A!Cover(p)
      <4>1. A!Cover(p) \subseteq A!Cover(p)'
        BY <2>2, <2>4, <3>3 DEF A!Cover
      <4> QED BY <3>1, <3>2, <4>1 DEF CoverKept
    <3>4. CASE i \in A!Cover(p)
      <4>1. images[i].post = p /\ images[i].role = "cover"
        BY <3>4 DEF A!Cover
      <4>2. upload[r].image # None
        BY <2>1, <4>1
      <4>3. upload[r] \in A!Uploading
        BY <1>1, <4>2 DEF A!Removals
      <4>4. upload[r].post = p /\ upload[r].role = "cover"
        BY <1>1, <4>1, <4>3, NothingIsNobody DEF OldIsACover
      <4> QED BY <2>3, <4>4 DEF A!Replacing
    <3> QED BY <3>3, <3>4
  <2> QED BY <2>5, <2>6, <2>7
<1>3. CASE ~A!IsLive(i)
  <2>1. UNCHANGED images /\ upload' = [upload EXCEPT ![r] = A!Idle] /\ bare' = bare
    BY <1>3 DEF A!SoftDelete, A!Done
  <2>2. /\ upload'[r] = A!Idle /\ \A s \in Requests \ {r} : upload'[s] = upload[s]
    BY <2>1 DEF A!TypeOK
  <2>3. A!Idle.pc = "idle" /\ A!Idle \notin A!Uploading
    BY DEF A!Idle, A!Uploading
  <2>4. LeakedFiles'
    BY <1>1, <2>1, <2>2, <2>3 DEF LeakedFiles, At, A!IsLive
  <2>5. OldIsACover' /\ CoverKept'
    <3>1. ~At(r, {"unlink", "put", "row"})
      BY <1>1 DEF At
    <3> QED BY <1>1, <2>1, <3>1, CoversWhenDone
  <2> QED BY <2>4, <2>5
<1> QED BY <1>2, <1>3

LEMMA LossUnlink ==
  ASSUME ImageInv, LossInv, NEW r \in Requests, A!Unlink(r)
  PROVE  LossInv'
<1> USE DEF ImageInv, LossInv
<1> DEFINE old == upload[r].old
<1>1. /\ upload[r] \in A!Removals \cup A!Uploading /\ upload[r].pc = "unlink" /\ old \in Images
      /\ UNCHANGED <<existing, images, crowded, bare>>
  BY UploadTypes DEF A!Unlink, A!TypeOK, A!Idle
<1>2. /\ old \in files \ leaked /\ images[old] # None /\ ~A!IsLive(old)
      /\ \A s \in Requests \ {r} : At(s, {"unlink"}) => upload[s].old # old
  BY <1>1 DEF LeakedFiles, UnlinkedIsDeleted, At, A!IsLive
<1>3. \/ files' = files \ {old} /\ leaked' = leaked
      \/ files' = files /\ leaked' = leaked \cup {old}
  BY DEF A!Unlink, A!DeleteFile
<1>4. \A s \in Requests : upload[s] \in A!Uploading => upload[s].image # old
  BY <1>2 DEF UploadsAreApart
<1>5. /\ \A s \in Requests \ {r} : upload'[s] = upload[s]
      /\ ~At(r, {"unlink"})'
      /\ upload'[r] \in A!Uploading => upload[r] \in A!Uploading /\ upload'[r].image = upload[r].image
  <2>1. CASE upload[r].image = None
    BY <2>1 DEF A!Unlink, A!Done, A!Idle, A!TypeOK, A!Uploading, At
  <2>2. CASE upload[r].image # None
    <3>1. upload[r] \in A!Uploading /\ upload' = [upload EXCEPT ![r].pc = "put"]
      BY <1>1, <2>2 DEF A!Unlink, A!Goto, A!Removals
    <3>2. upload'[r].pc = "put" /\ upload'[r].image = upload[r].image
      BY <3>1 DEF A!TypeOK, A!Uploading
    <3> QED BY <3>1, <3>2 DEF A!TypeOK, At
  <2> QED BY <2>1, <2>2
<1>6. LeakedFiles'
  BY <1>1, <1>2, <1>3, <1>4, <1>5 DEF LeakedFiles, At, A!IsLive
<1>7. CASE upload[r].image = None
  <2>1. upload' = [upload EXCEPT ![r] = A!Idle]
    BY <1>7 DEF A!Unlink, A!Done
  <2>2. upload[r].post \notin Posts
    BY <1>1, <1>7, NothingIsNobody DEF A!Removals, A!Uploading
  <2> QED BY <1>1, <1>6, <2>1, <2>2, CoversWhenDone
<1>8. CASE upload[r].image # None
  <2>1. upload' = [upload EXCEPT ![r].pc = "put"] /\ upload[r] \in A!Uploading
    BY <1>1, <1>8 DEF A!Unlink, A!Goto, A!Removals
  <2>2. /\ upload'[r].pc = "put" /\ upload'[r].old = old
        /\ upload'[r].post = upload[r].post /\ upload'[r].role = upload[r].role
    BY <2>1 DEF A!TypeOK, A!Uploading
  <2>3. OldIsACover'
    BY <1>1, <1>5, <2>1, <2>2 DEF OldIsACover
  <2>4. CoverKept'
    <3>1. \A p \in Posts : /\ A!HadCover(p)' <=> A!HadCover(p)
                           /\ A!Cover(p)' = A!Cover(p)
                           /\ A!Replacing(p) => A!Replacing(p)'
      BY <1>1, <1>5, <2>2 DEF A!HadCover, A!Cover, A!IsLive, A!Replacing
    <3> QED BY <1>1, <3>1 DEF CoverKept
  <2> QED BY <1>6, <2>3, <2>4
<1> QED BY <1>7, <1>8

(* Requests that end, with a file that may have been left behind. *)
LEMMA LossEnds ==
  ASSUME ImageInv, LossInv, NEW r \in Requests,
         A!RefuseImage(r) \/ A!Clean(r) \/ A!Crash(r)
           \/ (A!Put(r) /\ upload' = [upload EXCEPT ![r] = A!Idle])
  PROVE  LossInv'
<1> USE DEF ImageInv, LossInv
<1>1. /\ upload[r] # A!Idle /\ upload' = [upload EXCEPT ![r] = A!Idle] /\ UNCHANGED images
      /\ A!Idle.pc = "idle" /\ A!Idle \notin A!Uploading
  BY UploadTypes DEF A!RefuseImage, A!Clean, A!Crash, A!Put, A!Done, A!Idle, A!Uploading
<1>2. upload'[r] = A!Idle /\ \A s \in Requests \ {r} : upload'[s] = upload[s]
  BY <1>1 DEF A!TypeOK
<1>3. /\ At(r, {"put", "row", "clean"}) => upload[r] \in A!Uploading /\ upload[r].image \in Images
      /\ At(r, {"row", "clean"}) => upload[r].image \in files
      /\ At(r, {"unlink"}) => upload[r].old \in files \ leaked
  BY UploadTypes DEF At, A!Uploading, UploadsAreApart, LeakedFiles
<1> DEFINE Own(i) == \/ At(r, {"put", "row", "clean"}) /\ i = upload[r].image
                     \/ At(r, {"unlink"}) /\ i = upload[r].old
<1>4. \A i \in Images : Own(i) =>
        /\ ~A!IsLive(i)
        /\ \A s \in Requests \ {r} : upload[s] \in A!Uploading => upload[s].image # i
        /\ \A s \in Requests \ {r} : At(s, {"unlink"}) => upload[s].old # i
  BY <1>3 DEF UploadsAreApart, UnlinkedIsDeleted, LeakedFiles, A!IsLive
<1>5. /\ files \ files' \subseteq {i \in Images : Own(i)} \ leaked
      /\ leaked' \ leaked \subseteq {i \in Images : Own(i)} \cap files'
      /\ leaked \subseteq leaked'
  <2>1. CASE A!RefuseImage(r)
    BY <2>1 DEF A!RefuseImage
  <2>2. CASE A!Clean(r)
    <3>1. upload[r].pc = "clean" /\ A!DeleteFile(upload[r].image)
      BY <2>2 DEF A!Clean
    <3>2. upload[r].image \notin leaked /\ Own(upload[r].image)
      BY <1>3, <3>1 DEF At, LeakedFiles
    <3> QED BY <1>3, <3>1, <3>2 DEF At, A!DeleteFile
  <2>3. ASSUME upload[r].pc = "put", A!PartlyWritten(upload[r].image)
        PROVE  /\ files \ files' \subseteq {i \in Images : Own(i)} \ leaked
               /\ leaked' \ leaked \subseteq {i \in Images : Own(i)} \cap files'
               /\ leaked \subseteq leaked'
    BY <1>3, <2>3 DEF A!PartlyWritten, At
  <2>4. CASE A!Crash(r)
    <3>1. CASE upload[r].pc # "put" /\ UNCHANGED files
               /\ leaked' = leaked \cup {i \in Images :
                    \/ upload[r].pc \in {"row", "clean"} /\ i = upload[r].image
                    \/ upload[r].pc = "unlink" /\ i = upload[r].old}
      BY <1>3, <3>1 DEF At
    <3> QED BY <2>3, <2>4, <3>1 DEF A!Crash
  <2>5. CASE A!Put(r) /\ upload' = [upload EXCEPT ![r] = A!Idle]
    <3>1. upload[r].pc = "put" /\ ~A!Goto(r, "row")
      BY <1>2, <2>5 DEF A!Put, A!Goto, A!Idle, A!TypeOK
    <3> QED BY <2>3, <2>5, <3>1 DEF A!Put
  <2> QED BY <2>1, <2>2, <2>4, <2>5
<1>6. LeakedFiles'
  <2>1. leaked' \subseteq files'
    BY <1>5 DEF LeakedFiles
  <2>2. \A i \in leaked' : ~A!IsLive(i)'
    BY <1>1, <1>4, <1>5 DEF LeakedFiles, A!IsLive
  <2>3. \A s \in Requests : upload'[s] \in A!Uploading => upload'[s].image \notin leaked'
    BY <1>1, <1>2, <1>4, <1>5 DEF LeakedFiles
  <2>4. \A s \in Requests : At(s, {"unlink"})' => s # r /\ At(s, {"unlink"}) /\ upload'[s] = upload[s]
    BY <1>1, <1>2 DEF At
  <2>5. \A s \in Requests : At(s, {"unlink"})' => upload'[s].old \in files' \ leaked'
    BY <1>4, <1>5, <2>4 DEF LeakedFiles
  <2> QED BY <2>1, <2>2, <2>3, <2>4, <2>5 DEF LeakedFiles
<1>7. /\ bare \subseteq bare'
      /\ \A p \in Posts : At(r, {"unlink", "put", "row"}) /\ upload[r].post = p
                            /\ upload[r].role = "cover" => p \in bare'
  <2>1. bare' = A!Uncovered(r) \/ (UNCHANGED bare /\ upload[r].pc = "clean")
    <3>1. ~(A!Put(r) /\ upload' = [upload EXCEPT ![r] = A!Idle] /\ A!Goto(r, "row"))
      BY <1>2 DEF A!Goto, A!Idle, A!TypeOK
    <3> QED BY <3>1 DEF A!RefuseImage, A!Clean, A!Crash, A!Put
  <2> QED BY <2>1, UncoveredPosts DEF At
<1>8. OldIsACover' /\ CoverKept'
  BY <1>1, <1>7, CoversWhenDone
<1> QED BY <1>6, <1>8

LEMMA LossPut ==
  ASSUME ImageInv, LossInv, NEW r \in Requests, A!Put(r)
  PROVE  LossInv'
<1> USE DEF ImageInv, LossInv
<1>1. CASE upload' = [upload EXCEPT ![r] = A!Idle]
  BY <1>1, LossEnds
<1>2. CASE /\ files' = files \cup {upload[r].image} /\ UNCHANGED <<faults, leaked, bare>>
           /\ upload' = [upload EXCEPT ![r].pc = "row"]
  <2>1. /\ upload[r] \in A!Uploading /\ upload[r].pc = "put" /\ UNCHANGED images
    BY UploadTypes DEF A!Put, At
  <2>2. /\ upload'[r].pc = "row" /\ upload'[r].image = upload[r].image
        /\ upload'[r].old = upload[r].old
        /\ upload'[r].post = upload[r].post /\ upload'[r].role = upload[r].role
        /\ \A s \in Requests \ {r} : upload'[s] = upload[s]
    BY <1>2, <2>1 DEF A!TypeOK, A!Uploading
  <2>3. LeakedFiles'
    BY <1>2, <2>1, <2>2 DEF LeakedFiles, At, A!IsLive
  <2>4. OldIsACover'
    BY <2>1, <2>2 DEF OldIsACover
  <2>5. CoverKept'
    <3>1. \A p \in Posts : /\ A!HadCover(p)' <=> A!HadCover(p)
                           /\ A!Cover(p)' = A!Cover(p)
                           /\ A!Replacing(p) => A!Replacing(p)'
      BY <2>1, <2>2 DEF A!HadCover, A!Cover, A!IsLive, A!Replacing
    <3> QED BY <1>2, <3>1 DEF CoverKept
  <2> QED BY <2>3, <2>4, <2>5
<1> QED BY <1>1, <1>2 DEF A!Put, A!Goto, A!Done

LEMMA LossInsertImage ==
  ASSUME ImageInv, LossInv, NEW r \in Requests, A!InsertImage(r)
  PROVE  LossInv'
<1> USE DEF ImageInv, LossInv
<1> DEFINE q == upload[r]
           row == [post |-> q.post, role |-> q.role, status |-> "UPLOADED"]
<1>1. /\ q \in A!Uploading /\ q.pc = "row" /\ q.image \in Images /\ row \in A!ImageRow
      /\ images[q.image] = None /\ q.image \in files \ leaked /\ row # None /\ q.post \in Posts
      /\ UNCHANGED <<existing, files, crowded, leaked>>
  BY UploadTypes, NothingIsNoRow
  DEF A!InsertImage, At, A!Uploading, UploadsAreApart, A!ImageRow, LeakedFiles
<1>2. CASE /\ images' = [images EXCEPT ![q.image] = row]
           /\ bare' = IF q.role = "cover" THEN bare \ {q.post} ELSE bare
           /\ upload' = [upload EXCEPT ![r] = A!Idle]
  <2>1. /\ upload'[r] = A!Idle /\ \A s \in Requests \ {r} : upload'[s] = upload[s]
        /\ upload'[r] \notin A!Uploading /\ upload'[r].pc = "idle"
    BY <1>2 DEF A!TypeOK, A!Idle, A!Uploading
  <2>2. /\ images'[q.image] = row /\ \A i \in Images \ {q.image} : images'[i] = images[i]
        /\ row.post = q.post /\ row.role = q.role /\ row.status = "UPLOADED"
    BY <1>1, <1>2 DEF A!TypeOK
  <2>3. \A i \in Images : A!IsLive(i)' <=> A!IsLive(i) \/ i = q.image
    BY <1>1, <2>2 DEF A!IsLive
  <2> HIDE DEF q, row
  <2>4. LeakedFiles'
    BY <1>1, <2>1, <2>3 DEF LeakedFiles, At, A!TypeOK
  <2>5. OldIsACover'
    <3>1. \A s \in Requests : upload'[s] \in A!Uploading =>
            upload'[s] = upload[s] /\ upload[s].old \in Images \cup {None}
      BY <2>1 DEF A!Uploading
    <3>2. \A i \in Images : images[i] # None => images'[i] = images[i]
      BY <1>1, <2>2
    <3> QED BY <3>1, <3>2 DEF OldIsACover
  <2>6. CoverKept'
    <3> SUFFICES ASSUME NEW p \in Posts, A!HadCover(p)', p \notin bare', ~A!Replacing(p)'
                 PROVE  A!Cover(p)' # {}
      BY DEF CoverKept
    <3>1. CASE p = q.post /\ q.role = "cover"
      BY <1>1, <2>2, <2>3, <3>1 DEF A!Cover
    <3>2. CASE ~(p = q.post /\ q.role = "cover")
      <4>1. A!HadCover(p) /\ p \notin bare
        BY <1>1, <1>2, <2>2, <3>2 DEF A!HadCover
      <4>2. ~A!Replacing(p)
        BY <2>1, <3>2 DEF A!Replacing, q
      <4>3. A!Cover(p) \subseteq A!Cover(p)'
        BY <1>1, <2>2, <2>3 DEF A!Cover, A!IsLive
      <4> QED BY <4>1, <4>2, <4>3 DEF CoverKept
    <3> QED BY <3>1, <3>2
  <2> QED BY <2>4, <2>5, <2>6
<1>3. CASE /\ UNCHANGED images /\ bare' = A!Uncovered(r)
           /\ upload' = [upload EXCEPT ![r].pc = "clean"]
  <2> DEFINE next == [q EXCEPT !.pc = "clean"]
  <2>1. /\ next.pc = "clean" /\ next.image = q.image /\ next.post = q.post /\ next.role = q.role
        /\ next.old = q.old
    BY <1>1 DEF A!Uploading
  <2>2. upload' = [upload EXCEPT ![r] = next]
    BY <1>3
  <2> HIDE DEF next
  <2>3. upload'[r] = next /\ \A s \in Requests \ {r} : upload'[s] = upload[s]
    BY <2>2 DEF A!TypeOK
  <2>4. LeakedFiles'
    BY <1>1, <1>3, <2>1, <2>3 DEF LeakedFiles, At, A!IsLive
  <2>5. /\ bare \subseteq bare'
        /\ \A p \in Posts : At(r, {"unlink", "put", "row"}) /\ upload[r].post = p
                              /\ upload[r].role = "cover" => p \in bare'
    BY <1>1, <1>3, UncoveredPosts DEF At
  <2>6. OldIsACover' /\ CoverKept'
    <3>1. /\ upload'[r].pc \in {"idle", "clean"} /\ UNCHANGED images
          /\ upload'[r] \in A!Uploading =>
               /\ upload[r] \in A!Uploading /\ upload'[r].old = upload[r].old
               /\ upload'[r].post = upload[r].post /\ upload'[r].role = upload[r].role
      BY <1>1, <1>3, <2>1, <2>3
    <3> QED BY <2>3, <2>5, <3>1, CoversWhenLeaving
  <2> QED BY <2>4, <2>6
<1> QED BY <1>2, <1>3 DEF A!InsertImage, A!Failed, A!Goto, A!Done

LEMMA LossOthers ==
  ASSUME ImageInv, LossInv,
         \/ UNCHANGED pictures
         \/ \E p \in Posts : A!DeletePost(p)
         \/ \E r \in Requests, i \in Images : A!BeginRemove(r, i)
  PROVE  LossInv'
<1> USE DEF ImageInv, LossInv
<1>1. UNCHANGED <<images, files, leaked, bare>>
  BY DEF pictures, A!DeletePost, A!BeginRemove
<1>2. ASSUME NEW s \in Requests
      PROVE  upload'[s] = upload[s] \/ (upload'[s].pc = "delete" /\ upload'[s] \notin A!Uploading
                                        /\ upload[s] = A!Idle)
  BY NothingIsNobody DEF pictures, A!DeletePost, A!BeginRemove, A!TypeOK, A!Uploading
<1>3. LeakedFiles'
  BY <1>1, <1>2 DEF LeakedFiles, At, A!IsLive
<1>4. OldIsACover'
  BY <1>1, <1>2 DEF OldIsACover
<1>5. CoverKept'
  <2>1. \A p \in Posts : /\ A!HadCover(p)' <=> A!HadCover(p)
                         /\ A!Cover(p)' = A!Cover(p)
                         /\ A!Replacing(p) => A!Replacing(p)'
    BY <1>1, <1>2 DEF A!HadCover, A!Cover, A!IsLive, A!Replacing, A!Idle
  <2> QED BY <1>1, <2>1 DEF CoverKept
<1> QED BY <1>3, <1>4, <1>5

LEMMA LossNext == ImageInv /\ LossInv /\ [A!Next]_pictures => LossInv'
BY LossBeginUpload, LossSoftDelete, LossUnlink, LossPut, LossInsertImage, LossEnds, LossOthers
DEF A!Next

(* However uploads and removals overlap and fail: a shown image has a whole *)
(* file, a file that is not needed is being removed or known to be leaked,  *)
(* and a post is without the cover it had only while the next is being      *)
(* stored, or when it was removed or the last upload of a cover ended       *)
(* without one.  Unless two uploads of covers overlapped, it has one at     *)
(* most.                                                                   *)
THEOREM ImagesHaveFiles == Spec => []ImagesAndFiles
<1>1. Init => ImageInv /\ LossInv
  <2>1. Init => LossInv
    BY DEF Init, A!Init, A!Idle, A!Uploading, LossInv, LeakedFiles, OldIsACover, CoverKept, At,
           A!HadCover
  <2> QED BY <2>1, ImageInit DEF Init
<1>2. ImageInv /\ LossInv /\ [Next]_vars => ImageInv' /\ LossInv'
  BY ImageNext, LossNext DEF Next, vars
<1>3. ImageInv /\ LossInv => ImagesAndFiles
  <2> SUFFICES ASSUME ImageInv, LossInv PROVE A!ImagesAndFiles
    BY DEF ImagesAndFiles
  <2>1. ASSUME NEW p \in Posts \ crowded PROVE A!Cardinality(A!Cover(p)) <= 1
    <3>1. A!Cover(p) = {} \/ \E i : A!Cover(p) = {i}
      BY DEF ImageInv, OneCover
    <3>2. Cardinality(A!Cover(p)) \in {0, 1}
      BY <3>1, FS_EmptySet, FS_Singleton
    <3>3. A!Cardinality(A!Cover(p)) = Cardinality(A!Cover(p))
      BY DEF A!Cardinality, Cardinality
    <3> QED BY <3>2, <3>3
  <2>2. \A i \in Images : A!IsLive(i) => i \in files \ leaked
    BY DEF ImageInv, LossInv, FilesAreThere, LeakedFiles
  <2>3. \A p \in Posts : A!HadCover(p) /\ p \notin bare => A!Cover(p) # {} \/ A!Replacing(p)
    BY DEF LossInv, CoverKept
  <2>4. \A i \in files \ leaked : ~A!IsLive(i) =>
          \E r \in Requests :
            \/ upload[r].pc \in {"row", "clean"} /\ upload[r].image = i
            \/ upload[r].pc = "unlink" /\ upload[r].old = i
    BY DEF ImageInv, NoFileIsForgotten, At
  <2> QED BY <2>1, <2>2, <2>3, <2>4 DEF A!ImagesAndFiles
<1> QED BY <1>1, <1>2, <1>3, PTL DEF Spec

-----------------------------------------------------------------------------
(* The creation of notifications. *)

(* The rows that say what command c says. *)
Alike(c) == {x \in notices : Command[x.command].print = Command[c].print}

(* Rows are those of their commands. *)
RowsAreOfCommands ==
  \A x \in notices : /\ x.key = T!Key(x.command)
                     /\ x.suffix = T!Suffix(x.command, x.target)
                     /\ x.target \in Command[x.command].targets

OneMaker ==
  \A x, y \in notices : x.command = y.command /\ x.key # None => x.by = y.by

ToldTheTruth ==
  \A r \in Requests :
    calls[r].pc = "done" /\ calls[r].answer # "refused" /\ ~calls[r].raced =>
      Cardinality(Alike(calls[r].command)) >= Cardinality(Command[calls[r].command].targets)

NoticeInv ==
  T!TypeOK /\ IsFiniteSet(notices) /\ RowsAreOfCommands /\ OneMaker /\ ToldTheTruth

LEMMA NoticeCardinality == ASSUME NEW S PROVE T!Cardinality(S) = Cardinality(S)
BY DEF T!Cardinality, Cardinality

LEMMA TargetsAreCounted ==
  ASSUME NEW c \in Commands
  PROVE  /\ IsFiniteSet(Command[c].targets)
         /\ Cardinality(Command[c].targets) \in Nat
         /\ Command[c].targets \subseteq Targets
<1>1. Command[c].targets \subseteq Targets
  BY CommandsAreTyped DEF T!CommandRow
<1> QED BY <1>1, TargetsAreFinite, FS_Subset, FS_CardinalityType

(* A request makes one row per target. *)
LEMMA RowPerTarget ==
  ASSUME NEW r \in Requests, NEW c \in Commands
  PROVE  /\ IsFiniteSet(T!Rows(r, c))
         /\ Cardinality(T!Rows(r, c)) = Cardinality(Command[c].targets)
<1> DEFINE S == Command[c].targets
           Row(t) == [key |-> T!Key(c), suffix |-> T!Suffix(c, t), target |-> t,
                      command |-> c, by |-> r]
           f == [t \in S |-> Row(t)]
<1>1. T!Rows(r, c) = {Row(t) : t \in S}
  BY DEF T!Rows
<1>2. f \in Surjection(S, T!Rows(r, c))
  BY <1>1 DEF Surjection
<1>3. f \in Injection(S, T!Rows(r, c))
  <2>1. \A t, u \in S : f[t] = f[u] => t = u
    <3> SUFFICES ASSUME NEW t \in S, NEW u \in S, f[t] = f[u] PROVE t = u
      OBVIOUS
    <3>1. f[t].target = t /\ f[u].target = u
      OBVIOUS
    <3> QED BY <3>1
  <2> QED BY <1>2, <2>1 DEF Surjection, Injection, IsInjective
<1> QED BY <1>2, <1>3, TargetsAreCounted, FS_Surjection

LEMMA NoticeInit == T!Init => NoticeInv
<1> SUFFICES ASSUME T!Init PROVE NoticeInv
  OBVIOUS
<1>1. notices = {} /\ calls = [r \in Requests |-> T!Idle]
  BY DEF T!Init
<1>2. T!TypeOK
  BY <1>1 DEF T!TypeOK, T!Call
<1>3. ToldTheTruth
  BY <1>1 DEF ToldTheTruth, T!Idle
<1> QED BY <1>1, <1>2, <1>3, FS_EmptySet DEF NoticeInv, RowsAreOfCommands, OneMaker

(* A step that makes no rows has to be true to the one it answers.          *)
LEMMA NoNewRows ==
  ASSUME NoticeInv, notices' = notices, NEW r \in Requests, NEW new \in T!Call,
         calls' = [calls EXCEPT ![r] = new],
         new.pc = "done" /\ new.answer # "refused" /\ ~new.raced =>
           Cardinality(Alike(new.command)) >= Cardinality(Command[new.command].targets)
  PROVE  NoticeInv'
<1> USE DEF NoticeInv
<1>1. T!TypeOK'
  BY DEF T!TypeOK
<1>2. \A s \in Requests : calls'[s] = IF s = r THEN new ELSE calls[s]
  BY DEF T!TypeOK
<1>3. \A c : Alike(c)' = Alike(c)
  BY DEF Alike
<1>4. ToldTheTruth'
  <2> SUFFICES ASSUME NEW s \in Requests, calls'[s].pc = "done",
                      calls'[s].answer # "refused", ~calls'[s].raced
               PROVE  Cardinality(Alike(calls[s].command)') >=
                        Cardinality(Command[calls'[s].command].targets)
    BY DEF ToldTheTruth
  <2>1. Alike(calls[s].command)' = Alike(calls'[s].command)
    BY DEF Alike
  <2> QED BY <1>2, <2>1 DEF ToldTheTruth
<1>5. RowsAreOfCommands' /\ OneMaker'
  BY DEF RowsAreOfCommands, OneMaker
<1> QED BY <1>1, <1>4, <1>5

(* Rows are looked for: a replay finds as many alike as it asks for.        *)
LEMMA LookStep ==
  ASSUME NoticeInv, NEW r \in Requests, NEW c \in Commands, T!Look(r, c)
  PROVE  NoticeInv'
<1>1. CASE T!Goto(r, "create", c)
  <2> DEFINE new == [pc |-> "create", command |-> c]
  <2>1. new \in T!Call /\ new.pc # "done"
    BY DEF T!Call
  <2>2. calls' = [calls EXCEPT ![r] = new] /\ notices' = notices
    BY <1>1 DEF T!Goto
  <2> HIDE DEF new
  <2> QED BY <2>1, <2>2, NoNewRows
<1>2. CASE /\ T!Answer(r, c, IF T!Matches(c, T!Found(c)) THEN "replayed" ELSE "refused")
           /\ UNCHANGED notices
  <2> DEFINE new == [pc |-> "done", command |-> c,
                     answer |-> IF T!Matches(c, T!Found(c)) THEN "replayed" ELSE "refused",
                     raced |-> calls[r].pc = "resolve"]
  <2>1. (calls[r].pc = "resolve") \in BOOLEAN
    OBVIOUS
  <2>2. /\ new \in T!Call /\ new.command = c
        /\ new.answer # "refused" => T!Matches(c, T!Found(c))
    BY <2>1 DEF T!Call, T!Answers
  <2>3. calls' = [calls EXCEPT ![r] = new] /\ notices' = notices
    BY <1>2 DEF T!Answer
  <2>4. ASSUME T!Matches(c, T!Found(c))
        PROVE  Cardinality(Alike(c)) >= Cardinality(Command[c].targets)
    <3>1. T!Found(c) \subseteq Alike(c)
      BY <2>4 DEF T!Matches, T!Found, Alike
    <3>2. IsFiniteSet(Alike(c))
      BY FS_Subset DEF Alike, NoticeInv
    <3>3. Cardinality(T!Found(c)) = Cardinality(Command[c].targets)
      BY <2>4, NoticeCardinality DEF T!Matches
    <3>4. /\ Cardinality(T!Found(c)) <= Cardinality(Alike(c))
          /\ Cardinality(Alike(c)) \in Nat
      BY <3>1, <3>2, FS_Subset, FS_CardinalityType
    <3> QED BY <3>3, <3>4, TargetsAreCounted
  <2> HIDE DEF new
  <2> QED BY <2>2, <2>3, <2>4, NoNewRows
<1> QED BY <1>1, <1>2 DEF T!Look

(* Rows are made where the indexes let them: nobody made them before.       *)
LEMMA MakeRows ==
  ASSUME NoticeInv, NEW r \in Requests, NEW c \in Commands,
         ~T!Taken(c),
         notices' = notices \cup T!Rows(r, c),
         T!Answer(r, c, "created")
  PROVE  NoticeInv'
<1> USE DEF NoticeInv
<1> DEFINE new == [pc |-> "done", command |-> c, answer |-> "created",
                   raced |-> calls[r].pc = "resolve"]
<1>1. (calls[r].pc = "resolve") \in BOOLEAN
  OBVIOUS
<1>2. new \in T!Call /\ new.command = c
  BY <1>1 DEF T!Call, T!Answers
<1>3. calls' = [calls EXCEPT ![r] = new]
  BY DEF T!Answer
<1> HIDE DEF new
<1>4. /\ calls' \in [Requests -> T!Call]
      /\ \A s \in Requests : calls'[s] = IF s = r THEN new ELSE calls[s]
  BY <1>2, <1>3 DEF T!TypeOK
<1>5. \A x \in T!Rows(r, c) :
        /\ x \in [key : Keys \cup {None}, suffix : T!KeySuffixes,
                  target : Targets, command : Commands, by : Requests]
        /\ x.key = T!Key(c) /\ x.suffix = T!Suffix(c, x.target)
        /\ x.target \in Command[c].targets
        /\ x.command = c /\ x.by = r
  <2>1. T!Key(c) \in Keys \cup {None}
    BY CommandsAreTyped DEF T!Key, T!CommandRow
  <2>2. \A t \in Command[c].targets : t \in Targets /\ T!Suffix(c, t) \in T!KeySuffixes
    BY TargetsAreCounted, CommandsAreTyped DEF T!Suffix, T!KeySuffixes, T!CommandRow
  <2> QED BY <2>1, <2>2 DEF T!Rows
<1>6. T!TypeOK'
  BY <1>4, <1>5 DEF T!TypeOK
<1>7. IsFiniteSet(notices')
  BY RowPerTarget, FS_Union
<1>8. RowsAreOfCommands'
  BY <1>5 DEF RowsAreOfCommands
<1>9. OneMaker'
  <2>1. ASSUME NEW x \in notices, x.command = c, x.key # None PROVE FALSE
    BY <2>1 DEF T!Taken, RowsAreOfCommands
  <2>2. \A x \in notices : x.command = c => x.key = T!Key(c)
    BY DEF RowsAreOfCommands
  <2> QED BY <1>5, <2>1, <2>2 DEF OneMaker
<1>10. ToldTheTruth'
  <2> SUFFICES ASSUME NEW s \in Requests, calls'[s].pc = "done",
                      calls'[s].answer # "refused", ~calls'[s].raced
               PROVE  Cardinality(Alike(calls[s].command)') >=
                        Cardinality(Command[calls'[s].command].targets)
    BY DEF ToldTheTruth
  <2> DEFINE k == calls'[s].command
             alike == {x \in notices' : Command[x.command].print = Command[k].print}
  <2>1. Alike(calls[s].command)' = alike
    BY DEF Alike
  <2>2. IsFiniteSet(alike) /\ Cardinality(alike) \in Nat
    BY <1>7, FS_Subset, FS_CardinalityType
  <2>3. CASE s = r
    <3>1. k = c
      BY <1>2, <1>4, <2>3
    <3>2. T!Rows(r, c) \subseteq alike
      BY <1>5, <3>1
    <3>3. Cardinality(T!Rows(r, c)) <= Cardinality(alike)
      BY <2>2, <3>2, FS_Subset
    <3> QED BY <2>1, <2>2, <3>1, <3>3, RowPerTarget, TargetsAreCounted
  <2>4. CASE s # r
    <3>1. calls'[s] = calls[s] /\ k \in Commands
      BY <1>4, <2>4 DEF T!TypeOK, T!Call, T!Idle
    <3>2. Cardinality(Alike(k)) >= Cardinality(Command[k].targets)
      BY <3>1 DEF ToldTheTruth
    <3>3. Alike(k) \subseteq alike
      BY DEF Alike
    <3>4. Cardinality(Alike(k)) <= Cardinality(alike) /\ Cardinality(Alike(k)) \in Nat
      BY <2>2, <3>3, FS_Subset, FS_CardinalityType
    <3> QED BY <2>1, <2>2, <3>1, <3>2, <3>4, TargetsAreCounted
  <2> QED BY <2>3, <2>4
<1> QED BY <1>6, <1>7, <1>8, <1>9, <1>10

(* Answers without new rows; what was raced promises nothing.               *)
LEMMA RefuseOrResolve ==
  ASSUME NoticeInv, NEW r \in Requests, NEW c \in Commands,
         \/ T!Goto(r, "resolve", c)
         \/ T!Answer(r, c, "refused") /\ UNCHANGED notices
         \/ /\ calls[r].pc = "resolve"
            /\ \E answer \in {"refused", "replayed"} : T!Answer(r, c, answer)
            /\ UNCHANGED notices
  PROVE  NoticeInv'
<1>1. CASE T!Goto(r, "resolve", c)
  <2> DEFINE new == [pc |-> "resolve", command |-> c]
  <2>1. new \in T!Call /\ new.pc # "done"
    BY DEF T!Call
  <2>2. calls' = [calls EXCEPT ![r] = new] /\ notices' = notices
    BY <1>1 DEF T!Goto
  <2> HIDE DEF new
  <2> QED BY <2>1, <2>2, NoNewRows
<1>2. ASSUME NEW answer \in {"refused", "replayed"}, T!Answer(r, c, answer), UNCHANGED notices,
             answer = "refused" \/ calls[r].pc = "resolve"
      PROVE  NoticeInv'
  <2> DEFINE new == [pc |-> "done", command |-> c, answer |-> answer,
                     raced |-> calls[r].pc = "resolve"]
  <2>1. (calls[r].pc = "resolve") \in BOOLEAN
    OBVIOUS
  <2>2. new \in T!Call /\ (new.answer = "refused" \/ new.raced)
    BY <1>2, <2>1 DEF T!Call, T!Answers
  <2>3. calls' = [calls EXCEPT ![r] = new] /\ notices' = notices
    BY <1>2 DEF T!Answer
  <2> HIDE DEF new
  <2> QED BY <2>2, <2>3, NoNewRows
<1> QED BY <1>1, <1>2

LEMMA NoticeNext == NoticeInv /\ [T!Next]_announcing => NoticeInv'
<1> SUFFICES ASSUME NoticeInv, [T!Next]_announcing PROVE NoticeInv'
  OBVIOUS
<1>1. ASSUME NEW r \in Requests, T!Create(r) \/ T!Resolve(r) PROVE NoticeInv'
  <2> DEFINE c == calls[r].command
  <2>1. c \in Commands
    BY <1>1 DEF T!Create, T!Resolve, NoticeInv, T!TypeOK, T!Call, T!Idle
  <2>2. CASE T!Create(r)
    BY <2>1, <2>2, MakeRows, RefuseOrResolve DEF T!Create
  <2>3. CASE T!Resolve(r)
    BY <2>1, <2>3, RefuseOrResolve DEF T!Resolve
  <2> QED BY <1>1, <2>2, <2>3
<1>2. CASE UNCHANGED announcing
  BY <1>2 DEF announcing, NoticeInv, T!TypeOK, RowsAreOfCommands, OneMaker, ToldTheTruth, Alike
<1> QED BY <1>1, <1>2, LookStep DEF T!Next

(* An event is announced once, however many requests announce it at a time, *)
(* and a request that was told its rows are there was told the truth.       *)
THEOREM AnnouncedOnce == Spec => []NotifiedOnce
<1>1. Init => NoticeInv
  BY NoticeInit DEF Init
<1>2. NoticeInv /\ [Next]_vars => NoticeInv'
  BY NoticeNext DEF Next, vars
<1>3. NoticeInv => NotifiedOnce
  BY NoticeCardinality DEF NoticeInv, NotifiedOnce, T!NotifiedOnce, OneMaker, ToldTheTruth, Alike
<1> QED BY <1>1, <1>2, <1>3, PTL DEF Spec

(* The rows of a command with a key are all that one request made. *)
RowsAreWhole ==
  \A x \in notices : x.key # None =>
    {y \in notices : y.command = x.command} = T!Rows(x.by, x.command)

LEMMA RowsStayWhole ==
  ASSUME NoticeInv, RowsAreWhole, [T!Next]_announcing
  PROVE  RowsAreWhole'
<1>1. CASE notices' = notices
  BY <1>1 DEF RowsAreWhole
<1>2. ASSUME NEW r \in Requests, NEW c \in Commands, ~T!Taken(c),
             notices' = notices \cup T!Rows(r, c)
      PROVE  RowsAreWhole'
  <2>1. \A x \in T!Rows(r, c) : x.command = c /\ x.by = r /\ x.key = T!Key(c)
    BY DEF T!Rows
  <2>2. \A x \in notices : x.command = c => x.key = T!Key(c) /\ x.key = None
    BY <1>2 DEF T!Taken, NoticeInv, RowsAreOfCommands
  <2> SUFFICES ASSUME NEW x \in notices', x.key # None
               PROVE  {y \in notices' : y.command = x.command} = T!Rows(x.by, x.command)
    BY DEF RowsAreWhole
  <2>3. CASE x \in notices
    <3>1. x.command # c
      BY <2>2, <2>3
    <3>2. {y \in notices' : y.command = x.command} = {y \in notices : y.command = x.command}
      BY <1>2, <2>1, <3>1
    <3> QED BY <2>3, <3>2 DEF RowsAreWhole
  <2>4. CASE x \in T!Rows(r, c)
    <3>1. x.command = c /\ x.by = r /\ T!Key(c) # None
      BY <2>1, <2>4
    <3>2. {y \in notices' : y.command = c} = T!Rows(r, c)
      BY <1>2, <2>1, <2>2, <3>1
    <3> QED BY <3>1, <3>2
  <2> QED BY <1>2, <2>3, <2>4
<1>3. ASSUME NEW r \in Requests, T!Create(r) PROVE RowsAreWhole'
  <2>1. calls[r].command \in Commands
    BY <1>3 DEF T!Create, NoticeInv, T!TypeOK, T!Call, T!Idle
  <2> QED BY <1>1, <1>2, <1>3, <2>1 DEF T!Create, T!Goto
<1> QED BY <1>1, <1>3 DEF T!Next, T!Look, T!Goto, T!Resolve, announcing

(* What a request answers at once, and how *)
AnsweredAtOnce(r, answer) ==
  calls[r].pc = "idle" /\ calls'[r].pc = "done" /\ calls'[r].answer = answer

(* The rows under the key of command c are c's own. *)
KeyIsItsOwn(c) ==
  /\ T!Key(c) # None /\ T!Key(c) \notin Long
  /\ \A x \in T!Found(c) : x.command = c

(* A repeat of what was announced is answered with the rows that exist: the *)
(* part of DuplicatesAreReplayed that holds, and what it takes.  The key    *)
(* was not cut and no other event uses it or one that begins with it, and   *)
(* jsonb returns the payload as it came.                                    *)
OrderedAreReplayed ==
  [][\A r \in Requests, c \in Commands :
       calls'[r] # T!Idle /\ calls'[r].command = c /\ KeyIsItsOwn(c) /\ Command[c].ordered
         => ~AnsweredAtOnce(r, "refused")]_vars

LEMMA OwnRowsMatch ==
  ASSUME NoticeInv, RowsAreWhole, NEW c \in Commands, KeyIsItsOwn(c), Command[c].ordered,
         T!Found(c) # {}
  PROVE  T!Matches(c, T!Found(c))
<1>1. PICK x \in notices : x \in T!Found(c) /\ x.command = c /\ x.key = T!Key(c) /\ x.key # None
  BY DEF T!Found, KeyIsItsOwn, NoticeInv, RowsAreOfCommands
<1>2. T!Found(c) = {y \in notices : y.command = c}
  BY DEF T!Found, KeyIsItsOwn, NoticeInv, RowsAreOfCommands
<1>3. T!Found(c) = T!Rows(x.by, c) /\ x.by \in Requests
  BY <1>1, <1>2 DEF RowsAreWhole, NoticeInv, T!TypeOK
<1>4. T!Cardinality(T!Found(c)) = T!Cardinality(Command[c].targets)
  BY <1>3, RowPerTarget, NoticeCardinality
<1> QED BY <1>4 DEF T!Matches, KeyIsItsOwn

(* Of announcements with a key of their own and a payload that comes back   *)
(* as it went, none that finds its rows there is turned away.               *)
THEOREM RepeatsAreReplayed == Spec => OrderedAreReplayed
<1>1. Init => NoticeInv /\ RowsAreWhole
  BY NoticeInit DEF Init, T!Init, RowsAreWhole
<1>2. NoticeInv /\ RowsAreWhole /\ [Next]_vars => NoticeInv' /\ RowsAreWhole'
  BY NoticeNext, RowsStayWhole DEF Next, vars
<1>3. NoticeInv /\ RowsAreWhole /\ [Next]_vars =>
        [\A r \in Requests, c \in Commands :
           calls'[r] # T!Idle /\ calls'[r].command = c /\ KeyIsItsOwn(c) /\ Command[c].ordered
             => ~AnsweredAtOnce(r, "refused")]_vars
  <2> SUFFICES ASSUME NoticeInv, RowsAreWhole, [T!Next]_announcing,
                      NEW r \in Requests, NEW c \in Commands, calls'[r].command = c,
                      KeyIsItsOwn(c), Command[c].ordered, AnsweredAtOnce(r, "refused")
               PROVE  FALSE
    BY DEF Next, vars
  <2>1. \E s \in Requests, d \in Commands : T!Look(s, d)
    BY DEF AnsweredAtOnce, T!Next, T!Create, T!Resolve, T!Goto, T!Answer, NoticeInv, T!TypeOK,
           announcing
  <2>2. PICK s \in Requests, d \in Commands : T!Look(s, d)
    BY <2>1
  <2>3. /\ s = r /\ d = c /\ T!Found(d) # {}
        /\ T!Answer(s, d, IF T!Matches(d, T!Found(d)) THEN "replayed" ELSE "refused")
    BY <2>2 DEF AnsweredAtOnce, T!Look, T!Goto, T!Answer, NoticeInv, T!TypeOK
  <2>4. T!Matches(c, T!Found(c))
    BY <2>3, OwnRowsMatch
  <2> QED BY <2>3, <2>4 DEF AnsweredAtOnce, T!Answer, NoticeInv, T!TypeOK
<1> QED BY <1>1, <1>2, <1>3, PTL DEF Spec, OrderedAreReplayed

-----------------------------------------------------------------------------
(* Sums over finite sets, as the folds of the community modules compute them. *)
(* What holds of the sum over every finite set is shown by a smallest subset *)
(* of which it does not hold.                                               *)

(* The element a fold takes first *)
Some(s) == CHOOSE x \in s : TRUE

(* g is the fold of f over the subsets of S *)
IsSum(g, f, S) ==
  g = [s \in SUBSET S |-> IF s = {} THEN 0 ELSE f[Some(s)] + g[s \ {Some(s)}]]

Sum(f, S) == (CHOOSE g : IsSum(g, f, S))[S]

(* Among subsets of a finite set there is a smallest one. *)
LEMMA Smallest ==
  ASSUME NEW S, IsFiniteSet(S), NEW W, W \subseteq SUBSET S, W # {}
  PROVE  \E U \in W : \A V \in W : V \subseteq U => V = U
<1> DEFINE Below == StrictSubsetOrdering(S)
           Finite == FiniteSubsetsOf(S)
<1>1. IsWellFoundedOn(Below, Finite)
  BY FS_StrictSubsetOrderingWellFounded
<1>2. Finite = SUBSET S
  BY FS_FiniteSubsetsOfFinite
<1> HIDE DEF Below, Finite
<1>3. PICK U \in W : \A V \in W : <<V, U>> \notin Below
  <2>1. W \subseteq Finite
    BY <1>2
  <2> QED BY ONLY <1>1, <2>1, W # {}, WFMin
<1> QED BY <1>3 DEF Below, StrictSubsetOrdering

LEMMA SomeIn == ASSUME NEW S, S # {} PROVE Some(S) \in S
  BY DEF Some

(* Folds over two sets agree on the subsets of both. *)
LEMMA SumsAgree ==
  ASSUME NEW S, IsFiniteSet(S), NEW f, NEW W, NEW g, NEW h, IsSum(g, f, S), IsSum(h, f, W)
  PROVE  \A U \in SUBSET S : U \subseteq W => g[U] = h[U]
<1> DEFINE Bad == {U \in SUBSET S : U \subseteq W /\ g[U] # h[U]}
<1> SUFFICES ASSUME Bad # {} PROVE FALSE
  OBVIOUS
<1>1. PICK U \in Bad : \A V \in Bad : V \subseteq U => V = U
  <2>1. Bad \subseteq SUBSET S
    OBVIOUS
  <2> HIDE DEF Bad
  <2> QED BY <2>1, Smallest
<1>2. g[U] = IF U = {} THEN 0 ELSE f[Some(U)] + g[U \ {Some(U)}]
  BY DEF IsSum
<1>3. h[U] = IF U = {} THEN 0 ELSE f[Some(U)] + h[U \ {Some(U)}]
  BY DEF IsSum
<1>4. U # {} => U \ {Some(U)} \notin Bad
  BY <1>1, SomeIn
<1>5. U # {} => g[U \ {Some(U)}] = h[U \ {Some(U)}]
  BY <1>4
<1> QED BY <1>2, <1>3, <1>5

LEMMA SumExists ==
  ASSUME NEW S, IsFiniteSet(S), NEW f
  PROVE  \E g : IsSum(g, f, S)
<1> DEFINE Bad == {U \in SUBSET S : ~ \E g : IsSum(g, f, U)}
           G(U) == CHOOSE g : IsSum(g, f, U)
<1> SUFFICES ASSUME Bad # {} PROVE FALSE
  OBVIOUS
<1>1. PICK U \in Bad : \A V \in Bad : V \subseteq U => V = U
  <2>1. Bad \subseteq SUBSET S
    OBVIOUS
  <2> HIDE DEF Bad
  <2> QED BY <2>1, Smallest
<1>2. \A V \in SUBSET U : V # U => IsSum(G(V), f, V)
  BY <1>1
<1> DEFINE h == [s \in SUBSET U |-> IF s = {} THEN 0
                   ELSE f[Some(s)] + G(s \ {Some(s)})[s \ {Some(s)}]]
<1>3. ASSUME NEW s \in SUBSET U, s # U PROVE h[s] = G(s)[s]
  <2>1. IsSum(G(s), f, s)
    BY <1>2, <1>3
  <2>2. G(s)[s] = IF s = {} THEN 0 ELSE f[Some(s)] + G(s)[s \ {Some(s)}]
    <3> HIDE DEF G
    <3> QED BY <2>1 DEF IsSum
  <2>3. s # {} => G(s)[s \ {Some(s)}] = G(s \ {Some(s)})[s \ {Some(s)}]
    <3> SUFFICES ASSUME s # {} PROVE G(s)[s \ {Some(s)}] = G(s \ {Some(s)})[s \ {Some(s)}]
      OBVIOUS
    <3>1. IsSum(G(s \ {Some(s)}), f, s \ {Some(s)})
      BY <1>2, <1>3, SomeIn
    <3>2. IsFiniteSet(s)
      BY FS_Subset
    <3> HIDE DEF G
    <3> QED BY <2>1, <3>1, <3>2, SumsAgree
  <2> HIDE DEF G
  <2> QED BY <2>2, <2>3
<1>4. IsSum(h, f, U)
  <2>1. ASSUME NEW s \in SUBSET U, s # {} PROVE h[s \ {Some(s)}] = G(s \ {Some(s)})[s \ {Some(s)}]
    <3>1. s \ {Some(s)} \in SUBSET U /\ s \ {Some(s)} # U
      BY <2>1, SomeIn
    <3> HIDE DEF h, G
    <3> QED BY <1>3, <3>1
  <2>2. h = [s \in SUBSET U |-> IF s = {} THEN 0 ELSE f[Some(s)] + h[s \ {Some(s)}]]
    <3>1. \A s \in SUBSET U : h[s] = IF s = {} THEN 0 ELSE f[Some(s)] + h[s \ {Some(s)}]
      <4>1. \A s \in SUBSET U :
              h[s] = IF s = {} THEN 0 ELSE f[Some(s)] + G(s \ {Some(s)})[s \ {Some(s)}]
        OBVIOUS
      <4> HIDE DEF h, G
      <4> QED BY <4>1, <2>1
    <3>2. h = [s \in SUBSET U |-> h[s]]
      OBVIOUS
    <3> HIDE DEF h
    <3> QED BY <3>1, <3>2
  <2> HIDE DEF h
  <2> QED BY <2>2 DEF IsSum
<1> QED BY <1>1, <1>4

(* What a fold over a set computes: the recursion that defines it. *)
LEMMA SumDef ==
  ASSUME NEW S, IsFiniteSet(S), NEW f
  PROVE  /\ S = {} => Sum(f, S) = 0
         /\ S # {} => Sum(f, S) = f[Some(S)] + Sum(f, S \ {Some(S)})
<1> DEFINE G(U) == CHOOSE g : IsSum(g, f, U)
<1>1. \A U \in SUBSET S : IsFiniteSet(U) /\ IsSum(G(U), f, U)
  BY FS_Subset, SumExists
<1>2. \A U : Sum(f, U) = G(U)[U]
  BY DEF Sum
<1> HIDE DEF G
<1>3. G(S)[S] = IF S = {} THEN 0 ELSE f[Some(S)] + G(S)[S \ {Some(S)}]
  BY <1>1 DEF IsSum
<1>4. S # {} => G(S)[S \ {Some(S)}] = G(S \ {Some(S)})[S \ {Some(S)}]
  BY <1>1, SumsAgree
<1> QED BY <1>2, <1>3, <1>4

LEMMA SumNat ==
  ASSUME NEW S, IsFiniteSet(S), NEW f, \A x \in S : f[x] \in Nat
  PROVE  Sum(f, S) \in Nat
<1> DEFINE Bad == {U \in SUBSET S : Sum(f, U) \notin Nat}
<1> SUFFICES ASSUME Bad # {} PROVE FALSE
  OBVIOUS
<1>1. PICK U \in Bad : \A V \in Bad : V \subseteq U => V = U
  <2>1. Bad \subseteq SUBSET S
    OBVIOUS
  <2> HIDE DEF Bad
  <2> QED BY <2>1, Smallest
<1>2. IsFiniteSet(U)
  BY FS_Subset
<1>3. U # {} => Some(U) \in U /\ Sum(f, U \ {Some(U)}) \in Nat
  BY <1>1, SomeIn
<1>4. /\ U = {} => Sum(f, U) = 0
      /\ U # {} => Sum(f, U) = f[Some(U)] + Sum(f, U \ {Some(U)})
  BY <1>2, SumDef
<1>5. Some(U) \in U => f[Some(U)] \in Nat
  OBVIOUS
<1> QED BY <1>3, <1>4, <1>5

(* A sum may begin with any element of its set. *)
LEMMA SumRemove ==
  ASSUME NEW S, IsFiniteSet(S), NEW f, \A x \in S : f[x] \in Nat, NEW y \in S
  PROVE  Sum(f, S) = f[y] + Sum(f, S \ {y})
<1> DEFINE Bad == {U \in SUBSET S : \E z \in U : Sum(f, U) # f[z] + Sum(f, U \ {z})}
<1> SUFFICES ASSUME Bad # {} PROVE FALSE
  OBVIOUS
<1>1. PICK U \in Bad : \A V \in Bad : V \subseteq U => V = U
  <2>1. Bad \subseteq SUBSET S
    OBVIOUS
  <2> HIDE DEF Bad
  <2> QED BY <2>1, Smallest
<1>2. PICK z \in U : Sum(f, U) # f[z] + Sum(f, U \ {z})
  BY <1>1
<1> DEFINE x == Some(U)
           W == (U \ {x}) \ {z}
<1>3. x \in U
  BY SomeIn
<1>4. \A V \in SUBSET S : IsFiniteSet(V) /\ Sum(f, V) \in Nat
  BY FS_Subset, SumNat
<1>5. Sum(f, U) = f[x] + Sum(f, U \ {x})
  BY <1>3, <1>4, SumDef
<1> HIDE DEF x
<1>6. x # z
  BY <1>2, <1>5
<1>7. \A V \in SUBSET U : V # U => V \notin Bad
  BY <1>1
<1>8. Sum(f, U \ {x}) = f[z] + Sum(f, W)
  BY <1>3, <1>6, <1>7
<1>9. Sum(f, U \ {z}) = f[x] + Sum(f, W)
  <2>1. U \ {z} \notin Bad
    BY <1>7
  <2>2. Sum(f, U \ {z}) = f[x] + Sum(f, (U \ {z}) \ {x})
    BY <2>1, <1>3, <1>6
  <2>3. (U \ {z}) \ {x} = W
    OBVIOUS
  <2> QED BY <2>2, <2>3
<1>10. W \in SUBSET S /\ f[x] \in Nat /\ f[z] \in Nat
  BY <1>3
<1>11. Sum(f, W) \in Nat
  BY <1>4, <1>10
<1> HIDE DEF W, Bad
<1> QED BY <1>2, <1>5, <1>8, <1>9, <1>10, <1>11

(* A sum depends on what is added up, and on nothing else. *)
LEMMA SumSame ==
  ASSUME NEW S, IsFiniteSet(S), NEW f, NEW g, \A x \in S : f[x] = g[x]
  PROVE  Sum(f, S) = Sum(g, S)
<1> DEFINE Bad == {U \in SUBSET S : Sum(f, U) # Sum(g, U)}
<1> SUFFICES ASSUME Bad # {} PROVE FALSE
  OBVIOUS
<1>1. PICK U \in Bad : \A V \in Bad : V \subseteq U => V = U
  <2>1. Bad \subseteq SUBSET S
    OBVIOUS
  <2> HIDE DEF Bad
  <2> QED BY <2>1, Smallest
<1>2. IsFiniteSet(U)
  BY FS_Subset
<1>3. U # {} => /\ Some(U) \in U /\ f[Some(U)] = g[Some(U)]
                /\ Sum(f, U \ {Some(U)}) = Sum(g, U \ {Some(U)})
  BY <1>1, SomeIn
<1> QED BY <1>1, <1>2, <1>3, SumDef

-----------------------------------------------------------------------------
(* Reports. *)

(* The folds of Reports over rows e *)
BalancesIn(e, S) ==
  (CHOOSE g : g = [s \in SUBSET S |-> IF s = {} THEN 0
                     ELSE e[Some(s)].balance + g[s \ {Some(s)}]])[S]
AmountsIn(e, S) ==
  (CHOOSE g : g = [s \in SUBSET S |-> IF s = {} THEN 0
                     ELSE e[Some(s)].amount + g[s \ {Some(s)}]])[S]

(* The balances and the amounts of rows. *)
BalanceOf(e) == [i \in DOMAIN e |-> e[i].balance]
AmountOf(e) == [i \in DOMAIN e |-> e[i].amount]

LEMMA BalancesAreSums ==
  ASSUME NEW e, NEW S, IsFiniteSet(S), S \subseteq DOMAIN e
  PROVE  BalancesIn(e, S) = Sum(BalanceOf(e), S)
<1> DEFINE f == BalanceOf(e)
           F(g) == [s \in SUBSET S |-> IF s = {} THEN 0
                     ELSE e[Some(s)].balance + g[s \ {Some(s)}]]
           h == CHOOSE g : g = F(g)
           k == CHOOSE g : IsSum(g, f, S)
<1>1. \A s \in SUBSET S : s # {} => f[Some(s)] = e[Some(s)].balance
  BY SomeIn DEF BalanceOf
<1>2. ASSUME NEW g
      PROVE  F(g) = [s \in SUBSET S |-> IF s = {} THEN 0 ELSE f[Some(s)] + g[s \ {Some(s)}]]
  <2> HIDE DEF f
  <2> QED BY <1>1
<1>3. \A g : g = F(g) <=> IsSum(g, f, S)
  <2> HIDE DEF f, F
  <2> QED BY <1>2 DEF IsSum
<1>4. IsSum(k, f, S)
  BY SumExists
<1>5. h = F(h)
  <2>1. k = F(k)
    BY <1>3, <1>4
  <2> HIDE DEF k, F
  <2> QED BY <2>1
<1>6. IsSum(h, f, S)
  BY <1>3, <1>5
<1>7. h[S] = k[S]
  <2> HIDE DEF h, k, f
  <2> QED BY <1>4, <1>6, SumsAgree
<1> QED BY <1>7 DEF BalancesIn, Sum

LEMMA AmountsAreSums ==
  ASSUME NEW e, NEW S, IsFiniteSet(S), S \subseteq DOMAIN e
  PROVE  AmountsIn(e, S) = Sum(AmountOf(e), S)
<1> DEFINE f == AmountOf(e)
           F(g) == [s \in SUBSET S |-> IF s = {} THEN 0
                     ELSE e[Some(s)].amount + g[s \ {Some(s)}]]
           h == CHOOSE g : g = F(g)
           k == CHOOSE g : IsSum(g, f, S)
<1>1. \A s \in SUBSET S : s # {} => f[Some(s)] = e[Some(s)].amount
  BY SomeIn DEF AmountOf
<1>2. ASSUME NEW g
      PROVE  F(g) = [s \in SUBSET S |-> IF s = {} THEN 0 ELSE f[Some(s)] + g[s \ {Some(s)}]]
  <2> HIDE DEF f
  <2> QED BY <1>1
<1>3. \A g : g = F(g) <=> IsSum(g, f, S)
  <2> HIDE DEF f, F
  <2> QED BY <1>2 DEF IsSum
<1>4. IsSum(k, f, S)
  BY SumExists
<1>5. h = F(h)
  <2>1. k = F(k)
    BY <1>3, <1>4
  <2> HIDE DEF k, F
  <2> QED BY <2>1
<1>6. IsSum(h, f, S)
  BY <1>3, <1>5
<1>7. h[S] = k[S]
  <2> HIDE DEF h, k, f
  <2> QED BY <1>4, <1>6, SumsAgree
<1> QED BY <1>7 DEF AmountsIn, Sum

(* The sum over a set with one element more. *)
LEMMA SumGrows ==
  ASSUME NEW S, IsFiniteSet(S), NEW f, NEW g, NEW n, n \notin S, g[n] \in Nat,
         \A x \in S : f[x] \in Nat /\ g[x] = f[x]
  PROVE  Sum(g, S \cup {n}) = g[n] + Sum(f, S)
<1>1. IsFiniteSet(S \cup {n})
  BY FS_AddElement
<1>2. \A x \in S \cup {n} : g[x] \in Nat
  OBVIOUS
<1>3. Sum(g, S \cup {n}) = g[n] + Sum(g, (S \cup {n}) \ {n})
  BY <1>1, <1>2, SumRemove
<1>4. (S \cup {n}) \ {n} = S
  OBVIOUS
<1>5. Sum(g, S) = Sum(f, S)
  BY SumSame
<1> QED BY <1>3, <1>4, <1>5

-----------------------------------------------------------------------------
(* The rows that a balance adds up, and those that a total does. *)
Newest(k) == UNION {R!NewestBefore(a, k) : a \in Accounts \ closed}
InPeriod(type, from, to) ==
  {i \in DOMAIN entries : entries[i].type = type /\ entries[i].date \in from .. to}

LEMMA RowsAreFinite ==
  ASSUME NEW e \in Seq(R!Entry), NEW S, S \subseteq DOMAIN e
  PROVE  IsFiniteSet(S)
<1>1. DOMAIN e = 1 .. Len(e) /\ Len(e) \in Nat
  OBVIOUS
<1>2. IsFiniteSet(1 .. Len(e))
  BY <1>1, FS_Interval
<1> QED BY <1>1, <1>2, FS_Subset

LEMMA RowTypes ==
  ASSUME NEW e \in Seq(R!Entry)
  PROVE  \A i \in DOMAIN e : /\ e[i] \in R!Entry
                             /\ BalanceOf(e)[i] = e[i].balance /\ e[i].balance \in Nat
                             /\ AmountOf(e)[i] = e[i].amount /\ e[i].amount \in Nat \ {0}
                             /\ e[i].date \in Nat /\ e[i].account \in Accounts
<1>1. \A i \in DOMAIN e : e[i] \in R!Entry
  OBVIOUS
<1>2. ASSUME NEW x \in R!Entry
      PROVE  /\ x.balance \in Nat /\ x.amount \in Nat \ {0}
             /\ x.date \in Nat /\ x.account \in Accounts
  <2>1. R!Days \subseteq Nat
    BY LedgerIsFinite DEF R!Days
  <2>2. x.balance \in Nat /\ x.amount \in Amounts /\ x.date \in R!Days /\ x.account \in Accounts
    BY DEF R!Entry
  <2> QED BY <2>1, <2>2, LedgerIsFinite
<1>3. \A i \in DOMAIN e : BalanceOf(e)[i] = e[i].balance /\ AmountOf(e)[i] = e[i].amount
  BY DEF BalanceOf, AmountOf
<1> QED BY <1>1, <1>2, <1>3

LEMMA LedgerSums ==
  ASSUME entries \in Seq(R!Entry)
  PROVE  /\ \A k : R!BalanceBefore(k) = Sum(BalanceOf(entries), Newest(k))
         /\ \A type, from, to :
              R!TotalOf(type, from, to) = Sum(AmountOf(entries), InPeriod(type, from, to))
<1>1. ASSUME NEW k
      PROVE  R!BalanceBefore(k) = Sum(BalanceOf(entries), Newest(k))
  <2>1. R!BalanceBefore(k) = BalancesIn(entries, Newest(k))
    BY DEF Newest, BalancesIn, Some, R!BalanceBefore, R!MapThenSumSet, R!MapThenFoldSet
  <2>2. Newest(k) \subseteq DOMAIN entries
    BY DEF Newest, R!NewestBefore
  <2> QED BY <2>1, <2>2, RowsAreFinite, BalancesAreSums
<1>2. ASSUME NEW type, NEW from, NEW to
      PROVE  R!TotalOf(type, from, to) = Sum(AmountOf(entries), InPeriod(type, from, to))
  <2>1. R!TotalOf(type, from, to) = AmountsIn(entries, InPeriod(type, from, to))
    BY DEF InPeriod, AmountsIn, Some, R!TotalOf, R!MapThenSumSet, R!MapThenFoldSet
  <2>2. InPeriod(type, from, to) \subseteq DOMAIN entries
    BY DEF InPeriod
  <2> QED BY <2>1, <2>2, RowsAreFinite, AmountsAreSums
<1> QED BY <1>1, <1>2

LEMMA LedgerSumsNext ==
  ASSUME entries' \in Seq(R!Entry)
  PROVE  /\ \A k : R!BalanceBefore(k)' = Sum(BalanceOf(entries'), Newest(k)')
         /\ \A type, from, to :
              R!TotalOf(type, from, to)' = Sum(AmountOf(entries'), InPeriod(type, from, to)')
<1>1. ASSUME NEW k
      PROVE  R!BalanceBefore(k)' = Sum(BalanceOf(entries'), Newest(k)')
  <2>1. R!BalanceBefore(k)' = BalancesIn(entries', Newest(k)')
    BY DEF Newest, BalancesIn, Some, R!BalanceBefore, R!MapThenSumSet, R!MapThenFoldSet
  <2>2. Newest(k)' \subseteq DOMAIN entries'
    BY DEF Newest, R!NewestBefore
  <2> QED BY <2>1, <2>2, RowsAreFinite, BalancesAreSums
<1>2. ASSUME NEW type, NEW from, NEW to
      PROVE  R!TotalOf(type, from, to)' = Sum(AmountOf(entries'), InPeriod(type, from, to)')
  <2>1. R!TotalOf(type, from, to)' = AmountsIn(entries', InPeriod(type, from, to)')
    BY DEF InPeriod, AmountsIn, Some, R!TotalOf, R!MapThenSumSet, R!MapThenFoldSet
  <2>2. InPeriod(type, from, to)' \subseteq DOMAIN entries'
    BY DEF InPeriod
  <2> QED BY <2>1, <2>2, RowsAreFinite, AmountsAreSums
<1> QED BY <1>1, <1>2

-----------------------------------------------------------------------------
(* The ledger: rows of an account are booked in the order of their dates.   *)
LedgerTyped ==
  /\ day \in R!Days
  /\ closed \subseteq Accounts /\ counted \subseteq Accounts
  /\ entries \in Seq(R!Entry) /\ Len(entries) <= MaxEntries
  /\ drawn \in [Accounts -> R!Days \cup {None}]

RowsAreDated ==
  /\ \A i \in DOMAIN entries : entries[i].date <= day
  /\ \A i, j \in DOMAIN entries :
       entries[i].account = entries[j].account /\ i < j => entries[i].date <= entries[j].date

(* A post holds an account that is not archived, and draws a date that is   *)
(* not before those of its rows.                                            *)
PostsAreDated ==
  \A a \in Accounts : drawn[a] # None =>
    /\ a \notin closed /\ drawn[a] <= day
    /\ \A i \in R!RowsOf(a) : entries[i].date <= drawn[a]

RowsHaveALast ==
  \A a \in Accounts : R!RowsOf(a) # {} => \E i \in R!RowsOf(a) : \A j \in R!RowsOf(a) : j <= i

Books == LedgerTyped /\ RowsAreDated /\ PostsAreDated /\ RowsHaveALast

(* Over every period, what there was and what came and went make what there is. *)
LedgerAddsUp ==
  R!NothingLost =>
    \A from, to \in R!Days : from <= to =>
      R!BalanceBefore(to + 1) + R!TotalOf("DECREASE", from, to) =
        R!BalanceBefore(from) + R!TotalOf("INCREASE", from, to)

Results == Nat \cup {None} \cup [income : Nat, expense : Nat]
Asked == [pc : {"reading", "done"}, from : R!Days, to : R!Days, left : SUBSET R!Queries,
          result : [R!Queries -> Results], settled : BOOLEAN, disturbed : BOOLEAN]

(* What a report has read is what the ledger says, as long as nobody wrote  *)
(* beside it, and of a period that is over in any case.                     *)
ReportIsTrue ==
  report # R!NoReport =>
    \E from, to \in R!Days :
      /\ from = report.from /\ to = report.to /\ from <= to
      /\ report.settled => R!Settled(to)
      /\ report.pc = "done" => report.left = {}
      /\ R!NothingLost =>
           /\ report.settled \/ (report.pc = "reading" /\ ~report.disturbed) =>
                \A q \in R!Queries \ report.left : report.result[q] = R!Result(q, from, to)
           /\ report.pc = "done" /\ ~report.disturbed => R!AddsUp(report.result)

ReportInv == Books /\ LedgerAddsUp /\ report \in Asked \cup {R!NoReport} /\ ReportIsTrue

(* The balance of an account is that of its last row. *)
LEMMA LastRow ==
  ASSUME Books, NEW a \in Accounts, R!RowsOf(a) # {}
  PROVE  \E m \in R!RowsOf(a) : /\ R!Latest(a) = entries[m].balance
                                /\ \A j \in R!RowsOf(a) : j <= m
<1>1. PICK m \in R!RowsOf(a) : \A j \in R!RowsOf(a) : j <= m
  BY DEF Books, RowsHaveALast
<1>2. R!RowsOf(a) \subseteq Nat
  BY DEF R!RowsOf, Books, LedgerTyped
<1> DEFINE x == R!Max(R!RowsOf(a))
<1>3. x \in R!RowsOf(a) /\ \A j \in R!RowsOf(a) : x >= j
  BY <1>1, <1>2 DEF R!Max
<1>4. R!Latest(a) = entries[x].balance
  BY DEF R!Latest
<1> HIDE DEF x
<1>5. x = m
  BY <1>1, <1>2, <1>3
<1> QED BY <1>1, <1>4, <1>5

(* The row of a post, in the order of the commits. *)
Posted(a, type, n) ==
  [account |-> a, type |-> type, amount |-> n, date |-> drawn[a],
   balance |-> IF type = "INCREASE" THEN R!Latest(a) + n ELSE R!Latest(a) - n]

LEMMA LatestIsNat == ASSUME Books, NEW a \in Accounts PROVE R!Latest(a) \in Nat
<1>1. CASE R!RowsOf(a) = {}
  BY <1>1 DEF R!Latest
<1>2. CASE R!RowsOf(a) # {}
  <2>1. PICK m \in R!RowsOf(a) : R!Latest(a) = entries[m].balance
    BY <1>2, LastRow
  <2>2. m \in DOMAIN entries
    BY DEF R!RowsOf
  <2> QED BY <2>1, <2>2, RowTypes DEF Books, LedgerTyped
<1> QED BY <1>1, <1>2

LEMMA PostedShape ==
  ASSUME Books, NEW a \in Accounts, NEW type \in {"INCREASE", "DECREASE"}, NEW n \in Amounts,
         drawn[a] # None, type = "DECREASE" => R!Latest(a) >= n
  PROVE  /\ Posted(a, type, n) \in R!Entry
         /\ Posted(a, type, n).account = a /\ Posted(a, type, n).type = type
         /\ Posted(a, type, n).amount = n /\ n \in Nat
         /\ Posted(a, type, n).date = drawn[a] /\ drawn[a] \in R!Days
         /\ Posted(a, type, n).balance \in Nat
         /\ type = "INCREASE" => Posted(a, type, n).balance = R!Latest(a) + n
         /\ type = "DECREASE" => Posted(a, type, n).balance + n = R!Latest(a)
<1>1. R!Latest(a) \in Nat /\ n \in Nat
  BY LatestIsNat, LedgerIsFinite
<1>2. drawn[a] \in R!Days
  BY DEF Books, LedgerTyped
<1>3. PICK b : b = IF type = "INCREASE" THEN R!Latest(a) + n ELSE R!Latest(a) - n
  OBVIOUS
<1>4. /\ b \in Nat
      /\ type = "INCREASE" => b = R!Latest(a) + n
      /\ type = "DECREASE" => b + n = R!Latest(a)
  BY <1>1, <1>3
<1>5. Posted(a, type, n) =
        [account |-> a, type |-> type, amount |-> n, date |-> drawn[a], balance |-> b]
  BY <1>3 DEF Posted
<1> QED BY <1>1, <1>2, <1>4, <1>5 DEF R!Entry

(* What a commit adds to the ledger. *)
LEMMA RowsAdded ==
  ASSUME Books, NEW row \in R!Entry, entries' = Append(entries, row)
  PROVE  LET z == Len(entries) + 1 IN
         /\ entries' \in Seq(R!Entry) /\ Len(entries') = z
         /\ DOMAIN entries' = DOMAIN entries \cup {z} /\ z \notin DOMAIN entries
         /\ entries'[z] = row
         /\ \A i \in DOMAIN entries : i \in Nat /\ i < z /\ entries'[i] = entries[i]
         /\ BalanceOf(entries')[z] = row.balance /\ AmountOf(entries')[z] = row.amount
         /\ \A i \in DOMAIN entries : /\ BalanceOf(entries')[i] = BalanceOf(entries)[i]
                                      /\ AmountOf(entries')[i] = AmountOf(entries)[i]
<1>1. entries \in Seq(R!Entry)
  BY DEF Books, LedgerTyped
<1> DEFINE z == Len(entries) + 1
<1>2. /\ entries' \in Seq(R!Entry) /\ Len(entries') = z
      /\ DOMAIN entries' = DOMAIN entries \cup {z} /\ z \notin DOMAIN entries
      /\ entries'[z] = row
      /\ \A i \in DOMAIN entries : i \in Nat /\ i < z /\ entries'[i] = entries[i]
  BY <1>1
<1> HIDE DEF z
<1>3. /\ BalanceOf(entries')[z] = row.balance /\ AmountOf(entries')[z] = row.amount
      /\ \A i \in DOMAIN entries : /\ BalanceOf(entries')[i] = BalanceOf(entries)[i]
                                   /\ AmountOf(entries')[i] = AmountOf(entries)[i]
  BY <1>2 DEF BalanceOf, AmountOf
<1> QED BY <1>2, <1>3 DEF z

(* A commit makes its row the newest of its account, from its date on.      *)
LEMMA NewestPosted ==
  ASSUME Books, NEW a \in Accounts, drawn[a] # None,
         NEW row \in R!Entry, row.account = a, row.date = drawn[a],
         entries' = Append(entries, row), NEW k \in Nat
  PROVE  /\ \A b \in Accounts \ {a} : R!NewestBefore(b, k)' = R!NewestBefore(b, k)
         /\ ~(drawn[a] < k) => R!NewestBefore(a, k)' = R!NewestBefore(a, k)
         /\ drawn[a] < k => R!NewestBefore(a, k)' = {Len(entries) + 1}
<1> DEFINE z == Len(entries) + 1
           Rows(b) == {i \in DOMAIN entries : entries[i].account = b /\ entries[i].date < k}
           RowsNext(b) == {i \in DOMAIN entries' : entries'[i].account = b /\ entries'[i].date < k}
<1>1. /\ DOMAIN entries' = DOMAIN entries \cup {z} /\ z \notin DOMAIN entries
      /\ entries'[z] = row
      /\ \A i \in DOMAIN entries : i \in Nat /\ i < z /\ entries'[i] = entries[i]
  BY RowsAdded
<1>2. z \in Nat /\ drawn[a] \in Nat
  BY LedgerIsFinite DEF Books, LedgerTyped, R!Days
<1> HIDE DEF z
<1>3. \A b \in Accounts \ {a} : RowsNext(b) = Rows(b)
  BY <1>1
<1>4. ~(drawn[a] < k) => RowsNext(a) = Rows(a)
  BY <1>1
<1>5. drawn[a] < k => RowsNext(a) = Rows(a) \cup {z}
  BY <1>1
<1>6. ASSUME NEW b \in Accounts, RowsNext(b) = Rows(b)
      PROVE  R!NewestBefore(b, k)' = R!NewestBefore(b, k)
  <2>1. \A i \in Rows(b) : entries'[i] = entries[i]
    BY <1>1
  <2>2. R!NewestBefore(b, k) =
          {i \in Rows(b) : \A j \in Rows(b) :
             \/ entries[j].date < entries[i].date
             \/ entries[j].date = entries[i].date /\ j <= i}
    BY DEF R!NewestBefore
  <2>3. R!NewestBefore(b, k)' =
          {i \in RowsNext(b) : \A j \in RowsNext(b) :
             \/ entries'[j].date < entries'[i].date
             \/ entries'[j].date = entries'[i].date /\ j <= i}
    BY DEF R!NewestBefore
  <2>4. R!NewestBefore(b, k)' =
          {i \in Rows(b) : \A j \in Rows(b) :
             \/ entries'[j].date < entries'[i].date
             \/ entries'[j].date = entries'[i].date /\ j <= i}
    <3> HIDE DEF Rows, RowsNext
    <3> QED BY <1>6, <2>3
  <2> HIDE DEF Rows, RowsNext
  <2>5. \A i \in Rows(b) : i \in R!NewestBefore(b, k)' <=> i \in R!NewestBefore(b, k)
    BY <2>1, <2>2, <2>4
  <2> QED BY <2>2, <2>4, <2>5
<1>7. ASSUME drawn[a] < k
      PROVE  R!NewestBefore(a, k)' = {z}
  <2>1. R!NewestBefore(a, k)' =
          {i \in RowsNext(a) : \A j \in RowsNext(a) :
             \/ entries'[j].date < entries'[i].date
             \/ entries'[j].date = entries'[i].date /\ j <= i}
    BY DEF R!NewestBefore
  <2>2. ASSUME NEW j \in Rows(a)
        PROVE  /\ j \in Nat /\ j < z /\ entries'[j].date <= entries'[z].date
               /\ entries'[j].date \in Nat
    <3>1. j \in DOMAIN entries /\ entries[j].account = a
      OBVIOUS
    <3>2. j \in R!RowsOf(a)
      BY <3>1 DEF R!RowsOf
    <3>3. entries[j].date <= drawn[a]
      BY <3>2 DEF Books, PostsAreDated
    <3>4. entries[j].date \in Nat
      BY <3>1, RowTypes DEF Books, LedgerTyped
    <3> HIDE DEF Rows
    <3> QED BY <1>1, <3>1, <3>3, <3>4
  <2>3. RowsNext(a) = Rows(a) \cup {z} /\ entries'[z].date \in Nat
    <3> HIDE DEF Rows, RowsNext
    <3> QED BY <1>1, <1>2, <1>5, <1>7
  <2> HIDE DEF Rows, RowsNext
  <2>4. \A i : i \in R!NewestBefore(a, k)' <=>
          /\ i \in Rows(a) \cup {z}
          /\ \A j \in Rows(a) \cup {z} :
             \/ entries'[j].date < entries'[i].date
             \/ entries'[j].date = entries'[i].date /\ j <= i
    BY <2>1, <2>3
  <2>5. z \in R!NewestBefore(a, k)'
    <3>1. \A j \in Rows(a) \cup {z} :
            \/ entries'[j].date < entries'[z].date
            \/ entries'[j].date = entries'[z].date /\ j <= z
      <4>1. ASSUME NEW j \in Rows(a)
            PROVE  \/ entries'[j].date < entries'[z].date
                   \/ entries'[j].date = entries'[z].date /\ j <= z
        <5>1. /\ j \in Nat /\ j < z /\ entries'[j].date <= entries'[z].date
              /\ entries'[j].date \in Nat
          BY <2>2
        <5> QED BY ONLY <1>2, <2>3, <5>1
      <4>2. z <= z
        BY <1>2
      <4> QED BY <4>1, <4>2
    <3> QED BY <2>4, <3>1
  <2>6. ASSUME NEW i \in Rows(a) PROVE i \notin R!NewestBefore(a, k)'
    <3>1. ~ (\/ entries'[z].date < entries'[i].date
             \/ entries'[z].date = entries'[i].date /\ z <= i)
      <4>1. /\ i \in Nat /\ i < z /\ entries'[i].date <= entries'[z].date
            /\ entries'[i].date \in Nat
        BY <2>2
      <4> QED BY ONLY <1>2, <2>3, <4>1
    <3> QED BY <2>4, <3>1
  <2> QED BY <2>4, <2>5, <2>6
<1> HIDE DEF Rows, RowsNext
<1> QED BY <1>3, <1>4, <1>6, <1>7 DEF z

(* Before the commit the newest was the last row. *)
LEMMA NewestIsLast ==
  ASSUME Books, NEW a \in Accounts, drawn[a] # None, NEW k \in Nat, drawn[a] < k
  PROVE  \/ R!NewestBefore(a, k) = {} /\ R!Latest(a) = 0
         \/ \E m \in R!RowsOf(a) :
              R!NewestBefore(a, k) = {m} /\ R!Latest(a) = entries[m].balance
<1> DEFINE Rows == {i \in DOMAIN entries : entries[i].account = a /\ entries[i].date < k}
<1>1. \A j \in R!RowsOf(a) : j \in DOMAIN entries /\ j \in Nat /\ entries[j].date \in Nat
  BY RowTypes DEF Books, LedgerTyped, R!RowsOf
<1>2. Rows = R!RowsOf(a)
  <2>1. \A j \in R!RowsOf(a) : entries[j].date <= drawn[a]
    BY DEF Books, PostsAreDated
  <2>2. drawn[a] \in Nat
    BY LedgerIsFinite DEF Books, LedgerTyped, R!Days
  <2>3. ASSUME NEW j \in R!RowsOf(a)
        PROVE  entries[j].date < k
    BY <1>1, <2>1, <2>2
  <2>4. R!RowsOf(a) = {i \in DOMAIN entries : entries[i].account = a}
    BY DEF R!RowsOf
  <2> QED BY <2>3, <2>4
<1>3. R!NewestBefore(a, k) =
        {i \in Rows : \A j \in Rows :
           \/ entries[j].date < entries[i].date
           \/ entries[j].date = entries[i].date /\ j <= i}
  BY DEF R!NewestBefore
<1> HIDE DEF Rows
<1>4. CASE R!RowsOf(a) = {}
  BY <1>2, <1>3, <1>4 DEF R!Latest
<1>5. CASE R!RowsOf(a) # {}
  <2>1. PICK m \in R!RowsOf(a) : /\ R!Latest(a) = entries[m].balance
                                 /\ \A j \in R!RowsOf(a) : j <= m
    BY <1>5, LastRow
  <2>2. \A j \in R!RowsOf(a) : j # m => j < m /\ entries[j].date <= entries[m].date
    <3> SUFFICES ASSUME NEW j \in R!RowsOf(a), j # m
                 PROVE  j < m /\ entries[j].date <= entries[m].date
      OBVIOUS
    <3>1. j \in Nat /\ m \in Nat /\ j <= m
      BY <1>1, <2>1
    <3>2. j < m
      BY <3>1
    <3>3. /\ j \in DOMAIN entries /\ entries[j].account = a
          /\ m \in DOMAIN entries /\ entries[m].account = a
      BY DEF R!RowsOf
    <3>4. entries[j].date <= entries[m].date
      BY <3>2, <3>3 DEF Books, RowsAreDated
    <3> QED BY <3>2, <3>4
  <2>3. m \in R!NewestBefore(a, k)
    BY <1>1, <1>2, <1>3, <2>1, <2>2
  <2>4. \A i \in R!NewestBefore(a, k) : i = m
    <3>1. \A i \in R!NewestBefore(a, k) :
            i \in R!RowsOf(a) /\ (\/ entries[m].date < entries[i].date
                                  \/ entries[m].date = entries[i].date /\ m <= i)
      BY <1>2, <1>3
    <3> QED BY <1>1, <2>2, <3>1
  <2>5. R!NewestBefore(a, k) = {m}
    BY <2>3, <2>4
  <2> QED BY <2>1, <2>5
<1> QED BY <1>4, <1>5

LEMMA SumsAreNat ==
  ASSUME entries \in Seq(R!Entry)
  PROVE  /\ \A k : R!BalanceBefore(k) \in Nat
         /\ \A type, from, to : R!TotalOf(type, from, to) \in Nat
<1>1. ASSUME NEW k PROVE R!BalanceBefore(k) \in Nat
  <2>1. Newest(k) \subseteq DOMAIN entries
    BY DEF Newest, R!NewestBefore
  <2>2. IsFiniteSet(Newest(k)) /\ \A x \in Newest(k) : BalanceOf(entries)[x] \in Nat
    BY <2>1, RowsAreFinite, RowTypes
  <2> QED BY <2>2, SumNat, LedgerSums
<1>2. ASSUME NEW type, NEW from, NEW to PROVE R!TotalOf(type, from, to) \in Nat
  <2>1. InPeriod(type, from, to) \subseteq DOMAIN entries
    BY DEF InPeriod
  <2>2. /\ IsFiniteSet(InPeriod(type, from, to))
        /\ \A x \in InPeriod(type, from, to) : AmountOf(entries)[x] \in Nat
    BY <2>1, RowsAreFinite, RowTypes
  <2> QED BY <2>2, SumNat, LedgerSums
<1> QED BY <1>1, <1>2

LEMMA SumsAreNatNext ==
  ASSUME entries' \in Seq(R!Entry)
  PROVE  /\ \A k : R!BalanceBefore(k)' \in Nat
         /\ \A type, from, to : R!TotalOf(type, from, to)' \in Nat
<1>1. ASSUME NEW k PROVE R!BalanceBefore(k)' \in Nat
  <2>1. Newest(k)' \subseteq DOMAIN entries'
    BY DEF Newest, R!NewestBefore
  <2>2. IsFiniteSet(Newest(k)') /\ \A x \in Newest(k)' : BalanceOf(entries')[x] \in Nat
    BY <2>1, RowsAreFinite, RowTypes
  <2> QED BY <2>2, SumNat, LedgerSumsNext
<1>2. ASSUME NEW type, NEW from, NEW to PROVE R!TotalOf(type, from, to)' \in Nat
  <2>1. InPeriod(type, from, to)' \subseteq DOMAIN entries'
    BY DEF InPeriod
  <2>2. /\ IsFiniteSet(InPeriod(type, from, to)')
        /\ \A x \in InPeriod(type, from, to)' : AmountOf(entries')[x] \in Nat
    BY <2>1, RowsAreFinite, RowTypes
  <2> QED BY <2>2, SumNat, LedgerSumsNext
<1> QED BY <1>1, <1>2

(* What a commit does to the balance before a day: from the date of its row *)
(* on its balance is in the place of the latest.                            *)
LEMMA BalancePosted ==
  ASSUME Books, NEW a \in Accounts, drawn[a] # None,
         NEW row \in R!Entry, row.account = a, row.date = drawn[a],
         entries' = Append(entries, row), closed' = closed, NEW k \in Nat
  PROVE  /\ drawn[a] < k =>
              R!BalanceBefore(k)' + R!Latest(a) = R!BalanceBefore(k) + row.balance
         /\ ~(drawn[a] < k) => R!BalanceBefore(k)' = R!BalanceBefore(k)
<1> DEFINE z == Len(entries) + 1
           Others == UNION {R!NewestBefore(b, k) : b \in (Accounts \ closed) \ {a}}
           f == BalanceOf(entries)
           g == BalanceOf(entries')
<1>1. entries \in Seq(R!Entry) /\ entries' \in Seq(R!Entry) /\ a \notin closed
  BY RowsAdded DEF Books, LedgerTyped, PostsAreDated
<1>2. R!BalanceBefore(k) = Sum(f, Newest(k)) /\ R!BalanceBefore(k)' = Sum(g, Newest(k)')
  BY <1>1, LedgerSums, LedgerSumsNext
<1>3. /\ Newest(k) = Others \cup R!NewestBefore(a, k)
      /\ Newest(k)' = Others \cup R!NewestBefore(a, k)'
  <2>1. Newest(k) = Others \cup R!NewestBefore(a, k)
    BY <1>1 DEF Newest
  <2>2. Newest(k)' = UNION {R!NewestBefore(b, k)' : b \in Accounts \ closed}
    BY DEF Newest
  <2>3. \A b \in Accounts \ {a} : R!NewestBefore(b, k)' = R!NewestBefore(b, k)
    BY NewestPosted
  <2>4. ASSUME NEW i
        PROVE  i \in Newest(k)' <=> i \in Others \cup R!NewestBefore(a, k)'
    BY <1>1, <2>2, <2>3
  <2> QED BY <2>1, <2>4
<1>4. Newest(k) \subseteq DOMAIN entries /\ Others \subseteq DOMAIN entries
  BY DEF Newest, R!NewestBefore
<1>5. IsFiniteSet(Newest(k)) /\ IsFiniteSet(Others)
  BY <1>1, <1>4, RowsAreFinite
<1>6. /\ \A x \in DOMAIN entries : f[x] = entries[x].balance /\ f[x] \in Nat /\ g[x] = f[x]
      /\ g[z] = row.balance /\ g[z] \in Nat /\ z \notin DOMAIN entries
  <2>1. row.balance \in Nat
    BY DEF R!Entry
  <2>2. /\ \A x \in DOMAIN entries : g[x] = f[x]
        /\ g[z] = row.balance /\ z \notin DOMAIN entries
    BY RowsAdded
  <2>3. \A x \in DOMAIN entries : f[x] = entries[x].balance /\ f[x] \in Nat
    BY <1>1, RowTypes
  <2> QED BY <2>1, <2>2, <2>3
<1>7. CASE ~(drawn[a] < k)
  <2>1. Newest(k)' = Newest(k)
    BY <1>3, <1>7, NewestPosted
  <2>2. Sum(g, Newest(k)) = Sum(f, Newest(k))
    <3> HIDE DEF f, g
    <3> QED BY <1>4, <1>5, <1>6, SumSame
  <2> QED BY <1>2, <1>7, <2>1, <2>2
<1>8. CASE drawn[a] < k
  <2>1. Newest(k)' = Others \cup {z}
    BY <1>3, <1>8, NewestPosted
  <2>2. Sum(g, Others \cup {z}) = row.balance + Sum(f, Others)
    <3>1. z \notin Others /\ \A x \in Others : f[x] \in Nat /\ g[x] = f[x]
      BY <1>4, <1>6
    <3>2. IsFiniteSet(Others) /\ g[z] \in Nat /\ g[z] = row.balance
      BY <1>5, <1>6
    <3> HIDE DEF f, g, z, Others
    <3>3. Sum(g, Others \cup {z}) = g[z] + Sum(f, Others)
      BY ONLY <3>1, <3>2, SumGrows
    <3> QED BY <3>2, <3>3
  <2>3. Sum(f, Newest(k)) = R!Latest(a) + Sum(f, Others)
    <3>1. CASE R!NewestBefore(a, k) = {} /\ R!Latest(a) = 0
      <4>1. Newest(k) = Others
        BY <1>3, <3>1
      <4>2. Sum(f, Others) \in Nat
        <5> HIDE DEF f, Others
        <5> QED BY <1>4, <1>5, <1>6, SumNat
      <4> HIDE DEF f, Others
      <4> QED BY <3>1, <4>1, <4>2
    <3>2. ASSUME NEW m \in R!RowsOf(a),
                 R!NewestBefore(a, k) = {m}, R!Latest(a) = entries[m].balance
          PROVE  Sum(f, Newest(k)) = R!Latest(a) + Sum(f, Others)
      <4>1. Newest(k) = Others \cup {m}
        BY <1>3, <3>2
      <4>2. m \in DOMAIN entries /\ m \notin Others
        BY DEF R!RowsOf, R!NewestBefore
      <4>3. f[m] = R!Latest(a) /\ f[m] \in Nat /\ \A x \in Others : f[x] \in Nat
        BY <1>4, <1>6, <3>2, <4>2
      <4> HIDE DEF f, Others
      <4>4. Sum(f, Others \cup {m}) = f[m] + Sum(f, Others)
        BY <1>5, <4>2, <4>3, SumGrows
      <4> QED BY <4>1, <4>3, <4>4
    <3> QED BY <1>8, <3>1, <3>2, NewestIsLast
  <2>4. R!Latest(a) \in Nat /\ row.balance \in Nat /\ Sum(f, Others) \in Nat
    <3>1. \A x \in Others : f[x] \in Nat
      BY <1>4, <1>6
    <3>2. Sum(f, Others) \in Nat
      <4> HIDE DEF f, Others
      <4> QED BY <1>5, <3>1, SumNat
    <3> QED BY <3>2, LatestIsNat DEF R!Entry
  <2> HIDE DEF f, g, Others
  <2>5. /\ R!BalanceBefore(k)' = row.balance + Sum(f, Others)
        /\ R!BalanceBefore(k) = R!Latest(a) + Sum(f, Others)
    BY <1>2, <2>1, <2>2, <2>3
  <2> QED BY ONLY <1>8, <2>4, <2>5
<1> QED BY <1>7, <1>8

(* What a commit does to the totals of a period. *)
LEMMA TotalPosted ==
  ASSUME Books, NEW row \in R!Entry, entries' = Append(entries, row),
         NEW type, NEW from, NEW to
  PROVE  R!TotalOf(type, from, to)' =
           R!TotalOf(type, from, to) +
             (IF row.type = type /\ row.date \in from .. to THEN row.amount ELSE 0)
<1> DEFINE z == Len(entries) + 1
           S == InPeriod(type, from, to)
           f == AmountOf(entries)
           g == AmountOf(entries')
<1>1. entries \in Seq(R!Entry) /\ entries' \in Seq(R!Entry)
  BY RowsAdded DEF Books, LedgerTyped
<1>2. R!TotalOf(type, from, to) = Sum(f, S) /\ R!TotalOf(type, from, to)' = Sum(g, S')
  BY <1>1, LedgerSums, LedgerSumsNext
<1>3. /\ DOMAIN entries' = DOMAIN entries \cup {z} /\ z \notin DOMAIN entries
      /\ entries'[z] = row
      /\ \A i \in DOMAIN entries : entries'[i] = entries[i]
  BY RowsAdded
<1>4. S \subseteq DOMAIN entries
  BY DEF InPeriod
<1>5. IsFiniteSet(S)
  BY <1>1, <1>4, RowsAreFinite
<1>6. /\ \A x \in S : f[x] \in Nat /\ g[x] = f[x]
      /\ g[z] = row.amount /\ g[z] \in Nat /\ z \notin S
  <2>1. row.amount \in Nat
    BY LedgerIsFinite DEF R!Entry
  <2>2. /\ \A x \in DOMAIN entries : g[x] = f[x]
        /\ g[z] = row.amount /\ z \notin DOMAIN entries
    BY RowsAdded
  <2>3. \A x \in DOMAIN entries : f[x] \in Nat
    BY <1>1, RowTypes
  <2> QED BY <1>4, <2>1, <2>2, <2>3
<1>7. Sum(f, S) \in Nat
  <2> HIDE DEF f, S
  <2> QED BY <1>5, <1>6, SumNat
<1>8. CASE row.type = type /\ row.date \in from .. to
  <2>1. S' = S \cup {z}
    <3> HIDE DEF z
    <3> QED BY <1>3, <1>8 DEF InPeriod
  <2>2. Sum(g, S \cup {z}) = g[z] + Sum(f, S)
    <3> HIDE DEF f, g, S, z
    <3> QED BY <1>5, <1>6, SumGrows
  <2> HIDE DEF f, g, S, z
  <2> QED BY <1>2, <1>6, <1>7, <1>8, <2>1, <2>2
<1>9. CASE ~(row.type = type /\ row.date \in from .. to)
  <2>1. S' = S
    <3> HIDE DEF z
    <3> QED BY <1>3, <1>9 DEF InPeriod
  <2>2. Sum(g, S) = Sum(f, S)
    <3> HIDE DEF f, g, S
    <3> QED BY <1>5, <1>6, SumSame
  <2> HIDE DEF f, g, S
  <2> QED BY <1>2, <1>7, <1>9, <2>1, <2>2
<1> QED BY <1>8, <1>9

-----------------------------------------------------------------------------
(* Steps that book nothing leave every result as it is.                     *)
LEMMA ResultsStay ==
  ASSUME Books, UNCHANGED entries, \A k : Newest(k)' = Newest(k)
  PROVE  /\ \A k : R!BalanceBefore(k)' = R!BalanceBefore(k)
         /\ \A type, from, to : R!TotalOf(type, from, to)' = R!TotalOf(type, from, to)
         /\ \A q, from, to : R!Result(q, from, to)' = R!Result(q, from, to)
<1>1. entries \in Seq(R!Entry) /\ entries' \in Seq(R!Entry)
  BY DEF Books, LedgerTyped
<1>2. \A k : R!BalanceBefore(k)' = R!BalanceBefore(k)
  BY <1>1, LedgerSums, LedgerSumsNext
<1>3. ASSUME NEW type, NEW from, NEW to
      PROVE  R!TotalOf(type, from, to)' = R!TotalOf(type, from, to)
  <2>1. InPeriod(type, from, to)' = InPeriod(type, from, to)
    BY DEF InPeriod
  <2> QED BY <1>1, <2>1, LedgerSums, LedgerSumsNext
<1>4. ASSUME NEW q, NEW from, NEW to
      PROVE  R!Result(q, from, to)' = R!Result(q, from, to)
  BY <1>2, <1>3 DEF R!Result, R!Totals
<1> QED BY <1>2, <1>3, <1>4

LEMMA ResultTypes ==
  ASSUME Books, NEW q \in R!Queries, NEW from, NEW to
  PROVE  R!Result(q, from, to) \in Results
<1>1. /\ \A k : R!BalanceBefore(k) \in Nat
      /\ \A type : R!TotalOf(type, from, to) \in Nat
  BY SumsAreNat DEF Books, LedgerTyped
<1> QED BY <1>1 DEF R!Result, R!Totals, R!Queries, Results

(* The other writers leave a report that has read nothing yet, and mark one *)
(* that has.                                                               *)
LEMMA DisturbedShape ==
  ASSUME report \in Asked \cup {R!NoReport}, report' = R!Disturbed
  PROVE  \/ report' = report /\ (report = R!NoReport \/ report.pc = "done"
                                   \/ report.left = R!Queries)
         \/ /\ report # R!NoReport /\ report' # R!NoReport
            /\ report' \in Asked
            /\ report.pc = "reading" /\ report'.pc = "reading" /\ report'.disturbed
            /\ report'.from = report.from /\ report'.to = report.to
            /\ report'.left = report.left /\ report'.result = report.result
            /\ report'.settled = report.settled
<1>1. CASE report = R!NoReport
  BY <1>1 DEF R!NoReport, R!Disturbed
<1>2. CASE report \in Asked /\ ~(report.pc = "reading" /\ report.left # R!Queries)
  <2>1. report' = report
    BY <1>2 DEF R!Disturbed
  <2>2. report.pc \in {"reading", "done"}
    BY <1>2 DEF Asked
  <2> QED BY <1>2, <2>1, <2>2
<1>3. CASE report \in Asked /\ report.pc = "reading" /\ report.left # R!Queries
  <2>1. report' = [report EXCEPT !.disturbed = TRUE]
    BY <1>3 DEF R!Disturbed
  <2>2. /\ report' \in Asked /\ report'.pc = "reading" /\ report'.disturbed
        /\ report'.from = report.from /\ report'.to = report.to
        /\ report'.left = report.left /\ report'.result = report.result
        /\ report'.settled = report.settled
    BY <1>3, <2>1 DEF Asked
  <2>3. report # R!NoReport /\ report' # R!NoReport
    BY <1>3, <2>2 DEF R!NoReport
  <2> QED BY <1>3, <2>2, <2>3
<1> QED BY <1>1, <1>2, <1>3

(* A step of the ledger beside a report. *)
LEMMA LedgerMoves ==
  ASSUME ReportInv, Books', LedgerAddsUp', report' = R!Disturbed,
         R!NothingLost' => R!NothingLost,
         \A to \in R!Days : R!Settled(to) => R!Settled(to)',
         R!NothingLost' => \A from, to \in R!Days, q \in R!Queries :
           from <= to /\ R!Settled(to) => R!Result(q, from, to)' = R!Result(q, from, to)
  PROVE  ReportInv'
<1>1. report' \in Asked \cup {R!NoReport}
  BY DisturbedShape DEF ReportInv
<1>2. ReportIsTrue'
  <2> SUFFICES ASSUME report' # R!NoReport
               PROVE  \E from, to \in R!Days :
                        /\ from = report'.from /\ to = report'.to /\ from <= to
                        /\ report'.settled => R!Settled(to)'
                        /\ report'.pc = "done" => report'.left = {}
                        /\ R!NothingLost' =>
                             /\ report'.settled \/ (report'.pc = "reading" /\ ~report'.disturbed) =>
                                  \A q \in R!Queries \ report'.left :
                                    report'.result[q] = R!Result(q, from, to)'
                             /\ report'.pc = "done" /\ ~report'.disturbed =>
                                  R!AddsUp(report'.result)
    BY DEF ReportIsTrue, R!AddsUp
  <2>1. report # R!NoReport
    BY DisturbedShape DEF ReportInv
  <2>2. PICK from, to \in R!Days :
          /\ from = report.from /\ to = report.to /\ from <= to
          /\ report.settled => R!Settled(to)
          /\ report.pc = "done" => report.left = {}
          /\ R!NothingLost =>
               /\ report.settled \/ (report.pc = "reading" /\ ~report.disturbed) =>
                    \A q \in R!Queries \ report.left : report.result[q] = R!Result(q, from, to)
               /\ report.pc = "done" /\ ~report.disturbed => R!AddsUp(report.result)
    BY <2>1 DEF ReportInv, ReportIsTrue
  <2>3. /\ from = report'.from /\ to = report'.to
        /\ report'.settled = report.settled /\ report'.pc = report.pc
        /\ report'.left = report.left /\ report'.result = report.result
        /\ ~report'.disturbed => ~report.disturbed
        /\ report.pc = "reading" /\ ~report'.disturbed => report.left = R!Queries
    <3>1. report \in Asked
      BY <2>1 DEF ReportInv
    <3> QED BY <2>1, <2>2, <3>1, DisturbedShape DEF ReportInv
  <2>4. report'.settled => R!Settled(to) /\ R!Settled(to)'
    BY <2>2, <2>3
  <2>5. ASSUME R!NothingLost', report'.settled, NEW q \in R!Queries \ report'.left
        PROVE  report'.result[q] = R!Result(q, from, to)'
    BY <2>2, <2>3, <2>4, <2>5
  <2>6. ASSUME R!NothingLost', report'.pc = "reading", ~report'.disturbed
        PROVE  R!Queries \ report'.left = {}
    BY <2>3, <2>6
  <2>7. R!NothingLost' /\ report'.pc = "done" /\ ~report'.disturbed => R!AddsUp(report'.result)
    BY <2>2, <2>3
  <2> QED BY <2>2, <2>3, <2>4, <2>5, <2>6, <2>7
<1> QED BY <1>1, <1>2 DEF ReportInv

(* A step that neither the ledger's totals nor the report tell from none.   *)
LEMMA NothingMoves ==
  ASSUME ReportInv, Books', UNCHANGED <<entries, closed, report>>,
         \A to \in R!Days : R!Settled(to) => R!Settled(to)'
  PROVE  ReportInv'
<1>1. \A k : Newest(k)' = Newest(k)
  BY DEF Newest, R!NewestBefore
<1>2. /\ \A k : R!BalanceBefore(k)' = R!BalanceBefore(k)
      /\ \A type, from, to : R!TotalOf(type, from, to)' = R!TotalOf(type, from, to)
      /\ \A q, from, to : R!Result(q, from, to)' = R!Result(q, from, to)
  BY <1>1, ResultsStay DEF ReportInv
<1>3. R!NothingLost' = R!NothingLost
  BY DEF R!NothingLost, R!RowsOf
<1>4. LedgerAddsUp'
  BY <1>2, <1>3 DEF ReportInv, LedgerAddsUp
<1>5. ReportIsTrue'
  <2> SUFFICES ASSUME report # R!NoReport
               PROVE  \E from, to \in R!Days :
                        /\ from = report.from /\ to = report.to /\ from <= to
                        /\ report.settled => R!Settled(to)'
                        /\ report.pc = "done" => report.left = {}
                        /\ R!NothingLost =>
                             /\ report.settled \/ (report.pc = "reading" /\ ~report.disturbed) =>
                                  \A q \in R!Queries \ report.left :
                                    report.result[q] = R!Result(q, from, to)'
                             /\ report.pc = "done" /\ ~report.disturbed =>
                                  R!AddsUp(report.result)
    BY <1>3 DEF ReportIsTrue, R!AddsUp
  <2> QED BY <1>2 DEF ReportInv, ReportIsTrue
<1> QED BY <1>4, <1>5 DEF ReportInv

LEMMA DrawDateStep ==
  ASSUME ReportInv, NEW a \in Accounts, R!DrawDate(a) \/ R!AbandonPost(a)
  PROVE  ReportInv'
<1>1. /\ drawn' = [drawn EXCEPT ![a] = day] /\ a \notin closed
      \/ drawn' = [drawn EXCEPT ![a] = None]
  BY DEF R!DrawDate, R!AbandonPost
<1>2. UNCHANGED <<day, closed, counted, entries, report>>
  BY DEF R!DrawDate, R!AbandonPost
<1>3. /\ day \in R!Days /\ drawn \in [Accounts -> R!Days \cup {None}] /\ R!Days \subseteq Nat
      /\ \A i \in DOMAIN entries : entries[i].date <= day
  BY LedgerIsFinite DEF ReportInv, Books, LedgerTyped, RowsAreDated, R!Days
<1>4. LedgerTyped' /\ RowsAreDated' /\ RowsHaveALast'
  <2>1. drawn' \in [Accounts -> R!Days \cup {None}]
    BY <1>1, <1>3
  <2>2. LedgerTyped'
    BY <1>2, <2>1 DEF ReportInv, Books, LedgerTyped
  <2>3. RowsAreDated' /\ RowsHaveALast'
    BY <1>2 DEF ReportInv, Books, RowsAreDated, RowsHaveALast, R!RowsOf
  <2> QED BY <2>2, <2>3
<1>5. PostsAreDated'
  <2> SUFFICES ASSUME NEW b \in Accounts, drawn'[b] # None
               PROVE  /\ b \notin closed /\ drawn'[b] <= day
                      /\ \A i \in R!RowsOf(b) : entries[i].date <= drawn'[b]
    BY <1>2 DEF PostsAreDated, R!RowsOf
  <2>1. CASE drawn'[b] = drawn[b]
    BY <2>1 DEF ReportInv, Books, PostsAreDated
  <2>2. CASE b = a /\ drawn'[b] = day /\ a \notin closed
    BY <1>3, <2>2 DEF R!RowsOf
  <2> QED BY <1>1, <1>3, <2>1, <2>2
<1>6. \A to \in R!Days : R!Settled(to) => R!Settled(to)'
  BY <1>1, <1>2, <1>3 DEF R!Settled
<1> QED BY <1>2, <1>4, <1>5, <1>6, NothingMoves DEF Books

LEMMA CountStep ==
  ASSUME ReportInv, NEW a \in Accounts, R!CountToArchive(a)
  PROVE  ReportInv'
<1>1. counted' = counted \cup {a} /\ UNCHANGED <<day, closed, entries, drawn, report>>
  BY DEF R!CountToArchive
<1>2. Books'
  BY <1>1 DEF ReportInv, Books, LedgerTyped, RowsAreDated, PostsAreDated, RowsHaveALast, R!RowsOf
<1>3. \A to \in R!Days : R!Settled(to) => R!Settled(to)'
  BY <1>1 DEF R!Settled
<1> QED BY <1>1, <1>2, <1>3, NothingMoves

LEMMA DayStep ==
  ASSUME ReportInv, R!NextDay
  PROVE  ReportInv'
<1>1. day < MaxDay /\ day' = day + 1 /\ UNCHANGED <<closed, counted, entries, drawn, report>>
  BY DEF R!NextDay
<1>2. day \in Nat /\ day' \in R!Days /\ day < day'
  BY <1>1, LedgerIsFinite DEF ReportInv, Books, LedgerTyped, R!Days
<1>3. /\ \A i \in DOMAIN entries : entries[i].date \in Nat
      /\ \A b \in Accounts : drawn[b] # None => drawn[b] \in Nat
  <2>1. \A i \in DOMAIN entries : entries[i].date \in Nat
    BY RowTypes DEF ReportInv, Books, LedgerTyped
  <2>2. R!Days \subseteq Nat
    BY LedgerIsFinite DEF R!Days
  <2> QED BY <2>1, <2>2 DEF ReportInv, Books, LedgerTyped
<1>4. RowsAreDated'
  <2>1. ASSUME NEW i \in DOMAIN entries
        PROVE  entries[i].date <= day'
    <3>1. entries[i].date \in Nat /\ entries[i].date <= day
      BY <1>3 DEF ReportInv, Books, RowsAreDated
    <3> QED BY ONLY <1>2, <3>1, LedgerIsFinite DEF R!Days
  <2> QED BY <1>1, <2>1 DEF ReportInv, Books, RowsAreDated
<1>5. PostsAreDated'
  <2>1. ASSUME NEW b \in Accounts, drawn[b] # None
        PROVE  drawn[b] <= day'
    <3>1. drawn[b] \in Nat /\ drawn[b] <= day
      BY <1>3, <2>1 DEF ReportInv, Books, PostsAreDated
    <3> QED BY ONLY <1>2, <3>1, LedgerIsFinite DEF R!Days
  <2> QED BY <1>1, <2>1 DEF ReportInv, Books, PostsAreDated, R!RowsOf
<1>6. LedgerTyped' /\ RowsHaveALast'
  BY <1>1, <1>2 DEF ReportInv, Books, LedgerTyped, RowsHaveALast, R!RowsOf
<1>7. \A to \in R!Days : R!Settled(to) => R!Settled(to)'
  <2> SUFFICES ASSUME NEW to \in R!Days, to < day PROVE to < day'
    BY <1>1 DEF R!Settled
  <2>1. to \in Nat
    BY LedgerIsFinite DEF R!Days
  <2> QED BY <1>2, <2>1
<1> QED BY <1>1, <1>4, <1>5, <1>6, <1>7, NothingMoves DEF Books

LEMMA ArchiveStep ==
  ASSUME ReportInv, NEW a \in Accounts, R!Archive(a)
  PROVE  ReportInv'
<1>1. /\ drawn[a] = None /\ closed' = closed \cup {a} /\ counted' = counted \ {a}
      /\ report' = R!Disturbed /\ UNCHANGED <<day, entries, drawn>>
  BY DEF R!Archive
<1>2. Books'
  BY <1>1 DEF ReportInv, Books, LedgerTyped, RowsAreDated, PostsAreDated, RowsHaveALast, R!RowsOf
<1>3. R!NothingLost' => R!NothingLost /\ R!RowsOf(a) = {}
  BY <1>1 DEF R!NothingLost, R!RowsOf
<1>4. ASSUME R!NothingLost' PROVE \A k : Newest(k)' = Newest(k)
  <2> SUFFICES ASSUME NEW k PROVE Newest(k)' = Newest(k)
    OBVIOUS
  <2>1. R!NewestBefore(a, k) = {}
    <3>1. \A i \in DOMAIN entries : entries[i].account # a
      BY <1>3, <1>4 DEF R!RowsOf
    <3> QED BY <3>1 DEF R!NewestBefore
  <2>2. \A b : R!NewestBefore(b, k)' = R!NewestBefore(b, k)
    BY <1>1 DEF R!NewestBefore
  <2>3. /\ Newest(k) = UNION {R!NewestBefore(b, k) : b \in Accounts \ closed}
        /\ Newest(k)' = UNION {R!NewestBefore(b, k)' : b \in Accounts \ closed'}
    BY DEF Newest
  <2>4. ASSUME NEW i PROVE i \in Newest(k)' <=> i \in Newest(k)
    BY <1>1, <2>1, <2>2, <2>3
  <2> QED BY <2>3, <2>4
<1>5. R!NothingLost' =>
        /\ \A k : R!BalanceBefore(k)' = R!BalanceBefore(k)
        /\ \A type, from, to : R!TotalOf(type, from, to)' = R!TotalOf(type, from, to)
        /\ \A q, from, to : R!Result(q, from, to)' = R!Result(q, from, to)
  BY <1>1, <1>4, ResultsStay DEF ReportInv
<1>6. LedgerAddsUp'
  BY <1>3, <1>5 DEF ReportInv, LedgerAddsUp
<1>7. \A to \in R!Days : R!Settled(to) => R!Settled(to)'
  BY <1>1 DEF R!Settled
<1> QED BY <1>1, <1>2, <1>3, <1>5, <1>6, <1>7, LedgerMoves

(* A commit leaves the books in order. *)
LEMMA BooksPosted ==
  ASSUME Books, NEW a \in Accounts, drawn[a] # None,
         NEW row \in R!Entry, row.account = a, row.date = drawn[a],
         Len(entries) < MaxEntries, entries' = Append(entries, row),
         drawn' = [drawn EXCEPT ![a] = None], UNCHANGED <<day, closed, counted>>
  PROVE  Books'
<1> DEFINE z == Len(entries) + 1
<1>1. /\ entries' \in Seq(R!Entry) /\ Len(entries') = z
      /\ DOMAIN entries' = DOMAIN entries \cup {z} /\ z \notin DOMAIN entries
      /\ entries'[z] = row
      /\ \A i \in DOMAIN entries : i \in Nat /\ i < z /\ entries'[i] = entries[i]
  BY RowsAdded
<1>2. z \in Nat /\ z <= MaxEntries
  BY LedgerIsFinite DEF Books, LedgerTyped
<1> HIDE DEF z
<1>3. LedgerTyped'
  BY <1>1, <1>2 DEF Books, LedgerTyped
<1>4. RowsAreDated'
  <2>1. \A i \in R!RowsOf(a) : entries[i].date <= row.date /\ row.date <= day
    BY DEF Books, PostsAreDated
  <2>2. row.date <= day
    BY DEF Books, PostsAreDated
  <2>3. \A i \in DOMAIN entries' : entries'[i].date <= day
    BY <1>1, <2>2 DEF Books, RowsAreDated
  <2>4. ASSUME NEW i \in DOMAIN entries', NEW j \in DOMAIN entries',
               entries'[i].account = entries'[j].account, i < j
        PROVE  entries'[i].date <= entries'[j].date
    <3>1. CASE i \in DOMAIN entries /\ j \in DOMAIN entries
      BY <1>1, <2>4, <3>1 DEF Books, RowsAreDated
    <3>2. CASE i \in DOMAIN entries /\ j = z
      <4>1. i \in R!RowsOf(a)
        BY <1>1, <2>4, <3>2 DEF R!RowsOf
      <4> QED BY <1>1, <2>1, <3>2, <4>1
    <3>3. CASE i = z
      <4>1. ~(i < j)
        BY <1>1, <1>2, <3>3
      <4> QED BY <2>4, <4>1
    <3> QED BY <1>1, <3>1, <3>2, <3>3
  <2> QED BY <2>3, <2>4 DEF RowsAreDated
<1>5. /\ \A b \in Accounts \ {a} : R!RowsOf(b)' = R!RowsOf(b)
      /\ R!RowsOf(a)' = R!RowsOf(a) \cup {z}
  BY <1>1 DEF R!RowsOf
<1>6. PostsAreDated'
  <2> SUFFICES ASSUME NEW b \in Accounts, drawn'[b] # None
               PROVE  /\ b \notin closed /\ drawn'[b] <= day
                      /\ \A i \in R!RowsOf(b)' : entries'[i].date <= drawn'[b]
    BY DEF PostsAreDated
  <2>1. b # a /\ drawn'[b] = drawn[b]
    BY DEF Books, LedgerTyped
  <2>2. \A i \in R!RowsOf(b) : i \in DOMAIN entries /\ entries'[i] = entries[i]
    BY <1>1 DEF R!RowsOf
  <2> QED BY <1>5, <2>1, <2>2 DEF Books, PostsAreDated
<1>7. RowsHaveALast'
  <2>1. \A j \in R!RowsOf(a)' : j <= z
    <3>1. \A j \in R!RowsOf(a) : j \in Nat /\ j < z
      BY <1>1 DEF R!RowsOf
    <3> QED BY <1>2, <1>5, <3>1
  <2> QED BY <1>5, <2>1 DEF Books, RowsHaveALast
<1> QED BY <1>3, <1>4, <1>6, <1>7 DEF Books

(* A commit keeps the sums of every period right. *)
LEMMA SumsPosted ==
  ASSUME Books, LedgerAddsUp, NEW a \in Accounts, drawn[a] # None,
         NEW type \in {"INCREASE", "DECREASE"}, NEW n \in Amounts,
         type = "DECREASE" => R!Latest(a) >= n,
         entries' = Append(entries, Posted(a, type, n)), closed' = closed,
         R!NothingLost, NEW from \in R!Days, NEW to \in R!Days, from <= to
  PROVE  R!BalanceBefore(to + 1)' + R!TotalOf("DECREASE", from, to)' =
           R!BalanceBefore(from)' + R!TotalOf("INCREASE", from, to)'
<1> DEFINE row == Posted(a, type, n)
           d == drawn[a]
<1>1. /\ row \in R!Entry /\ row.account = a /\ row.type = type /\ row.amount = n
      /\ n \in Nat /\ row.date = d /\ row.balance \in Nat
      /\ type = "INCREASE" => row.balance = R!Latest(a) + n
      /\ type = "DECREASE" => row.balance + n = R!Latest(a)
  BY PostedShape
<1> HIDE DEF row
<1>2. d \in Nat /\ from \in Nat /\ to \in Nat
  BY LedgerIsFinite DEF Books, LedgerTyped, R!Days
<1>3. ASSUME NEW k \in Nat
      PROVE  /\ d < k => R!BalanceBefore(k)' + R!Latest(a) = R!BalanceBefore(k) + row.balance
             /\ ~(d < k) => R!BalanceBefore(k)' = R!BalanceBefore(k)
  BY <1>1, BalancePosted DEF row
<1>4. ASSUME NEW t
      PROVE  R!TotalOf(t, from, to)' =
               R!TotalOf(t, from, to) + (IF type = t /\ d \in from .. to THEN n ELSE 0)
  BY <1>1, TotalPosted DEF row
<1>5. R!BalanceBefore(to + 1) + R!TotalOf("DECREASE", from, to) =
        R!BalanceBefore(from) + R!TotalOf("INCREASE", from, to)
  BY DEF LedgerAddsUp
<1>6. /\ R!BalanceBefore(to + 1) \in Nat /\ R!BalanceBefore(from) \in Nat
      /\ R!TotalOf("DECREASE", from, to) \in Nat /\ R!TotalOf("INCREASE", from, to) \in Nat
      /\ R!Latest(a) \in Nat
  BY SumsAreNat, LatestIsNat DEF Books, LedgerTyped
<1>7. entries' \in Seq(R!Entry)
  BY <1>1, RowsAdded DEF row
<1>8. R!BalanceBefore(to + 1)' \in Nat /\ R!BalanceBefore(from)' \in Nat
  <2>1. \A k : R!BalanceBefore(k)' \in Nat
    BY <1>7, SumsAreNatNext
  <2> QED BY <2>1
<1>9. CASE d < from
  <2>1. to + 1 \in Nat /\ d < from /\ d < to + 1 /\ d \notin from .. to
    BY <1>2, <1>9
  <2>2. /\ R!BalanceBefore(to + 1)' + R!Latest(a) = R!BalanceBefore(to + 1) + row.balance
        /\ R!BalanceBefore(from)' + R!Latest(a) = R!BalanceBefore(from) + row.balance
    BY <1>2, <1>3, <2>1
  <2>3. /\ R!TotalOf("INCREASE", from, to)' = R!TotalOf("INCREASE", from, to)
        /\ R!TotalOf("DECREASE", from, to)' = R!TotalOf("DECREASE", from, to)
    BY <1>2, <1>4, <1>6, <2>1
  <2>4. row.balance \in Nat
    BY <1>1
  <2> HIDE DEF d
  <2> QED BY ONLY <1>5, <1>6, <1>8, <2>2, <2>3, <2>4
<1>10. CASE from <= d /\ d <= to
  <2>1. to + 1 \in Nat /\ ~(d < from) /\ d < to + 1 /\ d \in from .. to
    BY <1>2, <1>10
  <2>2. /\ R!BalanceBefore(to + 1)' + R!Latest(a) = R!BalanceBefore(to + 1) + row.balance
        /\ R!BalanceBefore(from)' = R!BalanceBefore(from)
    BY <1>2, <1>3, <2>1
  <2>3. /\ R!TotalOf("INCREASE", from, to)' =
             R!TotalOf("INCREASE", from, to) + (IF type = "INCREASE" THEN n ELSE 0)
        /\ R!TotalOf("DECREASE", from, to)' =
             R!TotalOf("DECREASE", from, to) + (IF type = "DECREASE" THEN n ELSE 0)
    BY <1>2, <1>4, <2>1
  <2> HIDE DEF d
  <2>4. type \in {"INCREASE", "DECREASE"}
    OBVIOUS
  <2> QED BY ONLY <1>1, <1>5, <1>6, <1>8, <2>2, <2>3, <2>4
<1>11. CASE to < d
  <2>1. to + 1 \in Nat /\ ~(d < from) /\ ~(d < to + 1) /\ d \notin from .. to
    BY <1>2, <1>11
  <2>2. /\ R!BalanceBefore(to + 1)' = R!BalanceBefore(to + 1)
        /\ R!BalanceBefore(from)' = R!BalanceBefore(from)
    BY <1>2, <1>3, <2>1
  <2>3. /\ R!TotalOf("INCREASE", from, to)' = R!TotalOf("INCREASE", from, to)
        /\ R!TotalOf("DECREASE", from, to)' = R!TotalOf("DECREASE", from, to)
    BY <1>2, <1>4, <1>6, <2>1
  <2>4. row.balance \in Nat
    BY <1>1
  <2> HIDE DEF d
  <2> QED BY ONLY <1>5, <1>6, <1>8, <2>2, <2>3, <2>4
<1> QED BY <1>2, <1>9, <1>10, <1>11

LEMMA CommitStep ==
  ASSUME ReportInv, NEW a \in Accounts, R!CommitPost(a)
  PROVE  ReportInv'
<1>1. PICK type \in {"INCREASE", "DECREASE"}, n \in Amounts :
        /\ drawn[a] # None /\ Len(entries) < MaxEntries
        /\ type = "DECREASE" => R!Latest(a) >= n
        /\ entries' = Append(entries, Posted(a, type, n))
        /\ drawn' = [drawn EXCEPT ![a] = None]
        /\ report' = R!Disturbed
        /\ UNCHANGED <<day, closed, counted>>
  BY DEF R!CommitPost, Posted
<1> DEFINE row == Posted(a, type, n)
<1>2. Books /\ LedgerAddsUp
  BY DEF ReportInv
<1>3. row \in R!Entry /\ row.account = a /\ row.date = drawn[a] /\ drawn[a] \in R!Days
  BY <1>1, <1>2, PostedShape
<1>4. Books'
  <2> HIDE DEF row
  <2> QED BY <1>1, <1>2, <1>3, BooksPosted DEF row
<1>5. R!NothingLost' => R!NothingLost
  <2>1. entries \in Seq(R!Entry)
    BY <1>2 DEF Books, LedgerTyped
  <2>2. \A b \in Accounts : R!RowsOf(b) \subseteq R!RowsOf(b)'
    <3>1. /\ DOMAIN entries' = DOMAIN entries \cup {Len(entries) + 1}
          /\ \A i \in DOMAIN entries : entries'[i] = entries[i]
      BY <1>1, <1>2, <1>3, RowsAdded
    <3> QED BY <3>1 DEF R!RowsOf
  <2>3. closed \subseteq Accounts
    BY <1>2 DEF Books, LedgerTyped
  <2> QED BY <1>1, <2>2, <2>3 DEF R!NothingLost
<1>6. LedgerAddsUp'
  <2> SUFFICES ASSUME R!NothingLost', NEW from \in R!Days, NEW to \in R!Days, from <= to
               PROVE  R!BalanceBefore(to + 1)' + R!TotalOf("DECREASE", from, to)' =
                        R!BalanceBefore(from)' + R!TotalOf("INCREASE", from, to)'
    BY DEF LedgerAddsUp
  <2> QED BY <1>1, <1>2, <1>5, SumsPosted
<1>7. \A to \in R!Days : R!Settled(to) => R!Settled(to)'
  <2>1. \A b \in Accounts : drawn'[b] = None \/ drawn'[b] = drawn[b]
    BY <1>1, <1>2 DEF Books, LedgerTyped
  <2> QED BY <1>1, <2>1 DEF R!Settled
<1>8. ASSUME NEW from \in R!Days, NEW to \in R!Days, NEW q \in R!Queries,
             from <= to, R!Settled(to)
      PROVE  R!Result(q, from, to)' = R!Result(q, from, to)
  <2>1. drawn[a] > to
    BY <1>1, <1>8 DEF R!Settled
  <2>2. from \in Nat /\ to \in Nat /\ to + 1 \in Nat /\ drawn[a] \in Nat
    BY <1>3, LedgerIsFinite DEF R!Days
  <2>3. ~(drawn[a] < from) /\ ~(drawn[a] < to + 1) /\ drawn[a] \notin from .. to
    BY <1>8, <2>1, <2>2
  <2>4. ASSUME NEW k \in {from, to + 1}
        PROVE  R!BalanceBefore(k)' = R!BalanceBefore(k)
    <3>1. k \in Nat /\ ~(drawn[a] < k)
      BY <2>2, <2>3
    <3> HIDE DEF row
    <3> QED BY <1>1, <1>2, <1>3, <3>1, BalancePosted DEF row
  <2>5. ASSUME NEW t
        PROVE  R!TotalOf(t, from, to)' = R!TotalOf(t, from, to)
    <3>1. R!TotalOf(t, from, to) \in Nat
      BY <1>2, SumsAreNat DEF Books, LedgerTyped
    <3>2. R!TotalOf(t, from, to)' = R!TotalOf(t, from, to) +
            (IF row.type = t /\ row.date \in from .. to THEN row.amount ELSE 0)
      <4> HIDE DEF row
      <4> QED BY <1>1, <1>2, <1>3, TotalPosted DEF row
    <3>3. row.date \notin from .. to
      BY <1>3, <2>3
    <3> HIDE DEF row
    <3> QED BY <3>1, <3>2, <3>3
  <2>6. /\ R!BalanceBefore(from)' = R!BalanceBefore(from)
        /\ R!BalanceBefore(to + 1)' = R!BalanceBefore(to + 1)
        /\ R!TotalOf("INCREASE", from, to)' = R!TotalOf("INCREASE", from, to)
        /\ R!TotalOf("DECREASE", from, to)' = R!TotalOf("DECREASE", from, to)
    BY <2>4, <2>5
  <2> QED BY ONLY <2>6 DEF R!Result, R!Totals
<1> QED BY <1>1, <1>4, <1>5, <1>6, <1>7, <1>8, LedgerMoves

(* Three results of one ledger add up. *)
LEMMA ResultsAddUp ==
  ASSUME LedgerAddsUp, R!NothingLost, NEW from \in R!Days, NEW to \in R!Days, from <= to,
         NEW result, \A q \in R!Queries : result[q] = R!Result(q, from, to)
  PROVE  R!AddsUp(result)
<1>1. /\ result["closing"] = R!BalanceBefore(to + 1)
      /\ result["opening"] = R!BalanceBefore(from)
      /\ result["entries"].expense = R!TotalOf("DECREASE", from, to)
      /\ result["entries"].income = R!TotalOf("INCREASE", from, to)
  BY DEF R!Queries, R!Result, R!Totals
<1> QED BY <1>1 DEF LedgerAddsUp, R!AddsUp

(* The steps of the report itself. *)
LEMMA LedgerStays ==
  ASSUME ReportInv, UNCHANGED <<day, closed, counted, entries, drawn>>
  PROVE  /\ Books' /\ LedgerAddsUp'
         /\ \A q, from, to : R!Result(q, from, to)' = R!Result(q, from, to)
         /\ \A to : R!Settled(to)' = R!Settled(to)
         /\ R!NothingLost' = R!NothingLost
<1>1. Books'
  BY DEF ReportInv, Books, LedgerTyped, RowsAreDated, PostsAreDated, RowsHaveALast, R!RowsOf
<1>2. \A k : Newest(k)' = Newest(k)
  BY DEF Newest, R!NewestBefore
<1>3. /\ \A k : R!BalanceBefore(k)' = R!BalanceBefore(k)
      /\ \A type, x, y : R!TotalOf(type, x, y)' = R!TotalOf(type, x, y)
      /\ \A q, x, y : R!Result(q, x, y)' = R!Result(q, x, y)
  BY <1>2, ResultsStay DEF ReportInv
<1>4. R!NothingLost' = R!NothingLost
  BY DEF R!NothingLost, R!RowsOf
<1>5. LedgerAddsUp'
  BY <1>3, <1>4 DEF ReportInv, LedgerAddsUp
<1>6. \A to : R!Settled(to)' = R!Settled(to)
  BY DEF R!Settled
<1> QED BY <1>1, <1>3, <1>4, <1>5, <1>6

LEMMA AskStep ==
  ASSUME ReportInv, NEW from \in R!Days, NEW to \in R!Days, R!Ask(from, to)
  PROVE  ReportInv'
<1>1. /\ report = R!NoReport /\ from <= to
      /\ report' = [pc |-> "reading", from |-> from, to |-> to, left |-> R!Queries,
                    result |-> [q \in R!Queries |-> None],
                    settled |-> R!Settled(to), disturbed |-> FALSE]
      /\ UNCHANGED <<day, closed, counted, entries, drawn>>
  BY DEF R!Ask
<1>2. report' \in Asked
  <2>1. [q \in R!Queries |-> None] \in [R!Queries -> Results]
    BY DEF Results
  <2>2. R!Settled(to) \in BOOLEAN
    BY DEF R!Settled
  <2> QED BY <1>1, <2>1, <2>2 DEF Asked
<1>3. ReportIsTrue'
  <2>1. R!Settled(to)' = R!Settled(to)
    BY <1>1, LedgerStays
  <2>2. /\ report'.from = from /\ report'.to = to /\ report'.pc = "reading"
        /\ report'.settled = R!Settled(to) /\ report'.left = R!Queries
    BY ONLY <1>1
  <2> SUFFICES ASSUME report' # R!NoReport
               PROVE  \E x, y \in R!Days :
                        /\ x = report'.from /\ y = report'.to /\ x <= y
                        /\ report'.settled => R!Settled(y)'
                        /\ report'.pc = "done" => report'.left = {}
                        /\ R!NothingLost' =>
                             /\ report'.settled \/ (report'.pc = "reading" /\ ~report'.disturbed) =>
                                  \A q \in R!Queries \ report'.left :
                                    report'.result[q] = R!Result(q, x, y)'
                             /\ report'.pc = "done" /\ ~report'.disturbed =>
                                  R!AddsUp(report'.result)
    BY DEF ReportIsTrue, R!AddsUp
  <2>3. /\ from = report'.from /\ to = report'.to /\ from <= to
        /\ report'.settled => R!Settled(to)'
        /\ report'.pc # "done" /\ R!Queries \ report'.left = {}
    BY <1>1, <2>1, <2>2
  <2> QED BY <2>3
<1> QED BY <1>1, <1>2, <1>3, LedgerStays DEF ReportInv

LEMMA QueryStep ==
  ASSUME ReportInv, NEW q \in R!Queries, R!Query(q)
  PROVE  ReportInv'
<1>1. /\ report.pc = "reading" /\ q \in report.left
      /\ report' = [report EXCEPT !.left = report.left \ {q},
                      !.result = [report.result EXCEPT ![q] = R!Result(q, report.from, report.to)]]
      /\ UNCHANGED <<day, closed, counted, entries, drawn>>
  BY DEF R!Query
<1>2. report # R!NoReport /\ report \in Asked
  BY <1>1 DEF ReportInv, R!NoReport
<1>3. PICK from, to \in R!Days :
        /\ from = report.from /\ to = report.to /\ from <= to
        /\ report.settled => R!Settled(to)
        /\ report.pc = "done" => report.left = {}
        /\ R!NothingLost =>
             /\ report.settled \/ (report.pc = "reading" /\ ~report.disturbed) =>
                  \A p \in R!Queries \ report.left : report.result[p] = R!Result(p, from, to)
             /\ report.pc = "done" /\ ~report.disturbed => R!AddsUp(report.result)
  BY <1>2 DEF ReportInv, ReportIsTrue
<1>4. PICK x : x = R!Result(q, from, to) /\ x \in Results
  BY ResultTypes DEF ReportInv
<1>5. report' = [report EXCEPT !.left = report.left \ {q},
                               !.result = [report.result EXCEPT ![q] = x]]
  BY <1>1, <1>3, <1>4
<1>6. /\ report' \in Asked
      /\ report'.from = report.from /\ report'.to = report.to /\ report'.pc = report.pc
      /\ report'.left = report.left \ {q} /\ report'.settled = report.settled
      /\ report'.disturbed = report.disturbed
      /\ report'.result = [report.result EXCEPT ![q] = x]
  <2>1. report.result \in [R!Queries -> Results]
    BY <1>2 DEF Asked
  <2>2. [report.result EXCEPT ![q] = x] \in [R!Queries -> Results]
    BY <1>4, <2>1
  <2> QED BY ONLY <1>2, <1>5, <2>2 DEF Asked
<1>7. ASSUME R!NothingLost, report.settled \/ ~report.disturbed,
             NEW p \in R!Queries \ report'.left
      PROVE  report'.result[p] = R!Result(p, from, to)
  <2>1. report.result \in [R!Queries -> Results]
    BY <1>2 DEF Asked
  <2>2. CASE p = q
    BY <1>4, <1>6, <2>1, <2>2
  <2>3. CASE p # q
    <3>1. p \in R!Queries \ report.left
      BY <1>6, <1>7, <2>3
    <3>2. report'.result[p] = report.result[p]
      BY <1>6, <2>1, <2>3
    <3> QED BY <1>1, <1>3, <1>7, <3>1, <3>2
  <2> QED BY <2>2, <2>3
<1>8. ReportIsTrue'
  <2> SUFFICES ASSUME report' # R!NoReport
               PROVE  \E x1, y1 \in R!Days :
                        /\ x1 = report'.from /\ y1 = report'.to /\ x1 <= y1
                        /\ report'.settled => R!Settled(y1)'
                        /\ report'.pc = "done" => report'.left = {}
                        /\ R!NothingLost' =>
                             /\ report'.settled \/ (report'.pc = "reading" /\ ~report'.disturbed) =>
                                  \A p \in R!Queries \ report'.left :
                                    report'.result[p] = R!Result(p, x1, y1)'
                             /\ report'.pc = "done" /\ ~report'.disturbed =>
                                  R!AddsUp(report'.result)
    BY DEF ReportIsTrue, R!AddsUp
  <2>1. /\ R!NothingLost' = R!NothingLost /\ R!Settled(to)' = R!Settled(to)
        /\ \A p : R!Result(p, from, to)' = R!Result(p, from, to)
    BY <1>1, LedgerStays
  <2>2. report'.pc = "reading"
    BY <1>1, <1>6
  <2>3. ASSUME R!NothingLost', report'.settled \/ ~report'.disturbed,
               NEW p \in R!Queries \ report'.left
        PROVE  report'.result[p] = R!Result(p, from, to)'
    BY <1>6, <1>7, <2>1, <2>3
  <2> QED BY <1>3, <1>6, <2>1, <2>2, <2>3
<1> QED BY <1>1, <1>6, <1>8, LedgerStays DEF ReportInv

LEMMA FinishStep ==
  ASSUME ReportInv, R!Finish
  PROVE  ReportInv'
<1>1. /\ report.pc = "reading" /\ report.left = {}
      /\ report' = [report EXCEPT !.pc = "done"]
      /\ UNCHANGED <<day, closed, counted, entries, drawn>>
  BY DEF R!Finish
<1>2. report # R!NoReport /\ report \in Asked
  BY <1>1 DEF ReportInv, R!NoReport
<1>3. PICK from, to \in R!Days :
        /\ from = report.from /\ to = report.to /\ from <= to
        /\ report.settled => R!Settled(to)
        /\ report.pc = "done" => report.left = {}
        /\ R!NothingLost =>
             /\ report.settled \/ (report.pc = "reading" /\ ~report.disturbed) =>
                  \A p \in R!Queries \ report.left : report.result[p] = R!Result(p, from, to)
             /\ report.pc = "done" /\ ~report.disturbed => R!AddsUp(report.result)
  BY <1>2 DEF ReportInv, ReportIsTrue
<1>4. /\ report' \in Asked /\ report'.pc = "done"
      /\ report'.from = report.from /\ report'.to = report.to
      /\ report'.left = report.left /\ report'.settled = report.settled
      /\ report'.disturbed = report.disturbed /\ report'.result = report.result
  BY ONLY <1>1, <1>2 DEF Asked
<1>5. ASSUME R!NothingLost, ~report.disturbed
      PROVE  R!AddsUp(report.result)
  <2>1. \A p \in R!Queries : report.result[p] = R!Result(p, from, to)
    BY <1>1, <1>3, <1>5
  <2> QED BY <1>3, <1>5, <2>1, ResultsAddUp DEF ReportInv
<1>6. ReportIsTrue'
  <2> SUFFICES ASSUME report' # R!NoReport
               PROVE  \E x, y \in R!Days :
                        /\ x = report'.from /\ y = report'.to /\ x <= y
                        /\ report'.settled => R!Settled(y)'
                        /\ report'.pc = "done" => report'.left = {}
                        /\ R!NothingLost' =>
                             /\ report'.settled \/ (report'.pc = "reading" /\ ~report'.disturbed) =>
                                  \A p \in R!Queries \ report'.left :
                                    report'.result[p] = R!Result(p, x, y)'
                             /\ report'.pc = "done" /\ ~report'.disturbed =>
                                  R!AddsUp(report'.result)
    BY DEF ReportIsTrue, R!AddsUp
  <2>1. /\ R!NothingLost' = R!NothingLost /\ R!Settled(to)' = R!Settled(to)
        /\ \A p : R!Result(p, from, to)' = R!Result(p, from, to)
    BY <1>1, LedgerStays
  <2> QED BY <1>1, <1>3, <1>4, <1>5, <2>1
<1> QED BY <1>1, <1>4, <1>6, LedgerStays DEF ReportInv

-----------------------------------------------------------------------------
LEMMA ReportInit == R!Init => ReportInv
<1> SUFFICES ASSUME R!Init PROVE ReportInv
  OBVIOUS
<1>1. /\ day = 0 /\ closed = {} /\ counted = {} /\ entries = <<>>
      /\ drawn = [a \in Accounts |-> None] /\ report = R!NoReport
  BY DEF R!Init
<1>2. Books
  <2>1. 0 \in R!Days /\ Len(entries) = 0 /\ entries \in Seq(R!Entry) /\ DOMAIN entries = {}
    BY <1>1, LedgerIsFinite DEF R!Days
  <2>2. LedgerTyped
    BY <1>1, <2>1, LedgerIsFinite DEF LedgerTyped
  <2>3. RowsAreDated /\ PostsAreDated /\ RowsHaveALast
    BY <1>1, <2>1 DEF RowsAreDated, PostsAreDated, RowsHaveALast, R!RowsOf
  <2> QED BY <2>2, <2>3 DEF Books
<1>3. LedgerAddsUp
  <2>1. entries \in Seq(R!Entry) /\ DOMAIN entries = {}
    BY <1>1
  <2>2. /\ \A k : Newest(k) = {}
        /\ \A type, from, to : InPeriod(type, from, to) = {}
    BY <2>1 DEF Newest, InPeriod, R!NewestBefore
  <2>3. \A f : Sum(f, {}) = 0
    BY FS_EmptySet, SumDef
  <2>4. /\ \A k : R!BalanceBefore(k) = 0
        /\ \A type, from, to : R!TotalOf(type, from, to) = 0
    BY <2>1, <2>2, <2>3, LedgerSums
  <2> QED BY <2>4 DEF LedgerAddsUp
<1> QED BY <1>1, <1>2, <1>3 DEF ReportInv, ReportIsTrue

LEMMA ReportNext == ReportInv /\ [R!Next]_ledger => ReportInv'
<1>1. ASSUME ReportInv, UNCHANGED ledger
      PROVE  ReportInv'
  <2>1. UNCHANGED <<day, closed, counted, entries, drawn, report>>
    BY <1>1 DEF ledger
  <2> QED BY <1>1, <2>1, LedgerStays, NothingMoves
<1>2. ASSUME ReportInv, R!Next
      PROVE  ReportInv'
  BY <1>2, DrawDateStep, CommitStep, CountStep, ArchiveStep, DayStep, AskStep, QueryStep, FinishStep
     DEF R!Next
<1> QED BY <1>1, <1>2

(* Whatever is posted beside it, over every period what the accounts held   *)
(* before it and what came in make what they hold after it and what went    *)
(* out, as long as no account was archived beside a post to it: the rows    *)
(* that getBalanceAt takes for a date and those that calculateFinanceTotals *)
(* adds up are of one ledger, although ledgerDate is drawn before the row   *)
(* of the account is written and other posts commit in between.             *)
THEOREM LedgersAddUp == Spec => []LedgerAddsUp
<1>1. Init => ReportInv
  BY ReportInit DEF Init
<1>2. ReportInv /\ [Next]_vars => ReportInv'
  BY ReportNext DEF Next, vars
<1>3. ReportInv => LedgerAddsUp
  BY DEF ReportInv
<1> QED BY <1>1, <1>2, <1>3, PTL DEF Spec

(* A cash flow report whose queries saw one ledger adds up; that of a       *)
(* period that was over when it was asked for does so in any case, and says *)
(* what any later one would say.                                            *)
THEOREM ReportsAreTrue == Spec => []ReportsHold
<1>1. Init => ReportInv
  BY ReportInit DEF Init
<1>2. ReportInv /\ [Next]_vars => ReportInv'
  BY ReportNext DEF Next, vars
<1>3. ASSUME ReportInv, report.pc = "done", R!NothingLost
      PROVE  /\ report.settled \/ ~report.disturbed => R!AddsUp(report.result)
             /\ report.settled => \A q \in R!Queries :
                  report.result[q] = R!Result(q, report.from, report.to)
  <2>1. report # R!NoReport
    BY <1>3 DEF R!NoReport
  <2>2. PICK from, to \in R!Days :
          /\ from = report.from /\ to = report.to /\ from <= to
          /\ report.pc = "done" => report.left = {}
          /\ report.settled =>
               \A q \in R!Queries \ report.left : report.result[q] = R!Result(q, from, to)
          /\ ~report.disturbed => R!AddsUp(report.result)
    BY <1>3, <2>1 DEF ReportInv, ReportIsTrue
  <2>3. report.settled => \A q \in R!Queries : report.result[q] = R!Result(q, from, to)
    BY <1>3, <2>2
  <2>4. report.settled => R!AddsUp(report.result)
    BY <1>3, <2>2, <2>3, ResultsAddUp DEF ReportInv
  <2> QED BY <2>2, <2>3, <2>4
<1>4. ReportInv => ReportsHold
  BY <1>3 DEF ReportsHold, R!ReportsHold
<1> QED BY <1>1, <1>2, <1>4, PTL DEF Spec

-----------------------------------------------------------------------------
(* All of them. *)

LEMMA ReportIsTyped == ReportInv => R!TypeOK
<1> SUFFICES ASSUME ReportInv PROVE R!TypeOK
  OBVIOUS
<1>1. ASSUME report # R!NoReport
      PROVE  /\ report.pc \in {"reading", "done"}
             /\ report.from \in R!Days /\ report.to \in R!Days
             /\ report.left \subseteq R!Queries
             /\ DOMAIN report.result = R!Queries
             /\ report.settled \in BOOLEAN /\ report.disturbed \in BOOLEAN
  <2>1. report \in Asked
    BY <1>1 DEF ReportInv
  <2> QED BY <2>1 DEF Asked
<1> QED BY <1>1 DEF ReportInv, Books, LedgerTyped, R!TypeOK

(* Every variable of every component keeps its type: no request, whatever   *)
(* it overlaps with, leaves a row that has no meaning.                      *)
THEOREM EverythingIsTyped == Spec => []TypeOK
<1> DEFINE Inv == BindingInv /\ ContentInv /\ ImageInv /\ NoticeInv /\ ReportInv
<1>1. Init => Inv
  BY BindingInit, ContentInit, ImageInit, NoticeInit, ReportInit DEF Init
<1>2. Inv /\ [Next]_vars => Inv'
  <2> SUFFICES ASSUME Inv, [Next]_vars PROVE Inv'
    OBVIOUS
  <2>1. /\ [B!Next]_binding /\ [C!Next]_content /\ [A!Next]_pictures /\ [T!Next]_announcing
        /\ [R!Next]_ledger
    BY DEF Next, vars
  <2> QED BY <2>1, BindingNext, ContentNext, ImageNext, NoticeNext, ReportNext
<1>3. Inv => B!TypeOK /\ C!TypeOK /\ A!TypeOK /\ T!TypeOK /\ R!TypeOK
  BY ReportIsTyped DEF BindingInv, ContentInv, ImageInv, NoticeInv
<1>4. N!TypeOK /\ M!TypeOK /\ Inv => TypeOK
  BY <1>3 DEF TypeOK
<1> HIDE DEF Inv
<1> QED BY <1>1, <1>2, <1>4, RegistersAreTyped, PTL DEF Spec

(* What is shown of a part beside the others is shown of it alone: seen     *)
(* from its own variables, every behaviour of all of them is one of each.   *)
THEOREM PartsRunAsAlone ==
  Spec => N!Spec /\ B!Spec /\ M!Spec /\ C!Spec /\ A!Spec /\ T!Spec /\ R!Spec
<1>1. Init => N!Init /\ B!Init /\ M!Init /\ C!Init /\ A!Init /\ T!Init /\ R!Init
  BY DEF Init
<1>2. [Next]_vars => /\ [N!Next]_(N!vars) /\ [B!Next]_(B!vars) /\ [M!Next]_(M!vars)
                     /\ [C!Next]_(C!vars) /\ [A!Next]_(A!vars) /\ [T!Next]_(T!vars)
                     /\ [R!Next]_(R!vars)
  BY DEF Next, vars, houses, binding, members, content, pictures, announcing, ledger,
         N!vars, B!vars, M!vars, C!vars, A!vars, T!vars, R!vars
<1> QED BY <1>1, <1>2, PTL
     DEF Spec, N!Spec, B!Spec, M!Spec, C!Spec, A!Spec, T!Spec, R!Spec
=============================================================================
