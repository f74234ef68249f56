------------------------------ MODULE Content ------------------------------
(***************************************************************************)
(* Community content of one RT: apps/api/src/modules/content.  Posts and   *)
(* their slugs, and visitors' reactions with the count that mirrors them;  *)
(* the images of posts are in Attachments.  Requests overlap: a slug is    *)
(* looked for before the post is inserted, and a reaction's transaction,   *)
(* READ COMMITTED, counts the rows that it sees.                           *)
(***************************************************************************)
EXTENDS Naturals, FiniteSets

CONSTANTS
  Posts,
  Suffixes,   (* bound: the slugs 1 .. Suffixes that one title may get *)
  Visitors,
  Reactions,  (* the types of a reaction *)
  Requests,   (* requests that are handled at the same time *)
  None        (* null *)

VARIABLES
  posts,      (* announcements: slug, status, deleted and reactionCount *)
  rows,       (* post_reactions *)
  request,
  hurried,    (* history: posts with reactions that overlapped *)
  refused     (* history: a post was refused for its slug, and no other came between *)

vars == <<posts, rows, request, hurried, refused>>

Idle == [pc |-> "idle"]
Done(r) == request' = [request EXCEPT ![r] = Idle]

(* A row of announcements. *)
PostRow ==
  [slug : 1 .. Suffixes, status : {"DRAFT", "PUBLISHED", "ARCHIVED"}, deleted : BOOLEAN,
   count : 0 .. Cardinality(Visitors)]

(* What a request is at. *)
Work ==
  {Idle}
    \cup [pc : {"insert"}, slug : 1 .. Suffixes, status : {"DRAFT", "PUBLISHED"},
          alone : BOOLEAN]
    \cup [pc : {"react", "mirror"}, post : Posts, visitor : Visitors,
          count : 0 .. Cardinality(Visitors), new : Reactions \cup {None}]

Exists(p) == posts[p] # None /\ ~posts[p].deleted
IsPublic(p) == Exists(p) /\ posts[p].status = "PUBLISHED"

-----------------------------------------------------------------------------
(* Posts. *)

(* slugExists *)
SlugExists(n) == \E p \in Posts : Exists(p) /\ posts[p].slug = n

(* ensureUniqueSlug: the first that is not taken *)
FirstFree(n) == ~SlugExists(n) /\ \A k \in 1 .. (n - 1) : SlugExists(k)

(* createPost, of posts with one title *)
BeginPost(r) ==
  \E n \in 1 .. Suffixes, status \in {"DRAFT", "PUBLISHED"} :
    /\ request[r] = Idle
    /\ FirstFree(n)
    /\ request' = [request EXCEPT ![r] =
         [pc |-> "insert", slug |-> n, status |-> status, alone |-> TRUE]]
    /\ UNCHANGED <<posts, rows, hurried, refused>>

(* The unique index on (rtId, slug), which knows no deletedAt *)
SlugTaken(n) == \E p \in Posts : posts[p] # None /\ posts[p].slug = n

(* Others that look for a slug at the same time are not alone any more.    *)
InsertPost(r, p) ==
  LET q == request[r] IN
  /\ q.pc = "insert"
  /\ posts[p] = None
  /\ IF SlugTaken(q.slug)
     THEN /\ refused' = (refused \/ q.alone)
          /\ Done(r)
          /\ UNCHANGED posts
     ELSE /\ posts' = [posts EXCEPT ![p] =
               [slug |-> q.slug, status |-> q.status, deleted |-> FALSE, count |-> 0]]
          /\ request' = [s \in Requests |->
               IF s = r THEN Idle
               ELSE IF request[s].pc = "insert" THEN [request[s] EXCEPT !.alone = FALSE]
               ELSE request[s]]
          /\ UNCHANGED refused
  /\ UNCHANGED <<rows, hurried>>

(* publishPost and archivePost; updatePost changes nothing of this.        *)
SetStatus(p, status) ==
  /\ Exists(p)
  /\ posts' = [posts EXCEPT ![p].status = status]
  /\ UNCHANGED <<rows, request, hurried, refused>>

(* deletePost *)
DeletePost(p) ==
  /\ Exists(p)
  /\ posts' = [posts EXCEPT ![p].deleted = TRUE]
  /\ UNCHANGED <<rows, request, hurried, refused>>

-----------------------------------------------------------------------------
(* Reactions. *)

(* reactToPost: the post is looked for, then the visitor's row.            *)
BeginReaction(r, p, v, type) ==
  /\ request[r] = Idle
  /\ IsPublic(p)
  /\ request' = [request EXCEPT ![r] =
       [pc |-> "react", post |-> p, visitor |-> v, count |-> 0,
        new |-> IF rows[p][v] = type THEN None ELSE type]]
  /\ hurried' = IF \E s \in Requests : request[s].pc \in {"react", "mirror"} /\ request[s].post = p
                THEN hurried \cup {p} ELSE hurried
  /\ UNCHANGED <<posts, rows, refused>>

(* The row is written, which others see once it is committed, and the rows *)
(* are counted.  The visitor's other request waits for the row; a row that *)
(* is gone cannot be deleted, and the transaction fails.                   *)
WriteReaction(r) ==
  LET q == request[r]
      others == {v \in Visitors \ {q.visitor} : rows[q.post][v] # None}
  IN
  /\ q.pc = "react"
  /\ \A s \in Requests :
       request[s].pc = "mirror" => request[s].post # q.post \/ request[s].visitor # q.visitor
  /\ IF q.new = None /\ rows[q.post][q.visitor] = None
     THEN Done(r)
     ELSE request' = [request EXCEPT ![r].pc = "mirror",
            ![r].count = Cardinality(others) + IF q.new = None THEN 0 ELSE 1]
  /\ UNCHANGED <<posts, rows, hurried, refused>>

(* Mutant of EndReaction: the count is of reactions that were made. *)
EndReactionOnly(r) ==
  LET q == request[r] IN
  /\ q.pc = "mirror"
  /\ rows' = [rows EXCEPT ![q.post][q.visitor] = q.new]
  /\ posts' = IF q.new = None THEN posts ELSE [posts EXCEPT ![q.post].count = q.count]
  /\ Done(r)
  /\ UNCHANGED <<hurried, refused>>

(* The mirror is written and the transaction commits. *)
EndReaction(r) ==
  LET q == request[r] IN
  /\ q.pc = "mirror"
  /\ rows' = [rows EXCEPT ![q.post][q.visitor] = q.new]
  /\ posts' = [posts EXCEPT ![q.post].count = q.count]
  /\ Done(r)
  /\ UNCHANGED <<hurried, refused>>

(* The process dies, and what is not committed with it. *)
Crash(r) ==
  /\ request[r] # Idle
  /\ Done(r)
  /\ UNCHANGED <<posts, rows, hurried, refused>>

-----------------------------------------------------------------------------

Init ==
  /\ posts = [p \in Posts |-> None]
  /\ rows = [p \in Posts |-> [v \in Visitors |-> None]]
  /\ request = [r \in Requests |-> Idle]
  /\ hurried = {}
  /\ refused = FALSE

Next ==
  \/ \E p \in Posts :
       \/ \E status \in {"PUBLISHED", "ARCHIVED"} : SetStatus(p, status)
       \/ DeletePost(p)
  \/ \E r \in Requests :
       \/ BeginPost(r)
       \/ \E p \in Posts : InsertPost(r, p)
       \/ \E p \in Posts, v \in Visitors, type \in Reactions : BeginReaction(r, p, v, type)
       \/ WriteReaction(r)
       \/ EndReaction(r)
       \/ Crash(r)

Spec == Init /\ [][Next]_vars

-----------------------------------------------------------------------------
(* Properties. *)

(* What the tables hold. *)
TypeOK ==
  /\ posts \in [Posts -> PostRow \cup {None}]
  /\ rows \in [Posts -> [Visitors -> Reactions \cup {None}]]
  /\ request \in [Requests -> Work]
  /\ hurried \subseteq Posts
  /\ refused \in BOOLEAN

(* The count that a post shows mirrors its reactions, unless reactions to   *)
(* it overlapped: then each may have missed the other.                     *)
CountMirrorsRows ==
  \A p \in Posts \ hurried : posts[p] # None =>
    posts[p].count = Cardinality({v \in Visitors : rows[p][v] # None})

(* The slug that is looked for and found free is free: a post is refused   *)
(* for its slug only when another came between.                            *)
FreeSlugIsFree == ~refused
=============================================================================
