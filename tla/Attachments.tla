---------------------------- MODULE Attachments ----------------------------
(***************************************************************************)
(* The images of posts: apps/api/src/modules/attachments and what the      *)
(* content module does with them.  An image is an object in the storage    *)
(* and a row, stored and removed one after the other, while requests       *)
(* overlap, either may fail and the process may die.                       *)
(***************************************************************************)
EXTENDS Naturals, FiniteSets

CONSTANTS
  Posts,
  Images,     (* attachments; each has an object of its own in the storage *)
  Requests,   (* requests that are handled at the same time *)
  MaxFaults,  (* bound on crashes and failures of the storage or the database *)
  None        (* null *)

VARIABLES
  existing,   (* posts that are not deleted *)
  images,     (* attachments of posts: post, role and status *)
  files,      (* objects in the storage *)
  request,
  faults,
  crowded,    (* history: posts whose cover was uploaded by two at a time *)
  leaked,     (* history: images of which a crash, a failing write or a failing *)
              (* delete left a file behind, perhaps a part of it                *)
  bare        (* history: posts whose cover was removed, or whose last upload   *)
              (* of a cover ended without one                                   *)

vars == <<existing, images, files, request, faults, crowded, leaked, bare>>

Idle == [pc |-> "idle"]
Done(r) == request' = [request EXCEPT ![r] = Idle]
Goto(r, pc) == request' = [request EXCEPT ![r].pc = pc]

(* A row of attachments, and what a request is at. *)
ImageRow == [post : Posts, role : {"cover", "gallery"}, status : {"UPLOADED", "DELETED"}]
Removals ==
  [pc : {"delete", "unlink"}, post : {None}, image : {None}, role : {None}, old : Images]
Uploading ==
  [pc : {"delete", "unlink", "put", "row", "clean"}, post : Posts, image : Images,
   role : {"cover", "gallery"}, old : Images \cup {None}]

IsLive(i) == images[i] # None /\ images[i].status = "UPLOADED"
Cover(p) == {i \in Images : IsLive(i) /\ images[i].post = p /\ images[i].role = "cover"}
Uploads(r) == request[r].pc \in {"delete", "unlink", "put", "row", "clean"}

-----------------------------------------------------------------------------

(* The cover that an upload replaces. *)
Replaced(p, role) == IF role = "cover" THEN Cover(p) ELSE {}

(* uploadCoverImage and addGalleryImage, up to listOwnerImages.  The upload *)
(* is of a new image i, after the cover was deleted that was found.        *)
BeginUpload(r, p, i, role) ==
  /\ request[r] = Idle
  /\ p \in existing
  /\ images[i] = None
  /\ i \notin files
  /\ \A s \in Requests : Uploads(s) => request[s].image # i
  /\ \E old \in IF Replaced(p, role) = {} THEN {None} ELSE Replaced(p, role) :
       request' = [request EXCEPT ![r] =
         [pc |-> IF old = None THEN "put" ELSE "delete", post |-> p, image |-> i,
          role |-> role, old |-> old]]
  /\ crowded' = IF role = "cover" /\ \E s \in Requests :
                     /\ Uploads(s)
                     /\ request[s].post = p
                     /\ request[s].role = "cover"
                THEN crowded \cup {p} ELSE crowded
  /\ UNCHANGED <<existing, images, files, faults, leaked, bare>>

(* removeImage, of an image of the RT *)
BeginRemove(r, i) ==
  /\ request[r] = Idle
  /\ images[i] # None
  /\ request' = [request EXCEPT ![r] =
       [pc |-> "delete", post |-> None, image |-> None, role |-> None, old |-> i]]
  /\ UNCHANGED <<existing, images, files, faults, crowded, leaked, bare>>

(* softDeleteImage: a row that is deleted already is not found. *)
SoftDelete(r) ==
  LET i == request[r].old IN
  /\ request[r].pc = "delete"
  /\ IF IsLive(i)
     THEN images' = [images EXCEPT ![i].status = "DELETED"] /\ Goto(r, "unlink")
     ELSE Done(r) /\ UNCHANGED images
  /\ bare' = IF IsLive(i) /\ request[r].image = None /\ images[i].role = "cover"
             THEN bare \cup {images[i].post} ELSE bare
  /\ UNCHANGED <<existing, files, faults, crowded, leaked>>

(* The storage's delete, whose failure is ignored *)
DeleteFile(i) ==
  \/ files' = files \ {i} /\ UNCHANGED <<faults, leaked>>
  \/ faults < MaxFaults /\ faults' = faults + 1 /\ leaked' = leaked \cup {i} /\ UNCHANGED files

Unlink(r) ==
  /\ request[r].pc = "unlink"
  /\ DeleteFile(request[r].old)
  /\ IF request[r].image = None THEN Done(r) ELSE Goto(r, "put")
  /\ UNCHANGED <<existing, images, crowded, bare>>

(* The post of a cover that is not stored is left without one, since the    *)
(* cover it had was deleted first.                                          *)
Uncovered(r) ==
  IF request[r].pc = "delete" THEN bare
  ELSE bare \cup {p \in Posts : request[r].post = p /\ request[r].role = "cover"}

(* validateImageUpload refuses what is no image, or too large a one. *)
RefuseImage(r) ==
  /\ request[r].pc = "put"
  /\ Done(r)
  /\ bare' = Uncovered(r)
  /\ UNCHANGED <<existing, images, files, faults, crowded, leaked>>

(* What is there of a file whose writing stopped: nothing, or a part. *)
PartlyWritten(i) ==
  \/ UNCHANGED <<files, leaked>>
  \/ files' = files \cup {i} /\ leaked' = leaked \cup {i}

(* uploadImage: storage.put writes the file in place, outside of the try    *)
(* whose handler removes it.                                                *)
Put(r) ==
  LET i == request[r].image IN
  /\ request[r].pc = "put"
  /\ \/ /\ files' = files \cup {i}
        /\ Goto(r, "row")
        /\ UNCHANGED <<faults, leaked, bare>>
     \/ /\ faults < MaxFaults /\ faults' = faults + 1
        /\ PartlyWritten(i)
        /\ bare' = Uncovered(r)
        /\ Done(r)
  /\ UNCHANGED <<existing, images, crowded>>

(* Mutant of Failed: the error is passed on and the file forgotten. *)
FailedAsIs(r) == Done(r)

(* The row cannot be stored: the file is removed. *)
Failed(r) == Goto(r, "clean")

(* createImage *)
InsertImage(r) ==
  LET q == request[r] IN
  /\ q.pc = "row"
  /\ \/ /\ images' = [images EXCEPT ![q.image] =
             [post |-> q.post, role |-> q.role, status |-> "UPLOADED"]]
        /\ bare' = IF q.role = "cover" THEN bare \ {q.post} ELSE bare
        /\ Done(r)
        /\ UNCHANGED faults
     \/ /\ faults < MaxFaults /\ faults' = faults + 1
        /\ bare' = Uncovered(r)
        /\ Failed(r)
        /\ UNCHANGED images
  /\ UNCHANGED <<existing, files, crowded, leaked>>

Clean(r) ==
  /\ request[r].pc = "clean"
  /\ DeleteFile(request[r].image)
  /\ Done(r)
  /\ UNCHANGED <<existing, images, crowded, bare>>

(* The process dies; or the read fails that softDeleteImage ends with. *)
Crash(r) ==
  /\ request[r] # Idle
  /\ faults < MaxFaults
  /\ faults' = faults + 1
  /\ \/ request[r].pc = "put" /\ PartlyWritten(request[r].image)
     \/ /\ request[r].pc # "put"
        /\ leaked' = leaked \cup {i \in Images :
             \/ request[r].pc \in {"row", "clean"} /\ i = request[r].image
             \/ request[r].pc = "unlink" /\ i = request[r].old}
        /\ UNCHANGED files
  /\ bare' = Uncovered(r)
  /\ Done(r)
  /\ UNCHANGED <<existing, images, crowded>>

(* deletePost leaves the images as they are. *)
DeletePost(p) ==
  /\ existing' = existing \ {p}
  /\ UNCHANGED <<images, files, request, faults, crowded, leaked, bare>>

-----------------------------------------------------------------------------

Init ==
  /\ existing = Posts
  /\ images = [i \in Images |-> None]
  /\ files = {}
  /\ request = [r \in Requests |-> Idle]
  /\ faults = 0
  /\ crowded = {}
  /\ leaked = {}
  /\ bare = {}

Next ==
  \/ \E r \in Requests :
       \/ \E p \in Posts, i \in Images, role \in {"cover", "gallery"} : BeginUpload(r, p, i, role)
       \/ \E i \in Images : BeginRemove(r, i)
       \/ SoftDelete(r)
       \/ Unlink(r)
       \/ RefuseImage(r)
       \/ Put(r)
       \/ InsertImage(r)
       \/ Clean(r)
       \/ Crash(r)
  \/ \E p \in Posts : DeletePost(p)

Spec == Init /\ [][Next]_vars

-----------------------------------------------------------------------------
(* Properties. *)

(* What the rows, and a request that works on an image, hold. *)
TypeOK ==
  /\ existing \subseteq Posts
  /\ images \in [Images -> ImageRow \cup {None}]
  /\ files \subseteq Images
  /\ request \in [Requests -> {Idle} \cup Removals \cup Uploading]
  /\ \A r \in Requests : request[r].pc \in {"delete", "unlink"} => request[r].old \in Images
  /\ faults \in 0 .. MaxFaults
  /\ crowded \subseteq Posts
  /\ leaked \subseteq Images
  /\ bare \subseteq Posts

(* A post that had a cover, and one whose next cover is being stored *)
HadCover(p) ==
  \E i \in Images : images[i] # None /\ images[i].post = p /\ images[i].role = "cover"
Replacing(p) ==
  \E r \in Requests : /\ request[r].pc \in {"unlink", "put", "row"}
                      /\ request[r].post = p
                      /\ request[r].role = "cover"

(* Whatever fails between file and row, an image that is shown has a whole   *)
(* file, which is there before the row and is removed after it; a file that  *)
(* no image needs is being dealt with by a request, also when the row could  *)
(* not be stored (only a crash, a failing write or a failing delete leaves   *)
(* one).  A post is without the cover it had only while the next is being    *)
(* stored, or when it was removed or the last upload of a cover ended        *)
(* without one; and unless two uploads of covers overlapped it has one.      *)
ImagesAndFiles ==
  /\ \A i \in Images : IsLive(i) => i \in files \ leaked
  /\ \A i \in files \ leaked : ~IsLive(i) =>
       \E r \in Requests :
         \/ request[r].pc \in {"row", "clean"} /\ request[r].image = i
         \/ request[r].pc = "unlink" /\ request[r].old = i
  /\ \A p \in Posts : HadCover(p) /\ p \notin bare => Cover(p) # {} \/ Replacing(p)
  /\ \A p \in Posts \ crowded : Cardinality(Cover(p)) <= 1
=============================================================================
