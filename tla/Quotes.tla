-------------------------------- MODULE Quotes --------------------------------
(***************************************************************************)
(* The quotes of a tenant and the images attached to their IT Support      *)
(* services, from quotes-coordinator.service.ts, quotes.service.ts and the *)
(* two attachment services. The images are in Cloudinary; a quote refers   *)
(* to them in the array attachments of a service.                          *)
(*                                                                         *)
(* services is an array of Mixed: Mongoose does not notice a push or a     *)
(* splice within one of its elements, and the save that follows stores     *)
(* nothing. What a route adds or removes later never reaches the quote.    *)
(***************************************************************************)
EXTENDS Naturals, FiniteSets

CONSTANTS
    QuoteIds,         \* ids of quotes
    Images,           \* the ids that Cloudinary hands out, each once
    Callers,          \* requests in flight
    None,             \* no quote, no image
    MaxAttachments,   \* images in an IT Support service
    MaxServices       \* bound on the IT Support services of a quote: at most two

VARIABLES
    quotes,      \* the documents
    cloud,       \* the images in Cloudinary
    calls,       \* what every request is doing
    tasks,       \* what was started and is not awaited
    uploaded,    \* the images ever uploaded
    stray,       \* images of requests that failed or stored nothing
    removed,     \* images somebody asked to delete
    cancelling,  \* quotes that somebody asked to cancel
    failed       \* has something failed?

state == <<quotes, cloud, calls, tasks, uploaded, stray, removed, cancelling, failed>>

\* A quote: the images of its first IT Support service, which is the only one
\* that the attachment services look at, and of its second.
Unused == [status |-> "unused", isDeleted |-> FALSE, services |-> 0, first |-> {}, second |-> {}]
Quote  == [status : {"unused", "Requested", "Cancelled"}, isDeleted : BOOLEAN,
           services : 0 .. MaxServices, first : SUBSET Images, second : SUBSET Images]

Idle == [at |-> "idle", quote |-> None, image |-> None, services |-> 0, files |-> 0, first |-> {}, second |-> {}]
Call == [at : {"idle", "upload", "save", "attach", "push", "destroy", "cancel"},
         quote : QuoteIds \cup {None}, image : Images \cup {None}, services : 0 .. MaxServices,
         files : 0 .. MaxAttachments + 1, first : SUBSET Images, second : SUBSET Images]

Task == [kind : {"look", "clean"}, quote : QuoteIds, left : SUBSET Images]

Stored == {q \in QuoteIds : quotes[q].status # "unused"}

\* An id that was not handed out yet; which one makes no difference.
Fresh    == Images \ uploaded
NewImage == CHOOSE i \in Fresh : TRUE
NewQuote == CHOOSE q \in QuoteIds \ Stored : TRUE
Refs(q) == quotes[q].first \cup quotes[q].second

InHand(r) == (calls[r].first \cup calls[r].second \cup {calls[r].image}) \ {None}

Do(r, c)  == calls' = [calls EXCEPT ![r] = c]
Finish(r) == Do(r, Idle)
Starting(r) == calls[r] = Idle

Init ==
    /\ quotes = [q \in QuoteIds |-> Unused]
    /\ cloud = {} /\ uploaded = {} /\ stray = {} /\ removed = {} /\ cancelling = {}
    /\ calls = [r \in Callers |-> Idle] /\ tasks = {} /\ failed = FALSE

-----------------------------------------------------------------------------
\* createQuoteWithCoordination.

Accepted(files, services)        == services > 0 => files <= MaxAttachments

\* processAttachmentsForServices looks at the number of files only for a quote
\* with an IT Support service; every file is uploaded for every such service.
Create(r) ==
    /\ Starting(r)
    /\ \E services \in 0 .. MaxServices, files \in 0 .. MaxAttachments + 1 :
          /\ Accepted(files, services)
          /\ Do(r, IF services = 0 \/ files = 0
                   THEN [Idle EXCEPT !.at = "save", !.services = services]
                   ELSE [Idle EXCEPT !.at = "upload", !.services = services, !.files = files])
    /\ UNCHANGED <<quotes, cloud, tasks, uploaded, stray, removed, cancelling, failed>>

Upload(r) ==
    /\ calls[r].at = "upload" /\ Fresh # {}
    /\ LET i    == NewImage
           c    == calls[r]
           more == IF Cardinality(c.first) < c.files THEN [c EXCEPT !.first = @ \cup {i}]
                   ELSE [c EXCEPT !.second = @ \cup {i}]
           all  == Cardinality(more.first) + Cardinality(more.second) = c.files * c.services
       IN  /\ cloud' = cloud \cup {i} /\ uploaded' = uploaded \cup {i}
           /\ Do(r, IF all THEN [more EXCEPT !.at = "save", !.files = 0] ELSE more)
    /\ UNCHANGED <<quotes, tasks, stray, removed, cancelling, failed>>

\* The quote gets its number and is stored. Slack and the history are told later.
Save(r) ==
    /\ calls[r].at = "save" /\ Stored # QuoteIds
    /\ LET q == NewQuote IN
          /\ quotes' = [quotes EXCEPT ![q] =
                [status |-> "Requested", isDeleted |-> FALSE, services |-> calls[r].services,
                 first |-> calls[r].first, second |-> calls[r].second]]
    /\ Finish(r)
    /\ UNCHANGED <<cloud, tasks, uploaded, stray, removed, cancelling, failed>>

-----------------------------------------------------------------------------
\* The routes for single images.

AttachUpload(r) ==
    /\ Starting(r) /\ Fresh # {}
    /\ \E q \in Stored : LET i == NewImage IN
          /\ cloud' = cloud \cup {i} /\ uploaded' = uploaded \cup {i}
          /\ Do(r, [Idle EXCEPT !.at = "push", !.quote = q, !.image = i])
    /\ UNCHANGED <<quotes, tasks, stray, removed, cancelling, failed>>

\* addAttachment finds the service, may refuse a fifth image, pushes and saves.
Pushed(quote, i) == quote

Push(r) ==
    /\ calls[r].at = "push"
    /\ quotes' = [quotes EXCEPT ![calls[r].quote] = Pushed(@, calls[r].image)]
    /\ stray' = stray \cup {calls[r].image}
    /\ Finish(r)
    /\ UNCHANGED <<cloud, tasks, uploaded, removed, cancelling, failed>>

\* removeAttachment finds the image in the first service, and stores nothing.
Remove(r) ==
    /\ Starting(r)
    /\ \E q \in Stored : \E i \in quotes[q].first :
          /\ Do(r, [Idle EXCEPT !.at = "destroy", !.quote = q, !.image = i])
          /\ removed' = removed \cup {i}
    /\ UNCHANGED <<quotes, cloud, tasks, uploaded, stray, cancelling, failed>>

Destroy(r) ==
    /\ calls[r].at = "destroy"
    /\ cloud' = cloud \ {calls[r].image}
    /\ Finish(r)
    /\ UNCHANGED <<quotes, tasks, uploaded, stray, removed, cancelling, failed>>

-----------------------------------------------------------------------------
\* cancelQuoteWithCoordination: the images are cleaned up on the side, from before
\* the status is written. A quote can be cancelled again.
Cancel(r) ==
    /\ Starting(r)
    /\ \E q \in Stored :
          /\ ~quotes[q].isDeleted
          /\ Do(r, [Idle EXCEPT !.at = "cancel", !.quote = q])
          /\ tasks' = tasks \cup {[kind |-> "look", quote |-> q, left |-> {}]}
          /\ cancelling' = cancelling \cup {q}
    /\ UNCHANGED <<quotes, cloud, uploaded, stray, removed, failed>>

CancelWrite(r) ==
    /\ calls[r].at = "cancel"
    /\ quotes' = [quotes EXCEPT ![calls[r].quote].status = "Cancelled"]
    /\ Finish(r)
    /\ UNCHANGED <<cloud, tasks, uploaded, stray, removed, cancelling, failed>>

\* The route that updates a quote may mark it as deleted; its images stay.
Update(q) ==
    /\ quotes[q].status # "unused" /\ ~quotes[q].isDeleted
    /\ quotes' = [quotes EXCEPT ![q].isDeleted = TRUE]
    /\ UNCHANGED <<cloud, calls, tasks, uploaded, stray, removed, cancelling, failed>>

-----------------------------------------------------------------------------
\* What nobody waits for.

\* Mutant: the images of every quote.
ToCleanAll(q) == UNION {quotes[p].first : p \in QuoteIds}

\* Mutant: nothing is cleaned up once the status is written.
ToCleanUnlessCancelled(q) == IF quotes[q].status = "Cancelled" THEN {} ELSE quotes[q].first

\* getAttachments.
ToClean(q) == quotes[q].first

CleanLook(q) ==
    /\ \E t \in tasks :
          /\ t.kind = "look" /\ t.quote = q
          /\ tasks' = (tasks \ {t}) \cup
                (IF ToClean(t.quote) = {} THEN {} ELSE {[t EXCEPT !.kind = "clean", !.left = ToClean(t.quote)]})
    /\ UNCHANGED <<quotes, cloud, calls, uploaded, stray, removed, cancelling, failed>>

Left(t, i) == t.left \ {i}

\* One image after the other; whatever one of them does, the next is tried.
Rest(t, i) == (tasks \ {t}) \cup (IF Left(t, i) = {} THEN {} ELSE {[t EXCEPT !.left = Left(t, i)]})

CleanOne(i) ==
    /\ \E t \in tasks :
          /\ i \in t.left
          /\ cloud' = cloud \ {i}
          /\ tasks' = Rest(t, i)
    /\ UNCHANGED <<quotes, calls, uploaded, stray, removed, cancelling, failed>>

-----------------------------------------------------------------------------
\* Failures. Bound: one of them.

Fail ==
    /\ ~failed /\ failed' = TRUE
    /\ \/ \E r \in Callers :       \* a call to Cloudinary or to the database
             /\ ~Starting(r)
             /\ stray' = stray \cup (InHand(r) \ removed)
             /\ Finish(r)
             /\ UNCHANGED tasks
       \/ \E t \in tasks :         \* the same, in what nobody waits for
             /\ tasks' \in {tasks \ {t}} \cup {Rest(t, i) : i \in t.left}
             /\ UNCHANGED <<stray, calls>>
       \/ /\ calls' = [r \in Callers |-> Idle] /\ tasks' = {}     \* the process dies
          /\ stray' = stray \cup ((UNION {InHand(r) : r \in Callers}) \ removed)
    /\ UNCHANGED <<quotes, cloud, uploaded, removed, cancelling>>

Continue ==
    \/ \E r \in Callers : Save(r) \/ Push(r) \/ Destroy(r) \/ CancelWrite(r)
    \/ \E q \in QuoteIds : CleanLook(q)
    \/ \E i \in Images : CleanOne(i)

Next ==
    \/ Continue \/ Fail
    \/ \E r \in Callers : Create(r) \/ Upload(r) \/ AttachUpload(r) \/ Remove(r) \/ Cancel(r)
    \/ \E q \in QuoteIds : Update(q)

\* The event loop goes on with whatever was started.
Fairness ==
    /\ \A q \in QuoteIds : WF_state(CleanLook(q))
    /\ \A i \in Images : WF_state(CleanOne(i))

-----------------------------------------------------------------------------
\* Properties.

\* Every variable keeps its shape.
TypeOK ==
    /\ quotes \in [QuoteIds -> Quote]
    /\ calls \in [Callers -> Call]
    /\ tasks \subseteq Task
    /\ \A S \in {cloud, uploaded, stray, removed} : S \subseteq Images
    /\ cancelling \subseteq QuoteIds /\ failed \in BOOLEAN

\* No service refers to more images than it may have.
FewAttachments ==
    \A q \in QuoteIds :
        Cardinality(quotes[q].first) <= MaxAttachments /\ Cardinality(quotes[q].second) <= MaxAttachments

\* A quote nobody asked to cancel refers to images that exist, unless somebody
\* asked to delete one, whatever happens to other quotes; and the images of a
\* second IT Support service stay even then.
ImagesStay ==
    \A q \in Stored :
        /\ q \notin cancelling => quotes[q].first \ removed \subseteq cloud
        /\ quotes[q].second \subseteq cloud

\* Every image belongs to one quote, or to one request that is under way, or was
\* left behind by a request that failed or that stored nothing.
ImagesAccounted ==
    /\ cloud \subseteq (UNION {Refs(q) : q \in QuoteIds}) \cup (UNION {InHand(r) : r \in Callers}) \cup stray
    /\ \A p, q \in QuoteIds : Refs(p) \cap Refs(q) # {} => p = q
    /\ \A q \in QuoteIds : quotes[q].first \cap quotes[q].second = {}
    /\ stray \cap UNION {Refs(q) : q \in QuoteIds} = {}

\* The images of the first service of a cancelled quote are deleted in the end,
\* unless something fails.
CancelledIsClean ==
    \A q \in QuoteIds :
        quotes[q].status = "Cancelled" ~> (quotes[q].first \cap cloud = {} \/ failed)

\* Quotes and the images in the cloud fit together.
ImagesFit == TypeOK /\ FewAttachments /\ ImagesStay /\ ImagesAccounted

=============================================================================
