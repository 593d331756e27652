---------------------------- MODULE ArchiveStore ----------------------------
(***************************************************************************)
(* The archive repository of src/archivex/storage.py while the services    *)
(* run: content posts with their references, repost events, observations,  *)
(* media rows, the raw JSON files beside the rows and the downloaded media *)
(* files.                                                                  *)
(*                                                                         *)
(* ingest_item is one SQLite write transaction (BEGIN IMMEDIATE), so there *)
(* is at most one at a time; tx holds its uncommitted tables.  The raw     *)
(* files it replaces are on disk at once, whatever becomes of the          *)
(* transaction.  A download (media.py, download_media_task, the inline     *)
(* loop of sync.py) reads a row, fetches, installs a file and writes the   *)
(* row, each a step of its own, and several downloads may run at a time.   *)
(***************************************************************************)
EXTENDS Naturals, Sequences

CONSTANTS
  Tweets,      \* tweet ids
  Users,       \* X users that are known by id
  Unknown,     \* UNKNOWN_USER_ID
  None,        \* no row, no reference, no transaction, no repost event
  Media,       \* media files (a source URL of its post)
  Owner,       \* [Media -> Tweets]
  Items,       \* what the source can return
  Downloads    \* executions that download media

VARIABLES
  post,        \* [Tweets -> row of posts, or None]
  repost,      \* [Tweets -> row of reposts, or None]
  observed,    \* tweets with an observation
  media,       \* [Media -> row of media, or None]
  postRaw,     \* [Tweets -> quality of the payload in posts/<id>/post.json]
  repostRaw,   \* the same of reposts/<id>/repost.json
  file,        \* media whose file is in place
  tx,          \* the open transaction of ingest_item, or None
  download     \* [Downloads -> what the execution is doing]

tables == <<post, repost, observed, media>>
files == <<postRaw, repostRaw>>
vars == <<tables, files, file, tx, download>>

(***************************************************************************)
(* Availability, worst to best.  parse_post gives a placeholder (a         *)
(* referenced id without payload) Missing, a reply or quote whose          *)
(* reference it cannot name Partial, anything else Available.  The rank 1  *)
(* of deleted posts is written by migrations only.                         *)
(***************************************************************************)
Missing == 0
Partial == 2
Available == 3
Quality == 0 .. 3
NoFile == 0     \* a payload is at least Partial

Authors == Users \cup {Unknown}

\* What an item says of one content post.
Capture == [id : Tweets, author : Authors, quality : Quality, media : SUBSET Media]
HasPayload(c) == c.quality >= Partial

(***************************************************************************)
(* An item is a chain of content posts, each referring to the one before   *)
(* it, and for a repost the event on top of the chain.                     *)
(***************************************************************************)
Event == [id : Tweets, author : Authors, quality : Quality]
Item == [posts : Seq(Capture), event : Event \cup {None}]

ItemId(item) == IF item.event # None THEN item.event.id ELSE item.posts[Len(item.posts)].id

ASSUME StoreAssumption ==
  /\ None \notin Tweets
  /\ None \notin Event
  /\ Unknown \notin Users
  /\ Owner \in [Media -> Tweets]
  /\ Items \subseteq Item
  /\ \A item \in Items :
       /\ item.posts # <<>>
       /\ item.event # None => item.event.quality >= Partial
       /\ \A i \in DOMAIN item.posts :
            /\ \A m \in item.posts[i].media : Owner[m] = item.posts[i].id
            /\ item.posts[i].quality = Missing => i = 1 /\ item.posts[i].media = {}
            /\ item.event = None /\ i = Len(item.posts) => item.posts[i].quality # Missing

PostRow == [author : Authors, quality : Quality, timeline : BOOLEAN,
            ref : Tweets \cup {None}, raw : BOOLEAN]
RepostRow == [origin : Tweets, author : Authors, quality : Quality]
MediaRow == [status : {"pending", "failed", "completed"}, path : BOOLEAN]

PostTable == [Tweets -> PostRow \cup {None}]
RepostTable == [Tweets -> RepostRow \cup {None}]
MediaTable == [Media -> MediaRow \cup {None}]

Transaction == [item : Items, next : Nat \ {0}, post : PostTable, repost : RepostTable,
                media : MediaTable]

ASSUME RowAssumption == None \notin PostRow \cup RepostRow \cup MediaRow \cup Transaction

Idle == [pc |-> "idle"]
Working == [pc : {"fetch", "install", "complete", "fail"}, media : Media, todo : SUBSET Media]

-----------------------------------------------------------------------------
Init ==
  /\ post = [t \in Tweets |-> None]
  /\ repost = [t \in Tweets |-> None]
  /\ observed = {}
  /\ media = [m \in Media |-> None]
  /\ postRaw = [t \in Tweets |-> NoFile]
  /\ repostRaw = [t \in Tweets |-> NoFile]
  /\ file = {}
  /\ tx = None
  /\ download = [d \in Downloads |-> Idle]

(***************************************************************************)
(* ingest_item.                                                            *)
(***************************************************************************)
Conflict(row, author) ==
  row # None /\ row.author \notin {Unknown, author} /\ author # Unknown

\* The nested function validate, over the whole item and before any write.
Valid(item) ==
  /\ \A i \in DOMAIN item.posts :
       LET c == item.posts[i] IN
       /\ repost[c.id] = None
       /\ ~Conflict(post[c.id], c.author)
       /\ \A j \in DOMAIN item.posts : item.posts[j].id = c.id => j = i
       /\ item.event # None => item.event.id # c.id
  /\ item.event # None =>
       LET e == item.event IN
       /\ post[e.id] = None
       /\ ~Conflict(repost[e.id], e.author)
       /\ repost[e.id] # None => repost[e.id].origin = item.posts[Len(item.posts)].id

\* Mutant: the item is counted from zero.
BeginAtZero(item) ==
  /\ tx = None
  /\ Valid(item)
  /\ tx' = [item |-> item, next |-> 0, post |-> post, repost |-> repost, media |-> media]
  /\ UNCHANGED <<tables, files, file, download>>

Begin(item) ==
  /\ tx = None
  /\ Valid(item)
  /\ tx' = [item |-> item, next |-> 1, post |-> post, repost |-> repost, media |-> media]
  /\ UNCHANGED <<tables, files, file, download>>

\* Mutant: only the direct reference is compared.
ReachesDirectly(table, t, to) == t = to

\* to is reached from t along references: the recursive query of _upsert_post,
\* as the least set that holds t and the references of its members.
Refs(table, T) == {table[t].ref : t \in {u \in T : table[u] # None}} \ {None}
Reaches(table, t, to) == \A T \in SUBSET Tweets : t \in T /\ Refs(table, T) \subseteq T => to \in T

Rank(quality, timeline) == 2 * quality + (IF timeline THEN 1 ELSE 0)
\* Mutant: only the timeline flag is compared.
WorseByTimelineOnly(row, c, timeline) == row # None /\ row.timeline /\ ~timeline
Worse(row, c, timeline) == row # None /\ Rank(c.quality, timeline) < Rank(row.quality, row.timeline)

\* The row INSERT ... ON CONFLICT DO UPDATE of _upsert_post leaves.
Upserted(row, c, ref, timeline) ==
  [author   |-> IF row # None /\ c.author = Unknown THEN row.author ELSE c.author,
   quality  |-> c.quality,
   timeline |-> timeline \/ (row # None /\ row.timeline),
   ref      |-> IF row # None /\ ref = None THEN row.ref ELSE ref,
   raw      |-> HasPayload(c) \/ (row # None /\ row.raw)]

\* _create_media: ON CONFLICT DO NOTHING.
Created(table, M) ==
  [m \in Media |-> IF m \in M /\ table[m] = None THEN [status |-> "pending", path |-> FALSE]
                                                 ELSE table[m]]

\* Mutant: a file that exists is kept.
WriteRawOnce(c) ==
  postRaw' = IF HasPayload(c) /\ postRaw[c.id] = NoFile THEN [postRaw EXCEPT ![c.id] = c.quality]
                                                      ELSE postRaw

\* _write_raw: the file is replaced before the row is written.
WriteRaw(c) ==
  postRaw' = IF HasPayload(c) THEN [postRaw EXCEPT ![c.id] = c.quality] ELSE postRaw

(***************************************************************************)
(* One call of content: _upsert_post, then the media rows.  A capture that *)
(* is worse than the row changes neither row nor file.  A step that is     *)
(* refused raises, and only Abort is left.                                 *)
(***************************************************************************)
Content ==
  /\ tx # None
  /\ tx.next \in DOMAIN tx.item.posts
  /\ LET c == tx.item.posts[tx.next]
         ref == IF tx.next = 1 THEN None ELSE tx.item.posts[tx.next - 1].id
         timeline == tx.item.event = None /\ tx.next = Len(tx.item.posts)
     IN
     /\ tx.repost[c.id] = None
     /\ ref # None => tx.post[ref] # None /\ ~Reaches(tx.post, ref, c.id)
     /\ ~Conflict(tx.post[c.id], c.author)
     /\ \/ /\ Worse(tx.post[c.id], c, timeline)
           /\ tx' = [tx EXCEPT !.next = @ + 1, !.media = Created(@, c.media)]
           /\ UNCHANGED postRaw
        \/ /\ ~Worse(tx.post[c.id], c, timeline)
           /\ tx' = [tx EXCEPT !.next = @ + 1, !.media = Created(@, c.media),
                               !.post[c.id] = Upserted(@, c, ref, timeline)]
           /\ WriteRaw(c)
  /\ UNCHANGED <<tables, repostRaw, file, download>>

\* _upsert_repost.  The availability is overwritten whatever it was.
RepostEvent ==
  /\ tx # None
  /\ tx.next = Len(tx.item.posts) + 1
  /\ tx.item.event # None
  /\ LET e == tx.item.event
         origin == tx.item.posts[Len(tx.item.posts)].id
         row == tx.repost[e.id]
     IN
     /\ tx.post[origin] # None
     /\ tx.post[e.id] = None
     /\ row # None => row.origin = origin /\ row.author = e.author
     /\ tx' = [tx EXCEPT !.next = @ + 1,
                 !.repost[e.id] = [origin |-> origin, author |-> e.author, quality |-> e.quality]]
     /\ repostRaw' = [repostRaw EXCEPT ![e.id] = e.quality]
  /\ UNCHANGED <<tables, postRaw, file, download>>

\* Mutant: the observation is left to a later call.
CommitUnobserved ==
  /\ tx # None
  /\ tx.next = Len(tx.item.posts) + (IF tx.item.event = None THEN 1 ELSE 2)
  /\ post' = tx.post
  /\ repost' = tx.repost
  /\ media' = tx.media
  /\ tx' = None
  /\ UNCHANGED <<observed, files, file, download>>

\* _observe and COMMIT.
Commit ==
  /\ tx # None
  /\ tx.next = Len(tx.item.posts) + (IF tx.item.event = None THEN 1 ELSE 2)
  /\ post' = tx.post
  /\ repost' = tx.repost
  /\ media' = tx.media
  /\ observed' = observed \cup {ItemId(tx.item)}
  /\ tx' = None
  /\ UNCHANGED <<files, file, download>>

\* An exception, or the process ends: the tables roll back, the files stay.
Abort ==
  /\ tx # None
  /\ tx' = None
  /\ UNCHANGED <<tables, files, file, download>>

(***************************************************************************)
(* Downloads.  A task reads one row and skips it if it is completed; the   *)
(* inline loop lists the rows of a post that are pending or failed, and    *)
(* then works on each without reading it again.                            *)
(***************************************************************************)
\* Mutant: the status is not looked at.
WantedAny(M) == {m \in M : media[m] # None}
Wanted(M) == {m \in M : media[m] # None /\ media[m].status # "completed"}

Take(d, M) == \E m \in M :
  download' = [download EXCEPT ![d] = [pc |-> "fetch", media |-> m, todo |-> M \ {m}]]

StartTask(d, m) ==
  /\ download[d] = Idle
  /\ m \in Wanted({m})
  /\ Take(d, {m})
  /\ UNCHANGED <<tables, files, file, tx>>

StartInline(d, t) ==
  /\ download[d] = Idle
  /\ Wanted({m \in Media : Owner[m] = t}) # {}
  /\ Take(d, Wanted({m \in Media : Owner[m] = t}))
  /\ UNCHANGED <<tables, files, file, tx>>

\* Mutant: the row is written before the file is put in its place.
FetchWithoutInstall(d) ==
  /\ download[d] # Idle /\ download[d].pc = "fetch"
  /\ \E pc \in {"complete", "fail"} : download' = [download EXCEPT ![d].pc = pc]
  /\ UNCHANGED <<tables, files, file, tx>>

\* gallery-dl downloads into a temporary directory, or it fails, times out,
\* or returns too much.
Fetch(d) ==
  /\ download[d] # Idle /\ download[d].pc = "fetch"
  /\ \E pc \in {"install", "fail"} : download' = [download EXCEPT ![d].pc = pc]
  /\ UNCHANGED <<tables, files, file, tx>>

\* staged_path.replace(local_path); a file with the same hash is left alone.
Install(d) ==
  /\ download[d] # Idle /\ download[d].pc = "install"
  /\ \/ /\ file' = file \cup {download[d].media}
        /\ download' = [download EXCEPT ![d].pc = "complete"]
     \/ /\ download' = [download EXCEPT ![d].pc = "fail"]
        /\ UNCHANGED file
  /\ UNCHANGED <<tables, files, tx>>

Finished(d) ==
  IF download[d].todo = {} THEN download' = [download EXCEPT ![d] = Idle]
                           ELSE Take(d, download[d].todo)

\* complete_media; its transaction may fail, which the caller turns into
\* fail_media.
Complete(d) ==
  /\ download[d] # Idle /\ download[d].pc = "complete"
  /\ \/ /\ tx = None
        /\ media' = [media EXCEPT ![download[d].media] = [status |-> "completed", path |-> TRUE]]
        /\ Finished(d)
     \/ /\ download' = [download EXCEPT ![d].pc = "fail"]
        /\ UNCHANGED media
  /\ UNCHANGED <<post, repost, observed, files, file, tx>>

\* fail_media has no condition on the status it replaces.
Fail(d) ==
  /\ download[d] # Idle /\ download[d].pc = "fail"
  /\ tx = None
  /\ media' = [media EXCEPT ![download[d].media].status = "failed"]
  /\ Finished(d)
  /\ UNCHANGED <<post, repost, observed, files, file, tx>>

\* The process of the download ends.
Crash(d) ==
  /\ download[d] # Idle
  /\ download' = [download EXCEPT ![d] = Idle]
  /\ UNCHANGED <<tables, files, file, tx>>

Next ==
  \/ \E item \in Items : Begin(item)
  \/ Content \/ RepostEvent \/ Commit \/ Abort
  \/ \E d \in Downloads :
       \/ \E m \in Media : StartTask(d, m)
       \/ \E t \in Tweets : StartInline(d, t)
       \/ Fetch(d) \/ Install(d) \/ Complete(d) \/ Fail(d) \/ Crash(d)

Spec == Init /\ [][Next]_vars

(***************************************************************************)
(* Properties.                                                             *)
(***************************************************************************)

\* Every table, file and execution is of its type, the uncommitted tables
\* included.
StoreTypeOK ==
  /\ post \in PostTable /\ repost \in RepostTable /\ media \in MediaTable
  /\ observed \in SUBSET Tweets
  /\ postRaw \in [Tweets -> Quality] /\ repostRaw \in [Tweets -> Quality]
  /\ file \in SUBSET Media
  /\ tx \in Transaction \cup {None}
  /\ download \in [Downloads -> {Idle} \cup Working]

\* The committed content is a graph a reader can walk: a reference leads to a
\* stored post and never back to where it came from, a repost has its origin,
\* no id is a post and a repost, and what was observed is stored.  Items come
\* in any order and describe the same posts differently.
GraphIsSound ==
  /\ \A t \in Tweets : post[t] # None /\ post[t].ref # None => post[post[t].ref] # None
  /\ \A T \in (SUBSET Tweets) \ {{}} : \E t \in T : post[t] = None \/ post[t].ref \notin T
  /\ \A t \in Tweets : repost[t] # None => post[t] = None /\ post[repost[t].origin] # None
  /\ \A t \in observed : post[t] # None \/ repost[t] # None
  /\ \A m \in Media : media[m] # None => post[Owner[m]] # None

\* A row that names a raw file finds one there, of a payload no worse than the
\* row says, although files are replaced before transactions commit and stay
\* when they roll back.
RawBacksRow ==
  \A t \in Tweets :
    /\ post[t] # None /\ post[t].raw => postRaw[t] >= Partial /\ postRaw[t] >= post[t].quality
    /\ post[t] # None /\ post[t].quality >= Partial => post[t].raw
    /\ repost[t] # None => repostRaw[t] # NoFile

\* What observations lead to, directly or along references:
\* media_ids_to_download walks just these, and a file outside of them is never
\* queued.
Reachable ==
  LET from == {t \in observed : post[t] # None}
              \cup {repost[t].origin : t \in {u \in observed : repost[u] # None}}
  IN {t \in Tweets : \A T \in SUBSET Tweets : from \subseteq T /\ Refs(post, T) \subseteq T => t \in T}

\* An item takes the way to a reference from its reader: it names another one
\* than the row and replaces it, or its capture is worse than the row and only
\* the rest of its chain is stored.
Misleads(item) ==
  \E i \in DOMAIN item.posts \ {1} :
    LET c == item.posts[i]
        row == post[c.id]
    IN /\ row # None /\ row.ref # item.posts[i - 1].id
       /\ row.ref # None \/ Worse(row, c, item.event = None /\ i = Len(item.posts))

\* Media are reachable when they are stored and stay so, in whatever order the
\* captures come and whatever they leave out, but for what a capture with
\* another reference than the stored one cuts off.
MediaStayReachable ==
  [][\A m \in Media : media'[m] # None /\ Owner[m] \notin Reachable' =>
       \/ media[m] # None /\ Owner[m] \notin Reachable
       \/ tx # None /\ Misleads(tx.item)]_vars

\* A row with a local path has its file, also when a later download of it
\* failed or an execution ended halfway.
FileBacksRow ==
  \A m \in Media : media[m] # None =>
    /\ media[m].path => m \in file
    /\ media[m].status = "completed" => media[m].path

\* No capture makes an archived post worse: availability and timeline rank do
\* not decrease, a known author and a raw file stay, a reference is not lost.
NeverDegrades ==
  [][\A t \in Tweets : post[t] # None =>
       /\ post'[t] # None
       /\ Rank(post'[t].quality, post'[t].timeline) >= Rank(post[t].quality, post[t].timeline)
       /\ post[t].timeline => post'[t].timeline
       /\ post[t].raw => post'[t].raw
       /\ post[t].author # Unknown => post'[t].author = post[t].author
       /\ post[t].ref # None => post'[t].ref # None]_vars

\* A slow duplicate can still turn a completed file into a failed one.  Once it
\* is completed and nobody works on it, it is never worked on nor changed again.
Settled(m) ==
  /\ media[m] # None /\ media[m].status = "completed"
  /\ \A d \in Downloads : download[d] # Idle => m # download[d].media /\ m \notin download[d].todo

CompletedIsFinal == [][\A m \in Media : Settled(m) => Settled(m)']_vars
=============================================================================
