------------------------- MODULE ArchiveStoreProofs -------------------------
(***************************************************************************)
(* ArchiveStore for any tweets, users, media and downloads, and whatever   *)
(* items the source returns.  The invariants say of the uncommitted tables *)
(* what the properties say of the committed ones, and how the two relate:  *)
(* a transaction only adds to what it found.                               *)
(***************************************************************************)
EXTENDS ArchiveStore, WellFoundedInduction, TLAPS

\* What a download works on has a row.
Busy ==
  \A d \in Downloads : download[d] # Idle =>
    \A m \in {download[d].media} \cup download[d].todo : media[m] # None

StoreInv == StoreTypeOK /\ Busy

-----------------------------------------------------------------------------
(***************************************************************************)
(* The parts of GraphIsSound and RawBacksRow, of any tables.               *)
(***************************************************************************)
Linked(P) == \A t \in Tweets : P[t] # None /\ P[t].ref # None => P[P[t].ref] # None
Acyclic(P) == \A T \in (SUBSET Tweets) \ {{}} : \E t \in T : P[t] = None \/ P[t].ref \notin T
Apart(P, R) == \A t \in Tweets : R[t] # None => P[t] = None /\ P[R[t].origin] # None
Owned(P, M) == \A m \in Media : M[m] # None => P[Owner[m]] # None
Sound(P, R, M) == Linked(P) /\ Acyclic(P) /\ Apart(P, R) /\ Owned(P, M)

PostBacked(P, raw) ==
  \A t \in Tweets : P[t] # None =>
    /\ P[t].raw => raw[t] >= Partial /\ raw[t] >= P[t].quality
    /\ P[t].quality >= Partial => P[t].raw
RepostBacked(R, raw) == \A t \in Tweets : R[t] # None => raw[t] # NoFile

\* A row that came after another one of the same post.
NoWorse(old, new) ==
  /\ new # None
  /\ Rank(new.quality, new.timeline) >= Rank(old.quality, old.timeline)
  /\ old.timeline => new.timeline
  /\ old.raw => new.raw
  /\ old.author # Unknown => new.author = old.author
  /\ old.ref # None => new.ref # None

Extends(P, Q) == \A t \in Tweets : P[t] # None => NoWorse(P[t], Q[t])

New == [status |-> "pending", path |-> FALSE]
MoreMedia(M, N) == \A m \in Media : N[m] = M[m] \/ (M[m] = None /\ N[m] = New)

\* What an open transaction has is a superset of the committed media rows.
MediaInv == StoreInv /\ (tx # None => MoreMedia(media, tx.media))

\* How far the transaction is: what it wrote is there.
Written ==
  /\ \A i \in DOMAIN tx.item.posts : i < tx.next => tx.post[tx.item.posts[i].id] # None
  /\ tx.next = Len(tx.item.posts) + 2 => tx.item.event # None /\ tx.repost[tx.item.event.id] # None

Transient ==
  /\ Sound(tx.post, tx.repost, tx.media)
  /\ PostBacked(tx.post, postRaw) /\ RepostBacked(tx.repost, repostRaw)
  /\ Extends(post, tx.post)
  /\ \A t \in Tweets : repost[t] # None => tx.repost[t] # None
  /\ Written

Observed == \A t \in observed : post[t] # None \/ repost[t] # None

\* The inductive invariant of GraphIsSound, RawBacksRow and NeverDegrades.
GraphInv ==
  /\ MediaInv
  /\ Sound(post, repost, media) /\ Observed
  /\ PostBacked(post, postRaw) /\ RepostBacked(repost, repostRaw)
  /\ tx # None => Transient

\* What is about to be completed is there.
FileInv ==
  /\ MediaInv /\ FileBacksRow
  /\ \A d \in Downloads :
       download[d] # Idle /\ download[d].pc = "complete" => download[d].media \in file

(***************************************************************************)
(* Reachability.                                                           *)
(***************************************************************************)
\* What the i-th capture of an item names.
RefAt(item, i) == IF i = 1 THEN None ELSE item.posts[i - 1].id

\* Where a reader of the tables gets from what was observed.
From(P, R, O) == {t \in O : P[t] # None} \cup {R[t].origin : t \in {u \in O : R[u] # None}}
ReachableIn(P, R, O) ==
  {t \in Tweets : \A T \in SUBSET Tweets : From(P, R, O) \subseteq T /\ Refs(P, T) \subseteq T => t \in T}

\* The chain of an item as far as it is stored: each post has the one before it
\* as its reference, the event has the last one as its origin.
Chain(item, next) == {item.posts[i].id : i \in {j \in DOMAIN item.posts : j < next}}
Chained(item, next, P, R) ==
  /\ \A i, j \in DOMAIN item.posts : item.posts[i].id = item.posts[j].id => i = j
  /\ \A i \in DOMAIN item.posts : 1 < i /\ i < next => P[item.posts[i].id].ref = item.posts[i - 1].id
  /\ next = Len(item.posts) + 2 => R[item.event.id].origin = item.posts[Len(item.posts)].id

\* What was reachable stays so, and the rest is in the chain.  What the rest of
\* the item is about is as it was.
Reaching ==
  /\ Chained(tx.item, tx.next, tx.post, tx.repost)
  /\ \A t \in Tweets : post[t] # None /\ post[t].ref # None => tx.post[t].ref = post[t].ref
  /\ \A t \in Tweets : repost[t] # None => tx.repost[t].origin = repost[t].origin
  /\ \A m \in Media : tx.media[m] # None => media[m] # None \/ Owner[m] \in Chain(tx.item, tx.next)
  /\ \A j \in DOMAIN tx.item.posts :
       j >= tx.next => tx.post[tx.item.posts[j].id] = post[tx.item.posts[j].id]

\* The inductive invariant of MediaStayReachable.
ReachInv ==
  /\ GraphInv
  /\ tx # None /\ ~Misleads(tx.item) => Reaching

-----------------------------------------------------------------------------
(***************************************************************************)
(* Typing.                                                                 *)
(***************************************************************************)
\* An item has a post, its captures are captures, its event is one.
LEMMA ItemFacts ==
  ASSUME NEW item \in Items
  PROVE  /\ item.posts \in Seq(Capture) /\ Len(item.posts) \in Nat \ {0}
         /\ DOMAIN item.posts = 1 .. Len(item.posts)
         /\ \A i \in DOMAIN item.posts :
              /\ item.posts[i] \in Capture
              /\ \A m \in item.posts[i].media : Owner[m] = item.posts[i].id
              /\ item.posts[i].quality = Missing => i = 1 /\ item.posts[i].media = {}
         /\ item.event # None => item.event \in Event /\ item.event.quality >= Partial
<1>1. item \in Item
  BY StoreAssumption
<1>2. item.posts \in Seq(Capture) /\ item.event \in Event \cup {None}
  BY <1>1 DEF Item
<1>3. item.posts # <<>>
  BY StoreAssumption
<1>4. QED
  BY <1>2, <1>3, StoreAssumption

\* The reference of a row that was written is a tweet or none.
LEMMA RefType ==
  ASSUME NEW item \in Items, NEW i \in DOMAIN item.posts
  PROVE  /\ RefAt(item, i) \in Tweets \cup {None}
         /\ i = 1 <=> RefAt(item, i) = None
         /\ i # 1 => i - 1 \in DOMAIN item.posts /\ RefAt(item, i) = item.posts[i - 1].id
<1>1. i \in Nat /\ (i # 1 => i - 1 \in DOMAIN item.posts)
  BY ItemFacts
<1>2. i # 1 => item.posts[i - 1].id \in Tweets
  BY <1>1, ItemFacts DEF Capture
<1>3. QED
  BY <1>1, <1>2, StoreAssumption DEF RefAt

\* What the upsert leaves is a row.
LEMMA UpsertedType ==
  ASSUME NEW row \in PostRow \cup {None}, NEW c \in Capture, NEW ref \in Tweets \cup {None},
         NEW timeline \in BOOLEAN
  PROVE  Upserted(row, c, ref, timeline) \in PostRow
<1>1. CASE row = None
  BY <1>1 DEF Upserted, PostRow, Capture, HasPayload
<1>2. CASE row \in PostRow
  BY <1>2 DEF Upserted, PostRow, Capture, HasPayload
<1>3. QED
  BY <1>1, <1>2

\* A post that is created has its type.
LEMMA CreatedType ==
  ASSUME NEW table \in MediaTable, NEW M
  PROVE  /\ Created(table, M) \in MediaTable
         /\ \A m \in Media : Created(table, M)[m] =
              IF m \in M /\ table[m] = None THEN New ELSE table[m]
         /\ MoreMedia(table, Created(table, M))
  BY DEF Created, MediaTable, MediaRow, New, MoreMedia

\* Rows are not None.
LEMMA RowsAreRows ==
  /\ \A x \in PostRow : x # None
  /\ \A x \in RepostRow : x # None
  /\ \A x \in MediaRow : x # None
  /\ \A x \in Transaction : x # None
BY RowAssumption

\* What one call of content does.
Stored(item, i, c, ref, timeline) ==
  /\ item = tx.item /\ i = tx.next /\ c = item.posts[i] /\ ref = RefAt(item, i)
  /\ timeline = (item.event = None /\ i = Len(item.posts))
  /\ tx.repost[c.id] = None
  /\ ref # None => tx.post[ref] # None /\ ~Reaches(tx.post, ref, c.id)
  /\ ~Conflict(tx.post[c.id], c.author)
  /\ tx' \in Transaction
  /\ tx'.item = item /\ tx'.next = i + 1 /\ tx'.repost = tx.repost
  /\ tx'.media = Created(tx.media, c.media)
  /\ \/ /\ Worse(tx.post[c.id], c, timeline)
        /\ tx'.post = tx.post /\ postRaw' = postRaw
     \/ /\ ~Worse(tx.post[c.id], c, timeline)
        /\ tx'.post = [tx.post EXCEPT ![c.id] = Upserted(tx.post[c.id], c, ref, timeline)]
        /\ postRaw' = IF HasPayload(c) THEN [postRaw EXCEPT ![c.id] = c.quality] ELSE postRaw

\* What a content step does to the open transaction and to the raw files.
LEMMA ContentEffect ==
  ASSUME StoreTypeOK, Content
  PROVE  \E item \in Items, i \in Nat \ {0}, c \in Capture, ref \in Tweets \cup {None},
            timeline \in BOOLEAN :
           i \in DOMAIN item.posts /\ Stored(item, i, c, ref, timeline)
<1> DEFINE item == tx.item
           i == tx.next
           c == item.posts[i]
           ref == RefAt(item, i)
           timeline == item.event = None /\ i = Len(item.posts)
<1>1. tx \in Transaction
  BY DEF StoreTypeOK, Content
<1>2. /\ item \in Items /\ i \in Nat \ {0} /\ tx.post \in PostTable
      /\ tx.repost \in RepostTable /\ tx.media \in MediaTable
  BY <1>1 DEF Transaction
<1>3. i \in DOMAIN item.posts
  BY DEF Content
<1>4. c \in Capture /\ ref \in Tweets \cup {None} /\ timeline \in BOOLEAN
  BY <1>2, <1>3, ItemFacts, RefType
<1>5. Created(tx.media, c.media) \in MediaTable
  BY <1>2, CreatedType
<1>6. Upserted(tx.post[c.id], c, ref, timeline) \in PostRow
  <2>1. tx.post[c.id] \in PostRow \cup {None}
    BY <1>2, <1>4 DEF PostTable, Capture
  <2>2. QED
    BY <2>1, <1>4, UpsertedType
<1>7. [tx.post EXCEPT ![c.id] = Upserted(tx.post[c.id], c, ref, timeline)] \in PostTable
  BY <1>2, <1>6 DEF PostTable
<1>8. /\ tx.repost[c.id] = None
      /\ ref # None => tx.post[ref] # None /\ ~Reaches(tx.post, ref, c.id)
      /\ ~Conflict(tx.post[c.id], c.author)
      /\ \/ /\ Worse(tx.post[c.id], c, timeline)
            /\ tx' = [tx EXCEPT !.next = @ + 1, !.media = Created(@, c.media)]
            /\ UNCHANGED postRaw
         \/ /\ ~Worse(tx.post[c.id], c, timeline)
            /\ tx' = [tx EXCEPT !.next = @ + 1, !.media = Created(@, c.media),
                                !.post[c.id] = Upserted(@, c, ref, timeline)]
            /\ WriteRaw(c)
  BY DEF Content, RefAt
<1>9. tx = [item |-> item, next |-> i, post |-> tx.post, repost |-> tx.repost, media |-> tx.media]
  BY <1>1 DEF Transaction
<1> DEFINE next(P) == [item |-> item, next |-> i + 1, post |-> P, repost |-> tx.repost,
                       media |-> Created(tx.media, c.media)]
           up == [tx.post EXCEPT ![c.id] = Upserted(tx.post[c.id], c, ref, timeline)]
<1>10. \A P \in PostTable : next(P) \in Transaction
  <2>1. i + 1 \in Nat \ {0}
    BY <1>2
  <2>2. QED
    BY <2>1, <1>2, <1>5 DEF Transaction
<1>11. CASE /\ Worse(tx.post[c.id], c, timeline)
            /\ tx' = [tx EXCEPT !.next = @ + 1, !.media = Created(@, c.media)]
            /\ UNCHANGED postRaw
  <2>1. tx' = next(tx.post)
    BY <1>9, <1>11
  <2>2. tx' \in Transaction
    BY <2>1, <1>10, <1>2
  <2>3. /\ tx'.item = item /\ tx'.next = i + 1 /\ tx'.repost = tx.repost
        /\ tx'.media = Created(tx.media, c.media) /\ tx'.post = tx.post
    BY <2>1
  <2>4. Stored(item, i, c, ref, timeline)
    BY <1>8, <1>11, <2>2, <2>3 DEF Stored
  <2>5. QED
    BY <1>2, <1>3, <1>4, <2>4
<1>12. CASE /\ ~Worse(tx.post[c.id], c, timeline)
            /\ tx' = [tx EXCEPT !.next = @ + 1, !.media = Created(@, c.media),
                                !.post[c.id] = Upserted(@, c, ref, timeline)]
            /\ WriteRaw(c)
  <2>1. tx' = next(up)
    BY <1>9, <1>12
  <2>2. tx' \in Transaction
    BY <2>1, <1>10, <1>7
  <2>3. /\ tx'.item = item /\ tx'.next = i + 1 /\ tx'.repost = tx.repost
        /\ tx'.media = Created(tx.media, c.media) /\ tx'.post = up
    BY <2>1
  <2>4. Stored(item, i, c, ref, timeline)
    BY <1>8, <1>12, <2>2, <2>3 DEF Stored, WriteRaw
  <2>5. QED
    BY <1>2, <1>3, <1>4, <2>4
<1>13. QED
  BY <1>8, <1>11, <1>12

\* What _upsert_repost does.
Reposting(item, e, origin) ==
  /\ item = tx.item /\ e = item.event /\ e \in Event /\ e.quality >= Partial
  /\ tx.next = Len(item.posts) + 1
  /\ origin = item.posts[Len(item.posts)].id
  /\ tx.post[origin] # None /\ tx.post[e.id] = None
  /\ tx.repost[e.id] # None => tx.repost[e.id].origin = origin
  /\ tx' \in Transaction
  /\ tx'.item = item /\ tx'.next = Len(item.posts) + 2
  /\ tx'.post = tx.post /\ tx'.media = tx.media
  /\ tx'.repost = [tx.repost EXCEPT ![e.id] =
                     [origin |-> origin, author |-> e.author, quality |-> e.quality]]
  /\ repostRaw' = [repostRaw EXCEPT ![e.id] = e.quality]

\* What the repost event of an item does.
LEMMA RepostEffect ==
  ASSUME StoreTypeOK, RepostEvent
  PROVE  \E item \in Items, e \in Event, origin \in Tweets : Reposting(item, e, origin)
<1> DEFINE item == tx.item
           e == item.event
           last == Len(item.posts)
           origin == item.posts[last].id
           row == [origin |-> origin, author |-> e.author, quality |-> e.quality]
           rows == [tx.repost EXCEPT ![e.id] = row]
           next == [item |-> item, next |-> last + 2, post |-> tx.post, repost |-> rows,
                    media |-> tx.media]
<1>1. tx \in Transaction
  BY DEF StoreTypeOK, RepostEvent
<1>2. /\ item \in Items /\ tx.post \in PostTable
      /\ tx.repost \in RepostTable /\ tx.media \in MediaTable
  BY <1>1 DEF Transaction
<1>3. e \in Event /\ e.quality >= Partial
  BY <1>2, ItemFacts DEF RepostEvent
<1>4. last \in Nat \ {0} /\ origin \in Tweets
  BY <1>2, ItemFacts DEF Capture
<1>5. row \in RepostRow
  BY <1>3, <1>4 DEF RepostRow, Event
<1>6. rows \in RepostTable
  BY <1>2, <1>5 DEF RepostTable
<1>7. next \in Transaction
  <2>1. last + 2 \in Nat \ {0}
    BY <1>4
  <2>2. QED
    BY <2>1, <1>2, <1>6 DEF Transaction
<1>8. /\ tx.next = last + 1
      /\ tx.post[origin] # None /\ tx.post[e.id] = None
      /\ tx.repost[e.id] # None => tx.repost[e.id].origin = origin
      /\ tx' = [tx EXCEPT !.next = @ + 1, !.repost[e.id] = row]
      /\ repostRaw' = [repostRaw EXCEPT ![e.id] = e.quality]
  BY DEF RepostEvent
<1>9. tx = [item |-> item, next |-> tx.next, post |-> tx.post, repost |-> tx.repost,
            media |-> tx.media]
  BY <1>1 DEF Transaction
<1>10. tx' = next
  <2>1. tx.next + 1 = last + 2
    BY <1>4, <1>8
  <2>2. QED
    BY <2>1, <1>8, <1>9
<1>11. /\ tx'.item = item /\ tx'.next = last + 2 /\ tx'.post = tx.post
       /\ tx'.media = tx.media /\ tx'.repost = rows
  BY <1>10
<1>12. Reposting(item, e, origin)
  BY <1>3, <1>7, <1>8, <1>10, <1>11 DEF Reposting
<1>13. QED
  BY <1>2, <1>3, <1>4, <1>12

\* What an execution works on next.
LEMMA TakeType ==
  ASSUME StoreInv, NEW d \in Downloads, NEW M \in SUBSET Media, Take(d, M),
         \A m \in M : media[m] # None
  PROVE  /\ download' \in [Downloads -> {Idle} \cup Working]
         /\ \A x \in Downloads : download'[x] # Idle =>
              \A m \in {download'[x].media} \cup download'[x].todo : media[m] # None
         /\ \A x \in Downloads \ {d} : download'[x] = download[x]
         /\ download'[d].pc = "fetch"
         /\ download'[d].media \in M /\ download'[d].todo \subseteq M
<1> PICK m \in M : download' = [download EXCEPT ![d] = [pc |-> "fetch", media |-> m, todo |-> M \ {m}]]
  BY DEF Take
<1> DEFINE w == [pc |-> "fetch", media |-> m, todo |-> M \ {m}]
<1>1. w \in Working
  BY DEF Working
<1>2. download \in [Downloads -> {Idle} \cup Working]
  BY DEF StoreInv, StoreTypeOK
<1>3. /\ download' = [download EXCEPT ![d] = w] /\ w.pc = "fetch"
      /\ w.media \in M /\ w.todo \subseteq M
  OBVIOUS
<1> HIDE DEF w
<1>4. QED
  BY <1>1, <1>2, <1>3 DEF StoreInv, Busy

\* Going on to another step leaves what is worked on.
LEMMA GotoType ==
  ASSUME StoreInv, NEW d \in Downloads, download[d] # Idle,
         NEW pc \in {"fetch", "install", "complete", "fail"},
         download' = [download EXCEPT ![d].pc = pc]
  PROVE  /\ download' \in [Downloads -> {Idle} \cup Working]
         /\ \A x \in Downloads : download'[x] # Idle =>
              /\ download[x] # Idle
              /\ download'[x].media = download[x].media /\ download'[x].todo = download[x].todo
         /\ \A x \in Downloads \ {d} : download'[x] = download[x]
         /\ download'[d].pc = pc
<1>1. download \in [Downloads -> {Idle} \cup Working] /\ download[d] \in Working
  BY DEF StoreInv, StoreTypeOK
<1> DEFINE w == [download[d] EXCEPT !.pc = pc]
<1>2. /\ w \in Working /\ w.media = download[d].media /\ w.todo = download[d].todo
      /\ w.pc = pc
  BY <1>1 DEF Working
<1>3. download' = [download EXCEPT ![d] = w]
  OBVIOUS
<1> HIDE DEF w
<1>4. QED
  BY <1>1, <1>2, <1>3

\* So does the end of the work on one file, of which another is next.
LEMMA FinishedType ==
  ASSUME StoreInv, NEW d \in Downloads, download[d] # Idle, Finished(d)
  PROVE  /\ download' \in [Downloads -> {Idle} \cup Working]
         /\ \A x \in Downloads : download'[x] # Idle =>
              /\ download[x] # Idle
              /\ download'[x].media \in {download[x].media} \cup download[x].todo
              /\ download'[x].todo \subseteq {download[x].media} \cup download[x].todo
         /\ \A x \in Downloads \ {d} : download'[x] = download[x]
         /\ download'[d] # Idle => download'[d].pc = "fetch"
<1>1. download \in [Downloads -> {Idle} \cup Working] /\ download[d] \in Working
  BY DEF StoreInv, StoreTypeOK
<1>2. CASE download' = [download EXCEPT ![d] = Idle]
  BY <1>1, <1>2
<1>3. CASE Take(d, download[d].todo)
  <2>1. download[d].todo \in SUBSET Media /\ \A m \in download[d].todo : media[m] # None
    BY <1>1 DEF Working, StoreInv, Busy
  <2>2. QED
    BY <1>3, <2>1, TakeType
<1>4. QED
  BY <1>2, <1>3 DEF Finished

\* A media row is only ever added or replaced.
LEMMA BusyKept ==
  ASSUME Busy, \A m \in Media : media[m] # None => media'[m] # None,
         download \in [Downloads -> {Idle} \cup Working],
         \A d \in Downloads : download'[d] # Idle =>
           /\ download[d] # Idle
           /\ download'[d].media \in {download[d].media} \cup download[d].todo
           /\ download'[d].todo \subseteq {download[d].media} \cup download[d].todo
  PROVE  Busy'
<1> SUFFICES ASSUME NEW d \in Downloads, download'[d] # Idle,
                    NEW m \in {download'[d].media} \cup download'[d].todo
             PROVE  media'[m] # None
  BY DEF Busy
<1>1. download[d] # Idle /\ m \in {download[d].media} \cup download[d].todo
  OBVIOUS
<1>2. m \in Media
  BY <1>1 DEF Working
<1>3. media[m] # None
  BY <1>1 DEF Busy
<1>4. QED
  BY <1>2, <1>3

\* What one step of a download does to the tables and the files.
DownloadStep(d) ==
  \/ \E m \in Media : StartTask(d, m)
  \/ \E t \in Tweets : StartInline(d, t)
  \/ Fetch(d) \/ Install(d) \/ Complete(d) \/ Fail(d) \/ Crash(d)

\* What each step of a download does to the media, the files and its position.
LEMMA DownloadEffect ==
  ASSUME StoreInv, NEW d \in Downloads, DownloadStep(d)
  PROVE  /\ UNCHANGED <<post, repost, observed, files, tx>>
         /\ media' = media \/ tx = None
         /\ media' \in MediaTable
         /\ \A m \in Media : media[m] # None <=> media'[m] # None
         /\ file \subseteq file' /\ file' \in SUBSET Media
         /\ download' \in [Downloads -> {Idle} \cup Working]
         /\ Busy'
<1> USE DEF StoreInv, files, tables
<1>0. /\ download \in [Downloads -> {Idle} \cup Working] /\ media \in MediaTable
      /\ file \in SUBSET Media
  BY DEF StoreTypeOK
<1>1. ASSUME NEW M \in SUBSET Media, \A m \in M : media[m] # None, Take(d, M), media' = media
      PROVE  download' \in [Downloads -> {Idle} \cup Working] /\ Busy'
  BY <1>1, TakeType DEF Busy
<1>2. ASSUME NEW m \in Media, StartTask(d, m)
      PROVE  download' \in [Downloads -> {Idle} \cup Working] /\ Busy'
  <2>1. media[m] # None
    BY <1>2 DEF StartTask, Wanted
  <2>2. QED
    BY <1>1, <1>2, <2>1 DEF StartTask
<1>3. ASSUME NEW t \in Tweets, StartInline(d, t)
      PROVE  download' \in [Downloads -> {Idle} \cup Working] /\ Busy'
  <2> DEFINE M == Wanted({m \in Media : Owner[m] = t})
  <2>1. M \in SUBSET Media /\ \A m \in M : media[m] # None
    BY DEF Wanted
  <2>2. Take(d, M) /\ media' = media
    BY <1>3 DEF StartInline
  <2> HIDE DEF M
  <2>3. QED
    BY <1>1, <2>1, <2>2
<1>4. ASSUME download[d] # Idle, media' = media,
             NEW pc \in {"fetch", "install", "complete", "fail"},
             download' = [download EXCEPT ![d].pc = pc]
      PROVE  download' \in [Downloads -> {Idle} \cup Working] /\ Busy'
  BY <1>0, <1>4, GotoType, BusyKept
<1>5. ASSUME download[d] # Idle, Finished(d), \A m \in Media : media[m] # None => media'[m] # None
      PROVE  download' \in [Downloads -> {Idle} \cup Working] /\ Busy'
  BY <1>0, <1>5, FinishedType, BusyKept
<1>6. download[d] # Idle =>
        download[d] \in Working /\ download[d].media \in Media /\ media[download[d].media] # None
  BY <1>0 DEF Working, Busy
<1>7. CASE Fetch(d)
  BY <1>0, <1>4, <1>7 DEF Fetch
<1>8. CASE Install(d)
  BY <1>0, <1>4, <1>6, <1>8 DEF Install
<1>9. CASE Complete(d)
  <2> DEFINE row == [status |-> "completed", path |-> TRUE]
  <2>1. row \in MediaRow /\ row # None
    BY RowsAreRows DEF MediaRow
  <2>2. CASE media' = [media EXCEPT ![download[d].media] = row] /\ tx = None /\ Finished(d)
    <3> HIDE DEF row
    <3>1. media' \in MediaTable /\ \A m \in Media : media[m] # None <=> media'[m] # None
      BY <1>0, <1>6, <1>9, <2>1, <2>2 DEF MediaTable, Complete
    <3>2. QED
      BY <1>0, <1>5, <1>9, <2>2, <3>1 DEF Complete
  <2>3. CASE download' = [download EXCEPT ![d].pc = "fail"] /\ media' = media
    BY <1>0, <1>4, <1>9, <2>3 DEF Complete
  <2>4. QED
    BY <1>9, <2>2, <2>3 DEF Complete
<1>10. CASE Fail(d)
  <2> DEFINE row == [media[download[d].media] EXCEPT !.status = "failed"]
  <2>1. media[download[d].media] \in MediaRow
    BY <1>0, <1>6, <1>10 DEF MediaTable, Fail
  <2>2. row \in MediaRow /\ row # None
    BY <2>1, RowsAreRows DEF MediaRow
  <2>3. media' = [media EXCEPT ![download[d].media] = row]
    BY <1>10 DEF Fail
  <2> HIDE DEF row
  <2>4. media' \in MediaTable /\ \A m \in Media : media[m] # None <=> media'[m] # None
    BY <1>0, <1>6, <1>10, <2>2, <2>3 DEF MediaTable, Fail
  <2>5. QED
    BY <1>0, <1>5, <1>10, <2>4 DEF Fail
<1>11. CASE Crash(d)
  <2>1. /\ download' = [download EXCEPT ![d] = Idle] /\ media' = media /\ file' = file
        /\ UNCHANGED <<post, repost, observed, files, tx>>
    BY <1>11 DEF Crash
  <2>2. download' \in [Downloads -> {Idle} \cup Working]
    BY <1>0, <2>1
  <2>3. \A x \in Downloads : download'[x] # Idle => download'[x] = download[x]
    BY <1>0, <2>1
  <2>4. Busy'
    BY <1>0, <2>1, <2>3, BusyKept
  <2>5. QED
    BY <1>0, <2>1, <2>2, <2>4
<1>12. CASE \E m \in Media : StartTask(d, m)
  BY <1>0, <1>2, <1>12 DEF StartTask
<1>13. CASE \E t \in Tweets : StartInline(d, t)
  BY <1>0, <1>3, <1>13 DEF StartInline
<1>14. QED
  BY <1>7, <1>8, <1>9, <1>10, <1>11, <1>12, <1>13 DEF DownloadStep

\* A transaction begins with the tables as they are.
LEMMA BeginEffect ==
  ASSUME StoreTypeOK, NEW item \in Items, Begin(item)
  PROVE  /\ tx = None /\ Valid(item) /\ tx' \in Transaction /\ tx'.item = item /\ tx'.next = 1
         /\ tx'.post = post /\ tx'.repost = repost /\ tx'.media = media
         /\ UNCHANGED <<tables, files, file, download>>
  BY DEF Begin, StoreTypeOK, Transaction

\* It ends with an observed item and its tables.
LEMMA CommitEffect ==
  ASSUME StoreTypeOK, Commit
  PROVE  /\ tx \in Transaction /\ tx' = None
         /\ tx.next = Len(tx.item.posts) + (IF tx.item.event = None THEN 1 ELSE 2)
         /\ post' = tx.post /\ repost' = tx.repost /\ media' = tx.media
         /\ observed' = observed \cup {ItemId(tx.item)}
         /\ ItemId(tx.item) \in Tweets
         /\ UNCHANGED <<files, file, download>>
<1>1. tx \in Transaction /\ tx.item \in Items
  BY DEF Commit, StoreTypeOK, Transaction
<1>2. ItemId(tx.item) \in Tweets
  BY <1>1, ItemFacts DEF ItemId, Event, Capture
<1>3. QED
  BY <1>1, <1>2 DEF Commit

\* Every step keeps the types.
LEMMA NextMediaInv == MediaInv /\ [Next]_vars => MediaInv'
<1> SUFFICES ASSUME MediaInv, [Next]_vars PROVE MediaInv'
  OBVIOUS
<1> USE DEF MediaInv, StoreInv, tables, files
<1>0. download \in [Downloads -> {Idle} \cup Working]
  BY DEF StoreTypeOK
<1>1. ASSUME NEW item \in Items, Begin(item)
      PROVE  MediaInv'
  BY <1>1, BeginEffect DEF StoreTypeOK, Busy, MoreMedia
<1>2. CASE Content
  <2>1. PICK item \in Items, i \in Nat \ {0}, c \in Capture, ref \in Tweets \cup {None},
             timeline \in BOOLEAN : i \in DOMAIN item.posts /\ Stored(item, i, c, ref, timeline)
    BY <1>2, ContentEffect
  <2>2. tx \in Transaction /\ tx.media \in MediaTable /\ tx # None
    BY <1>2 DEF Content, StoreTypeOK, Transaction
  <2>3. tx' \in Transaction /\ tx'.media = Created(tx.media, c.media)
    BY <2>1 DEF Stored
  <2>4. MoreMedia(tx.media, tx'.media)
    BY <2>2, <2>3, CreatedType
  <2>5. MoreMedia(media, tx'.media)
    BY <2>2, <2>4 DEF MoreMedia
  <2>6. postRaw' \in [Tweets -> Quality]
    BY <2>1 DEF Stored, StoreTypeOK, Capture
  <2>7. QED
    BY <1>2, <2>3, <2>5, <2>6 DEF Content, StoreTypeOK, Busy, MoreMedia
<1>3. CASE RepostEvent
  <2>1. PICK item \in Items, e \in Event, origin \in Tweets : Reposting(item, e, origin)
    BY <1>3, RepostEffect
  <2>2. tx' \in Transaction /\ tx'.media = tx.media /\ tx # None
    BY <1>3, <2>1 DEF Reposting, RepostEvent
  <2>3. repostRaw' \in [Tweets -> Quality]
    BY <2>1 DEF Reposting, StoreTypeOK, Event
  <2>4. QED
    BY <1>3, <2>2, <2>3 DEF RepostEvent, StoreTypeOK, Busy, MoreMedia
<1>4. CASE Commit
  <2>1. /\ tx \in Transaction /\ tx # None /\ tx' = None
        /\ post' \in PostTable /\ repost' \in RepostTable /\ media' \in MediaTable
        /\ observed' \in SUBSET Tweets /\ media' = tx.media
        /\ UNCHANGED <<files, file, download>>
    BY <1>4, CommitEffect DEF Commit, Transaction, StoreTypeOK
  <2>2. \A m \in Media : media[m] # None => media'[m] # None
    BY <2>1 DEF MoreMedia
  <2>3. Busy'
    BY <1>0, <2>1, <2>2, BusyKept
  <2>4. QED
    BY <2>1, <2>3 DEF StoreTypeOK
<1>5. CASE Abort
  BY <1>5 DEF Abort, StoreTypeOK, Busy
<1>6. ASSUME NEW d \in Downloads, DownloadStep(d)
      PROVE  MediaInv'
  BY <1>6, DownloadEffect DEF StoreTypeOK, MoreMedia
<1>7. CASE UNCHANGED vars
  BY <1>7 DEF vars, StoreTypeOK, Busy, MoreMedia
<1>8. QED
  BY <1>1, <1>2, <1>3, <1>4, <1>5, <1>6, <1>7 DEF Next, DownloadStep

\* Initially there is nothing.
LEMMA InitMediaInv == Init => MediaInv
<1> SUFFICES ASSUME Init PROVE MediaInv
  OBVIOUS
<1>1. NoFile \in Quality
  BY DEF NoFile, Quality
<1>2. QED
  BY <1>1 DEF Init, MediaInv, StoreInv, StoreTypeOK, Busy, PostTable, RepostTable, MediaTable

\* Tables, transaction, files and downloads are of their types.
THEOREM StoreTyping == Spec => []StoreTypeOK
<1>1. MediaInv => StoreTypeOK
  BY DEF MediaInv, StoreInv
<1>2. QED
  BY <1>1, InitMediaInv, NextMediaInv, PTL DEF Spec

-----------------------------------------------------------------------------
(***************************************************************************)
(* Media files.                                                            *)
(***************************************************************************)
Present ==
  \A d \in Downloads :
    download[d] # Idle /\ download[d].pc = "complete" => download[d].media \in file

\* A row is completed only with its file, and no file is removed.
LEMMA DownloadFiles ==
  ASSUME FileInv, NEW d \in Downloads, DownloadStep(d)
  PROVE  FileBacksRow' /\ Present'
<1> USE DEF FileInv, MediaInv, StoreInv
<1>0. /\ download \in [Downloads -> {Idle} \cup Working] /\ media \in MediaTable
      /\ file \in SUBSET Media /\ Present
  BY DEF StoreTypeOK, Present
<1>1. ASSUME NEW M \in SUBSET Media, \A m \in M : media[m] # None, Take(d, M),
             media' = media, file' = file
      PROVE  FileBacksRow' /\ Present'
  BY <1>0, <1>1, TakeType DEF FileBacksRow, Present
<1>2. ASSUME NEW m \in Media, StartTask(d, m)
      PROVE  FileBacksRow' /\ Present'
  <2>1. media[m] # None
    BY <1>2 DEF StartTask, Wanted
  <2>2. QED
    BY <1>1, <1>2, <2>1 DEF StartTask, tables
<1>3. ASSUME NEW t \in Tweets, StartInline(d, t)
      PROVE  FileBacksRow' /\ Present'
  <2> DEFINE M == Wanted({m \in Media : Owner[m] = t})
  <2>1. M \in SUBSET Media /\ \A m \in M : media[m] # None
    BY DEF Wanted
  <2>2. Take(d, M) /\ media' = media /\ file' = file
    BY <1>3 DEF StartInline, tables
  <2> HIDE DEF M
  <2>3. QED
    BY <1>1, <2>1, <2>2
<1>4. download[d] # Idle =>
        download[d] \in Working /\ download[d].media \in Media /\ media[download[d].media] # None
  BY <1>0 DEF Working, Busy
<1>5. ASSUME download[d] # Idle, media' = media, file' = file,
             NEW pc \in {"fetch", "install", "fail"}, download' = [download EXCEPT ![d].pc = pc]
      PROVE  FileBacksRow' /\ Present'
  BY <1>0, <1>5, GotoType DEF FileBacksRow, Present
<1>6. CASE Fetch(d)
  BY <1>5, <1>6 DEF Fetch, tables
<1>7. CASE Install(d)
  <2>1. CASE file' = file \cup {download[d].media} /\ download' = [download EXCEPT ![d].pc = "complete"]
    BY <1>0, <1>4, <1>7, <2>1, GotoType DEF FileBacksRow, Present, Install, tables
  <2>2. CASE download' = [download EXCEPT ![d].pc = "fail"] /\ UNCHANGED file
    BY <1>5, <1>7, <2>2 DEF Install, tables
  <2>3. QED
    BY <1>7, <2>1, <2>2 DEF Install
<1>8. ASSUME download[d] # Idle, Finished(d), file' = file
      PROVE  Present'
  <2>1. /\ \A x \in Downloads : download'[x] # Idle => download[x] # Idle
        /\ \A x \in Downloads \ {d} : download'[x] = download[x]
        /\ download'[d] # Idle => download'[d].pc = "fetch"
    BY <1>8, FinishedType
  <2>2. QED
    BY <1>0, <1>8, <2>1 DEF Present
<1>9. CASE Complete(d)
  <2>1. CASE download' = [download EXCEPT ![d].pc = "fail"] /\ UNCHANGED media
    BY <1>5, <1>9, <2>1 DEF Complete, files
  <2>2. CASE /\ media' = [media EXCEPT ![download[d].media] = [status |-> "completed", path |-> TRUE]]
             /\ Finished(d)
    <3>1. download[d].media \in file /\ file' = file
      BY <1>0, <1>9 DEF Complete, Present
    <3>2. FileBacksRow'
      BY <1>0, <1>4, <1>9, <2>2, <3>1 DEF Complete, FileBacksRow, MediaTable
    <3>3. QED
      BY <1>8, <1>9, <2>2, <3>1, <3>2 DEF Complete
  <2>3. QED
    BY <1>9, <2>1, <2>2 DEF Complete
<1>10. CASE Fail(d)
  <2> DEFINE row == [media[download[d].media] EXCEPT !.status = "failed"]
  <2>1. media[download[d].media] \in MediaRow
    BY <1>0, <1>4, <1>10 DEF MediaTable, Fail
  <2>2. row.status = "failed" /\ row.path = media[download[d].media].path
    BY <2>1 DEF MediaRow
  <2>3. media' = [media EXCEPT ![download[d].media] = row] /\ file' = file
    BY <1>10 DEF Fail
  <2> HIDE DEF row
  <2>4. FileBacksRow'
    BY <1>0, <1>4, <1>10, <2>2, <2>3 DEF FileBacksRow, MediaTable, Fail
  <2>5. QED
    BY <1>8, <1>10, <2>3, <2>4 DEF Fail
<1>11. CASE Crash(d)
  BY <1>0, <1>11 DEF Crash, FileBacksRow, Present, tables
<1>12. QED
  BY <1>2, <1>3, <1>6, <1>7, <1>9, <1>10, <1>11 DEF DownloadStep

\* Every step keeps the files of the completed rows.
LEMMA NextFileInv == FileInv /\ [Next]_vars => FileInv'
<1> SUFFICES ASSUME FileInv, [Next]_vars PROVE FileInv'
  OBVIOUS
<1>1. MediaInv /\ MediaInv' /\ FileBacksRow /\ Present
  BY NextMediaInv DEF FileInv, Present
<1>2. ASSUME media' = media, file' = file, download' = download
      PROVE  FileBacksRow' /\ Present'
  BY <1>1, <1>2 DEF FileBacksRow, Present
<1>3. CASE Commit
  <2>1. /\ MoreMedia(media, tx.media) /\ media' = tx.media /\ file' = file
        /\ download' = download
    BY <1>1, <1>3 DEF Commit, MediaInv
  <2>2. QED
    BY <1>1, <2>1 DEF FileInv, FileBacksRow, Present, MoreMedia, New
<1>4. CASE (\E item \in Items : Begin(item)) \/ Content \/ RepostEvent \/ Abort \/ UNCHANGED vars
  <2>1. media' = media /\ file' = file /\ download' = download
    BY <1>4 DEF Begin, Content, RepostEvent, Abort, vars, tables
  <2>2. QED
    BY <1>1, <1>2, <2>1 DEF FileInv, Present
<1>5. ASSUME NEW d \in Downloads, DownloadStep(d)
      PROVE  FileInv'
  BY <1>1, <1>5, DownloadFiles DEF FileInv, Present
<1>6. QED
  BY <1>3, <1>4, <1>5, <1>1 DEF Next, DownloadStep, FileInv, Present

\* Initially no row is completed.
LEMMA InitFileInv == Init => FileInv
BY InitMediaInv DEF FileInv, FileBacksRow, Init

\* A media row with a local path has its file, whatever other downloads of it
\* and later failures did (complete_media after the file is in place).
THEOREM StoreFiles == Spec => []FileBacksRow
<1>1. FileInv => FileBacksRow
  BY DEF FileInv
<1>2. QED
  BY <1>1, InitFileInv, NextFileInv, PTL DEF Spec

\* Nobody takes up a file that is completed and that nobody works on.
LEMMA StepSettled ==
  ASSUME MediaInv, [Next]_vars, NEW m \in Media, Settled(m)
  PROVE  Settled(m)'
<1> USE DEF MediaInv, StoreInv
<1>0. /\ download \in [Downloads -> {Idle} \cup Working] /\ media \in MediaTable
      /\ media[m] # None /\ media[m].status = "completed"
      /\ \A d \in Downloads : download[d] # Idle => m # download[d].media /\ m \notin download[d].todo
  BY DEF StoreTypeOK, Settled
<1>1. ASSUME media'[m] = media[m],
             \A d \in Downloads : download'[d] # Idle =>
               m # download'[d].media /\ m \notin download'[d].todo
      PROVE  Settled(m)'
  BY <1>0, <1>1 DEF Settled
<1>2. CASE Commit
  <2>1. MoreMedia(media, tx.media) /\ media' = tx.media /\ download' = download
    BY <1>2 DEF Commit
  <2>2. QED
    BY <1>0, <1>1, <2>1 DEF MoreMedia
<1>3. CASE (\E item \in Items : Begin(item)) \/ Content \/ RepostEvent \/ Abort \/ UNCHANGED vars
  <2>1. media' = media /\ download' = download
    BY <1>3 DEF Begin, Content, RepostEvent, Abort, vars, tables
  <2>2. QED
    BY <1>0, <1>1, <2>1
<1>4. ASSUME NEW d \in Downloads, DownloadStep(d)
      PROVE  Settled(m)'
  <2>1. ASSUME NEW M \in SUBSET Media, \A x \in M : media[x] # None, m \notin M, Take(d, M)
        PROVE  \A x \in Downloads : download'[x] # Idle => m # download'[x].media /\ m \notin download'[x].todo
    BY <1>0, <2>1, TakeType
  <2>2. ASSUME NEW x \in Media, StartTask(d, x)
        PROVE  Settled(m)'
    <3>1. media[x] # None /\ m \notin {x} /\ media' = media /\ Take(d, {x})
      BY <1>0, <2>2 DEF StartTask, Wanted, tables
    <3>2. QED
      BY <1>1, <2>1, <3>1
  <2>3. ASSUME NEW t \in Tweets, StartInline(d, t)
        PROVE  Settled(m)'
    <3> DEFINE M == Wanted({x \in Media : Owner[x] = t})
    <3>1. M \in SUBSET Media /\ (\A x \in M : media[x] # None) /\ m \notin M
      BY <1>0 DEF Wanted
    <3>2. Take(d, M) /\ media' = media
      BY <2>3 DEF StartInline, tables
    <3> HIDE DEF M
    <3>3. QED
      BY <1>1, <2>1, <3>1, <3>2
  <2>4. ASSUME download[d] # Idle, NEW pc \in {"fetch", "install", "complete", "fail"},
               download' = [download EXCEPT ![d].pc = pc]
        PROVE  \A x \in Downloads : download'[x] # Idle => m # download'[x].media /\ m \notin download'[x].todo
    BY <1>0, <2>4, GotoType
  <2>5. ASSUME download[d] # Idle, Finished(d)
        PROVE  \A x \in Downloads : download'[x] # Idle => m # download'[x].media /\ m \notin download'[x].todo
    BY <1>0, <2>5, FinishedType
  <2>6. CASE Fetch(d)
    BY <1>1, <2>4, <2>6 DEF Fetch, tables
  <2>7. CASE Install(d)
    BY <1>1, <2>4, <2>7 DEF Install, tables
  <2>8. CASE Complete(d)
    <3>1. m # download[d].media
      BY <1>0, <2>8 DEF Complete
    <3>2. \/ media' = [media EXCEPT ![download[d].media] = [status |-> "completed", path |-> TRUE]]
          \/ media' = media
      BY <2>8 DEF Complete
    <3>3. media'[m] = media[m]
      BY <1>0, <3>1, <3>2 DEF MediaTable
    <3>4. QED
      BY <1>1, <2>4, <2>5, <2>8, <3>3 DEF Complete
  <2>9. CASE Fail(d)
    <3>1. media'[m] = media[m]
      BY <1>0, <2>9 DEF Fail, MediaTable
    <3>2. QED
      BY <1>1, <2>5, <2>9, <3>1 DEF Fail
  <2>10. CASE Crash(d)
    BY <1>0, <1>1, <2>10 DEF Crash, tables
  <2>11. QED
    BY <1>4, <2>2, <2>3, <2>6, <2>7, <2>8, <2>9, <2>10 DEF DownloadStep
<1>5. QED
  BY <1>2, <1>3, <1>4 DEF Next, DownloadStep

\* A completed file that nobody works on stays completed and untouched.
THEOREM StoreCompleted == Spec => CompletedIsFinal
<1>1. MediaInv /\ [Next]_vars => (\A m \in Media : Settled(m) => Settled(m)')
  BY StepSettled
<1>2. MediaInv /\ [Next]_vars => [\A m \in Media : Settled(m) => Settled(m)']_vars
  BY <1>1
<1>3. QED
  BY <1>2, InitMediaInv, NextMediaInv, PTL DEF Spec, CompletedIsFinal

-----------------------------------------------------------------------------
(***************************************************************************)
(* The graph of the posts.                                                 *)
(***************************************************************************)
\* A post that does not lead to c may be given to c as its reference.
LEMMA UpsertAcyclic ==
  ASSUME NEW P \in PostTable, Acyclic(P), NEW c \in Tweets, NEW row \in PostRow,
         NEW ref \in Tweets \cup {None},
         row.ref = (IF P[c] # None /\ ref = None THEN P[c].ref ELSE ref),
         ref # None => ~Reaches(P, ref, c)
  PROVE  Acyclic([P EXCEPT ![c] = row])
<1> DEFINE Q == [P EXCEPT ![c] = row]
<1>0. /\ Q[c] = row /\ \A t \in Tweets \ {c} : Q[t] = P[t]
      /\ None \notin Tweets
  BY StoreAssumption DEF PostTable
<1> SUFFICES ASSUME NEW T \in (SUBSET Tweets) \ {{}},
                    \A t \in T : Q[t] # None /\ Q[t].ref \in T
             PROVE  FALSE
  BY DEF Acyclic
<1> HIDE DEF Q
<1>1. ASSUME \A t \in T : P[t] # None /\ P[t].ref \in T
      PROVE  FALSE
  BY <1>1 DEF Acyclic
<1>2. c \in T
  BY <1>0, <1>1
<1>3. row.ref \in T /\ row.ref # None
  BY <1>0, <1>2
<1>4. CASE ref = None
  <2>1. P[c] # None /\ P[c].ref = row.ref
    BY <1>3, <1>4
  <2>2. QED
    BY <1>0, <1>1, <1>3, <2>1
<1>5. CASE ref # None
  <2>1. row.ref = ref
    BY <1>5
  <2>2. PICK S \in SUBSET Tweets : ref \in S /\ Refs(P, S) \subseteq S /\ c \notin S
    BY <1>5 DEF Reaches
  <2>3. ASSUME NEW t \in T \cap S
        PROVE  P[t] # None /\ P[t].ref \in T \cap S
    <3>1. Q[t] = P[t] /\ P[t] # None /\ P[t].ref \in T
      BY <1>0, <2>2
    <3>2. P[t].ref \in Refs(P, S)
      BY <1>0, <3>1 DEF Refs
    <3>3. QED
      BY <2>2, <3>1, <3>2
  <2>4. T \cap S \in (SUBSET Tweets) \ {{}}
    BY <1>3, <2>1, <2>2
  <2>5. QED
    BY <2>3, <2>4 DEF Acyclic
<1>6. QED
  BY <1>4, <1>5

\* The tables stay sound when a capture is stored.
LEMMA UpsertSound ==
  ASSUME NEW P \in PostTable, NEW R \in RepostTable, NEW M \in MediaTable, Sound(P, R, M),
         NEW c \in Capture, \A m \in c.media : Owner[m] = c.id,
         NEW ref \in Tweets \cup {None}, NEW timeline \in BOOLEAN,
         R[c.id] = None, ref # None => P[ref] # None /\ ~Reaches(P, ref, c.id)
  PROVE  Sound([P EXCEPT ![c.id] = Upserted(P[c.id], c, ref, timeline)], R, Created(M, c.media))
<1> DEFINE row == Upserted(P[c.id], c, ref, timeline)
           Q == [P EXCEPT ![c.id] = row]
<1>0. c.id \in Tweets /\ P[c.id] \in PostRow \cup {None} /\ None \notin Tweets
  BY StoreAssumption DEF Capture, PostTable
<1>1. row \in PostRow /\ row # None
  BY <1>0, UpsertedType, RowsAreRows
<1>2. row.ref = (IF P[c.id] # None /\ ref = None THEN P[c.id].ref ELSE ref)
  BY DEF Upserted
<1> HIDE DEF row
<1>3. Acyclic(Q)
  BY <1>0, <1>1, <1>2, UpsertAcyclic DEF Sound
<1>4. /\ Q[c.id] = row /\ \A t \in Tweets \ {c.id} : Q[t] = P[t]
      /\ \A t \in Tweets : P[t] # None => Q[t] # None
  BY <1>0, <1>1 DEF PostTable
<1> HIDE DEF Q
<1>5. Linked(Q)
  <2> SUFFICES ASSUME NEW t \in Tweets, Q[t] # None, Q[t].ref # None
               PROVE  Q[Q[t].ref] # None
    BY DEF Linked
  <2>1. \A u \in Tweets : P[u] # None => P[u].ref \in Tweets \cup {None}
    BY DEF PostTable, PostRow
  <2>2. CASE t # c.id
    BY <1>4, <2>1, <2>2 DEF Sound, Linked
  <2>3. CASE t = c.id /\ ref # None
    BY <1>2, <1>4, <2>3
  <2>4. CASE t = c.id /\ ref = None
    <3>1. P[c.id] # None /\ Q[t].ref = P[c.id].ref
      BY <1>2, <1>4, <2>4
    <3>2. QED
      BY <1>0, <1>4, <2>1, <2>4, <3>1 DEF Sound, Linked
  <2>5. QED
    BY <2>2, <2>3, <2>4
<1>6. Apart(Q, R)
  <2>1. \A t \in Tweets : R[t] # None => R[t].origin \in Tweets
    BY DEF RepostTable, RepostRow
  <2>2. QED
    BY <1>4, <2>1 DEF Sound, Apart
<1>7. Owned(Q, Created(M, c.media))
  <2>1. \A m \in Media : Owner[m] \in Tweets
    BY StoreAssumption
  <2>2. QED
    BY <1>1, <1>4, <2>1, CreatedType DEF Sound, Owned
<1>8. QED
  BY <1>3, <1>5, <1>6, <1>7 DEF Sound, Q, row

\* Media rows of a post that has a row may be added.
LEMMA CreatedSound ==
  ASSUME NEW P \in PostTable, NEW R \in RepostTable, NEW M \in MediaTable, Sound(P, R, M),
         NEW t \in Tweets, P[t] # None, NEW N, \A m \in N : Owner[m] = t
  PROVE  Sound(P, R, Created(M, N))
BY CreatedType DEF Sound, Owned

\* A capture that is not worse leaves a row that is not.
LEMMA UpsertNoWorse ==
  ASSUME NEW row \in PostRow, NEW c \in Capture, NEW ref \in Tweets \cup {None},
         NEW timeline \in BOOLEAN, ~Worse(row, c, timeline), ~Conflict(row, c.author)
  PROVE  NoWorse(row, Upserted(row, c, ref, timeline))
<1> DEFINE new == Upserted(row, c, ref, timeline)
<1>0. row # None /\ row.quality \in 0 .. 3 /\ c.quality \in 0 .. 3 /\ row.timeline \in BOOLEAN
  BY RowsAreRows DEF PostRow, Capture, Quality
<1>1. new \in PostRow /\ new # None
  BY UpsertedType, RowsAreRows
<1>2. /\ new.quality = c.quality /\ new.timeline = (timeline \/ row.timeline)
      /\ new.raw = (HasPayload(c) \/ row.raw)
      /\ new.author = (IF c.author = Unknown THEN row.author ELSE c.author)
      /\ new.ref = (IF ref = None THEN row.ref ELSE ref)
  BY <1>0 DEF Upserted
<1>3. ~(Rank(c.quality, timeline) < Rank(row.quality, row.timeline))
  BY <1>0 DEF Worse
<1>4. Rank(new.quality, new.timeline) >= Rank(row.quality, row.timeline)
  BY <1>0, <1>2, <1>3 DEF Rank
<1>5. row.author # Unknown => new.author = row.author
  BY <1>0, <1>2 DEF Conflict
<1>6. QED
  BY <1>1, <1>2, <1>4, <1>5 DEF NoWorse

\* A table that is no worse has each post at no less quality.
LEMMA NoWorseQuality ==
  ASSUME NEW row \in PostRow, NEW new \in PostRow, NoWorse(row, new)
  PROVE  new.quality >= row.quality
BY DEF NoWorse, Rank, PostRow, Quality

\* Not to be worse is transitive.
LEMMA NoWorseTransitive ==
  ASSUME NEW a \in PostRow, NEW b \in PostRow, NEW c \in PostRow, NoWorse(a, b), NoWorse(b, c)
  PROVE  NoWorse(a, c)
BY DEF NoWorse, Rank, PostRow, Quality

\* A table extends itself.
LEMMA ExtendsSelf == ASSUME NEW P \in PostTable PROVE Extends(P, P)
BY DEF Extends, NoWorse, Rank, PostTable, PostRow, Quality

\* What was stored is still there after a capture, and no worse.
LEMMA UpsertExtends ==
  ASSUME NEW O \in PostTable, NEW P \in PostTable, Extends(O, P),
         NEW c \in Capture, NEW ref \in Tweets \cup {None}, NEW timeline \in BOOLEAN,
         ~Worse(P[c.id], c, timeline), ~Conflict(P[c.id], c.author)
  PROVE  Extends(O, [P EXCEPT ![c.id] = Upserted(P[c.id], c, ref, timeline)])
<1> DEFINE row == Upserted(P[c.id], c, ref, timeline)
<1>0. c.id \in Tweets /\ P[c.id] \in PostRow \cup {None}
  BY DEF Capture, PostTable
<1>1. row \in PostRow
  BY <1>0, UpsertedType
<1>2. P[c.id] # None => NoWorse(P[c.id], row)
  BY <1>0, UpsertNoWorse
<1> HIDE DEF row
<1> SUFFICES ASSUME NEW t \in Tweets, O[t] # None PROVE NoWorse(O[t], [P EXCEPT ![c.id] = row][t])
  BY DEF Extends, row
<1>3. O[t] \in PostRow /\ P[t] \in PostRow /\ NoWorse(O[t], P[t])
  BY DEF Extends, NoWorse, PostTable
<1>4. CASE t = c.id
  <2>1. NoWorse(P[t], row)
    BY <1>2, <1>3, <1>4, RowsAreRows
  <2>2. NoWorse(O[t], row)
    BY <1>1, <1>3, <2>1, NoWorseTransitive
  <2>3. QED
    BY <1>0, <1>4, <2>2 DEF PostTable
<1>5. CASE t # c.id
  BY <1>0, <1>3, <1>5 DEF PostTable
<1>6. QED
  BY <1>4, <1>5

\* The file a capture replaces is no worse than any row of its post.
LEMMA UpsertBacked ==
  ASSUME NEW O \in PostTable, NEW P \in PostTable, Extends(O, P),
         NEW raw \in [Tweets -> Quality], NEW next,
         PostBacked(O, raw), PostBacked(P, raw),
         NEW c \in Capture, NEW ref \in Tweets \cup {None}, NEW timeline \in BOOLEAN,
         ~Worse(P[c.id], c, timeline),
         next = IF HasPayload(c) THEN [raw EXCEPT ![c.id] = c.quality] ELSE raw
  PROVE  /\ PostBacked(O, next)
         /\ PostBacked([P EXCEPT ![c.id] = Upserted(P[c.id], c, ref, timeline)], next)
<1> DEFINE row == Upserted(P[c.id], c, ref, timeline)
           Q == [P EXCEPT ![c.id] = row]
<1>0. /\ c.id \in Tweets /\ c.quality \in 0 .. 3 /\ P[c.id] \in PostRow \cup {None}
      /\ \A t \in Tweets : raw[t] \in 0 .. 3
  BY DEF Capture, PostTable, Quality
<1>1. P[c.id] # None => c.quality >= P[c.id].quality
  BY <1>0 DEF Worse, Rank, PostRow, Quality
<1>2. O[c.id] # None => P[c.id] # None /\ c.quality >= O[c.id].quality
  <2>1. O[c.id] # None => P[c.id] # None /\ P[c.id].quality >= O[c.id].quality
    BY <1>0, NoWorseQuality DEF Extends, PostTable, NoWorse
  <2>2. O[c.id] # None => O[c.id].quality \in 0 .. 3 /\ P[c.id].quality \in 0 .. 3
    BY <1>0, <2>1 DEF PostTable, PostRow, Quality
  <2>3. QED
    BY <1>0, <1>1, <2>1, <2>2
<1>3. /\ \A t \in Tweets : t # c.id \/ ~HasPayload(c) => next[t] = raw[t]
      /\ HasPayload(c) => next[c.id] = c.quality
  BY <1>0
<1>4. PostBacked(O, next)
  BY <1>2, <1>3 DEF PostBacked, HasPayload
<1>5. Q[c.id] = row /\ \A t \in Tweets \ {c.id} : Q[t] = P[t]
  BY <1>0 DEF PostTable
<1>6. /\ row.raw = (HasPayload(c) \/ (P[c.id] # None /\ P[c.id].raw))
      /\ row.quality = c.quality
  BY DEF Upserted
<1> HIDE DEF row, Q
<1>7. PostBacked(Q, next)
  <2>1. ASSUME NEW t \in Tweets \ {c.id}, Q[t] # None
        PROVE  /\ Q[t].raw => next[t] >= Partial /\ next[t] >= Q[t].quality
               /\ Q[t].quality >= Partial => Q[t].raw
    BY <1>3, <1>5, <2>1 DEF PostBacked
  <2>2. CASE HasPayload(c)
    <3>1. row.raw
      BY <1>6, <2>2, Zenon
    <3>2. next[c.id] >= Partial /\ next[c.id] >= row.quality
      BY <1>0, <1>3, <1>6, <2>2 DEF HasPayload, Partial
    <3>3. QED
      BY <1>5, <2>1, <3>1, <3>2 DEF PostBacked
  <2>3. CASE ~HasPayload(c)
    <3>0. row.quality < Partial
      BY <1>0, <1>6, <2>3 DEF HasPayload, Partial
    <3>1. ASSUME row.raw
          PROVE  next[c.id] >= Partial
      <4>1. P[c.id] # None /\ P[c.id].raw
        BY <1>6, <2>3, <3>1, Zenon
      <4>2. QED
        BY <1>0, <1>3, <2>3, <4>1 DEF PostBacked
    <3>2. /\ row.raw => next[c.id] >= Partial /\ next[c.id] >= row.quality
          /\ row.quality >= Partial => row.raw
      BY <1>0, <1>3, <1>6, <2>3, <3>0, <3>1 DEF Partial
    <3>3. QED
      BY <1>5, <2>1, <3>2 DEF PostBacked
  <2>4. QED
    BY <2>2, <2>3
<1>8. QED
  BY <1>4, <1>7 DEF Q, row

\* The tables stay sound when an event is stored on an origin that has a row.
LEMMA RepostSound ==
  ASSUME NEW P \in PostTable, NEW R \in RepostTable, NEW M \in MediaTable, Sound(P, R, M),
         NEW t \in Tweets, NEW row \in RepostRow, P[t] = None, P[row.origin] # None
  PROVE  Sound(P, [R EXCEPT ![t] = row], M)
BY DEF Sound, Apart, RepostTable

\* A transaction that has written all of its item leaves a row to observe.
LEMMA WrittenItem ==
  ASSUME tx \in Transaction, Written,
         tx.next = Len(tx.item.posts) + (IF tx.item.event = None THEN 1 ELSE 2)
  PROVE  tx.post[ItemId(tx.item)] # None \/ tx.repost[ItemId(tx.item)] # None
<1>1. tx.item \in Items
  BY DEF Transaction
<1>2. Len(tx.item.posts) \in DOMAIN tx.item.posts /\ Len(tx.item.posts) \in Nat
  BY <1>1, ItemFacts
<1>3. CASE tx.item.event = None
  <2>1. Len(tx.item.posts) < tx.next
    BY <1>2, <1>3
  <2>2. QED
    BY <1>2, <1>3, <2>1 DEF ItemId, Written
<1>4. CASE tx.item.event # None
  BY <1>4 DEF ItemId, Written
<1>5. QED
  BY <1>3, <1>4

\* A call of content keeps what is promised of the transaction.
LEMMA ContentTransient ==
  ASSUME GraphInv, Content
  PROVE  Transient' /\ PostBacked(post', postRaw') /\ RepostBacked(repost', repostRaw')
<1> PICK item \in Items, i \in Nat \ {0}, c \in Capture, ref \in Tweets \cup {None},
         timeline \in BOOLEAN : i \in DOMAIN item.posts /\ Stored(item, i, c, ref, timeline)
  BY ContentEffect DEF GraphInv, MediaInv, StoreInv
<1> DEFINE P == tx.post
           R == tx.repost
           M == tx.media
           row == Upserted(P[c.id], c, ref, timeline)
           up == [P EXCEPT ![c.id] = row]
<1>1. /\ tx # None /\ tx \in Transaction /\ P \in PostTable /\ R \in RepostTable /\ M \in MediaTable
      /\ post \in PostTable /\ postRaw \in [Tweets -> Quality]
      /\ UNCHANGED <<post, repost, repostRaw>>
  BY DEF GraphInv, MediaInv, StoreInv, StoreTypeOK, Content, Transaction, tables
<1>2. /\ Sound(P, R, M) /\ PostBacked(P, postRaw) /\ RepostBacked(R, repostRaw)
      /\ Extends(post, P) /\ PostBacked(post, postRaw) /\ RepostBacked(repost, repostRaw)
      /\ \A t \in Tweets : repost[t] # None => R[t] # None
      /\ Written
  BY <1>1 DEF GraphInv, Transient
<1>3. /\ item = tx.item /\ i = tx.next /\ c = item.posts[i]
      /\ R[c.id] = None /\ (ref # None => P[ref] # None /\ ~Reaches(P, ref, c.id))
      /\ ~Conflict(P[c.id], c.author)
      /\ tx' \in Transaction /\ tx'.item = item /\ tx'.next = i + 1
      /\ tx'.repost = R /\ tx'.media = Created(M, c.media)
  BY DEF Stored
<1>4. /\ \A m \in c.media : Owner[m] = c.id
      /\ c.id \in Tweets
  BY <1>3, ItemFacts DEF Capture
<1>5. /\ Sound(tx'.post, R, tx'.media) /\ Extends(post, tx'.post)
      /\ PostBacked(post, postRaw') /\ PostBacked(tx'.post, postRaw')
      /\ tx'.post[c.id] # None
      /\ \A t \in Tweets : P[t] # None => tx'.post[t] # None
  <2>1. CASE Worse(P[c.id], c, timeline) /\ tx'.post = P /\ postRaw' = postRaw
    <3>1. P[c.id] # None
      BY <2>1 DEF Worse
    <3>2. Sound(P, R, Created(M, c.media))
      BY <1>1, <1>2, <1>4, <3>1, CreatedSound
    <3>3. QED
      BY <1>2, <1>3, <2>1, <3>1, <3>2
  <2>2. CASE /\ ~Worse(P[c.id], c, timeline) /\ tx'.post = up
             /\ postRaw' = IF HasPayload(c) THEN [postRaw EXCEPT ![c.id] = c.quality] ELSE postRaw
    <3>1. Sound(up, R, Created(M, c.media))
      BY <1>1, <1>2, <1>3, <1>4, UpsertSound
    <3>0. /\ ~Worse(P[c.id], c, timeline) /\ ~Conflict(P[c.id], c.author)
          /\ Extends(post, P) /\ P \in PostTable /\ post \in PostTable
          /\ PostBacked(P, postRaw) /\ PostBacked(post, postRaw)
          /\ postRaw \in [Tweets -> Quality]
          /\ postRaw' = IF HasPayload(c) THEN [postRaw EXCEPT ![c.id] = c.quality] ELSE postRaw
      BY <1>1, <1>2, <1>3, <2>2
    <3>2. Extends(post, up)
      BY <3>0, UpsertExtends
    <3>3. PostBacked(post, postRaw') /\ PostBacked(up, postRaw')
      BY <3>0, UpsertBacked
    <3>4. P[c.id] \in PostRow \cup {None}
      BY <1>1, <1>4 DEF PostTable
    <3>5. row # None
      BY <3>4, UpsertedType, RowsAreRows
    <3>6. up[c.id] = row /\ \A t \in Tweets \ {c.id} : up[t] = P[t]
      BY <1>1, <1>4 DEF PostTable
    <3> HIDE DEF row, up
    <3>7. QED
      BY <1>3, <2>2, <3>1, <3>2, <3>3, <3>5, <3>6
  <2>3. QED
    BY <2>1, <2>2 DEF Stored
<1>6. Written'
  <2>1. \A j \in DOMAIN item.posts : item.posts[j].id \in Tweets /\ j \in Nat
    BY ItemFacts DEF Capture
  <2>2. ASSUME NEW j \in DOMAIN item.posts, j < i + 1
        PROVE  tx'.post[item.posts[j].id] # None
    <3>1. CASE j = i
      BY <1>3, <1>5, <3>1
    <3>2. CASE j # i
      BY <1>2, <1>3, <1>5, <2>1, <2>2, <3>2 DEF Written
    <3>3. QED
      BY <3>1, <3>2
  <2>3. i + 1 # Len(item.posts) + 2
    BY ItemFacts
  <2>4. QED
    BY <1>3, <2>2, <2>3 DEF Written
<1>7. QED
  BY <1>1, <1>2, <1>3, <1>5, <1>6 DEF Transient

\* So does the event of a repost.
LEMMA RepostTransient ==
  ASSUME GraphInv, RepostEvent
  PROVE  Transient' /\ PostBacked(post', postRaw') /\ RepostBacked(repost', repostRaw')
<1> PICK item \in Items, e \in Event, origin \in Tweets : Reposting(item, e, origin)
  BY RepostEffect DEF GraphInv, MediaInv, StoreInv
<1> DEFINE P == tx.post
           R == tx.repost
           row == [origin |-> origin, author |-> e.author, quality |-> e.quality]
           rows == [R EXCEPT ![e.id] = row]
<1>1. /\ tx # None /\ P \in PostTable /\ R \in RepostTable /\ tx.media \in MediaTable
      /\ repostRaw \in [Tweets -> Quality]
      /\ UNCHANGED <<post, repost, postRaw>>
  BY DEF GraphInv, MediaInv, StoreInv, StoreTypeOK, RepostEvent, Transaction, tables
<1>2. /\ Sound(P, R, tx.media) /\ PostBacked(P, postRaw) /\ RepostBacked(R, repostRaw)
      /\ Extends(post, P) /\ PostBacked(post, postRaw) /\ RepostBacked(repost, repostRaw)
      /\ \A t \in Tweets : repost[t] # None => R[t] # None
      /\ Written
  BY <1>1 DEF GraphInv, Transient
<1>3. /\ item = tx.item /\ e = item.event /\ e.quality >= Partial
      /\ tx.next = Len(item.posts) + 1 /\ origin = item.posts[Len(item.posts)].id
      /\ P[origin] # None /\ P[e.id] = None
      /\ tx'.item = item /\ tx'.next = Len(item.posts) + 2
      /\ tx'.post = P /\ tx'.media = tx.media /\ tx'.repost = rows
      /\ repostRaw' = [repostRaw EXCEPT ![e.id] = e.quality]
  BY DEF Reposting
<1>4. row \in RepostRow /\ row # None /\ e.id \in Tweets /\ row.origin = origin /\ e # None
  BY RowsAreRows, StoreAssumption DEF RepostRow, Event
<1>5. rows[e.id] = row /\ \A t \in Tweets \ {e.id} : rows[t] = R[t]
  BY <1>1, <1>4 DEF RepostTable
<1>6. Sound(P, rows, tx.media)
  <2>1. P[row.origin] # None
    BY <1>3, <1>4
  <2> HIDE DEF row
  <2>2. QED
    BY <1>1, <1>2, <1>3, <1>4, <2>1, RepostSound
<1>7. e.quality # NoFile
  BY <1>3 DEF NoFile, Partial, Event, Quality
<1> HIDE DEF row, rows
<1>8. \A t \in Tweets : repostRaw[t] # NoFile => repostRaw'[t] # NoFile
  BY <1>1, <1>3, <1>7
<1>9. RepostBacked(rows, repostRaw') /\ RepostBacked(repost, repostRaw')
  BY <1>1, <1>2, <1>3, <1>4, <1>5, <1>7, <1>8 DEF RepostBacked
<1>10. Written'
  <2>1. ASSUME NEW j \in DOMAIN item.posts
        PROVE  P[item.posts[j].id] # None
    <3>1. j < tx.next
      BY <1>3, ItemFacts
    <3>2. QED
      BY <1>2, <1>3, <3>1 DEF Written
  <2>2. QED
    BY <1>3, <1>4, <1>5, <2>1 DEF Written
<1>11. \A t \in Tweets : repost[t] # None => rows[t] # None
  BY <1>2, <1>4, <1>5
<1>12. QED
  BY <1>1, <1>2, <1>3, <1>6, <1>9, <1>10, <1>11 DEF Transient

\* Every step keeps the graph sound, also in the open transaction.
LEMMA NextGraphInv == GraphInv /\ [Next]_vars => GraphInv'
<1> SUFFICES ASSUME GraphInv, [Next]_vars PROVE GraphInv'
  OBVIOUS
<1>0. MediaInv /\ MediaInv' /\ StoreTypeOK
  BY NextMediaInv DEF GraphInv, MediaInv, StoreInv
<1>1. ASSUME NEW item \in Items, Begin(item)
      PROVE  GraphInv'
  <2>1. /\ tx' \in Transaction /\ tx'.item = item /\ tx'.next = 1
        /\ tx'.post = post /\ tx'.repost = repost /\ tx'.media = media
        /\ UNCHANGED <<post, repost, observed, media, postRaw, repostRaw>>
    BY <1>0, <1>1, BeginEffect DEF tables, files
  <2>2. Extends(post, post)
    BY <1>0, ExtendsSelf DEF StoreTypeOK
  <2>3. Written'
    <3>1. \A j \in DOMAIN item.posts : ~(j < 1)
      BY ItemFacts
    <3>2. 1 # Len(item.posts) + 2
      BY ItemFacts
    <3>3. QED
      BY <2>1, <3>1, <3>2 DEF Written
  <2>4. QED
    BY <1>0, <2>1, <2>2, <2>3 DEF GraphInv, Transient, Observed
<1>2. CASE Content
  <2>1. UNCHANGED <<post, repost, observed, media>>
    BY <1>2 DEF Content, tables
  <2>2. QED
    BY <1>0, <1>2, <2>1, ContentTransient DEF GraphInv, Observed
<1>3. CASE RepostEvent
  <2>1. UNCHANGED <<post, repost, observed, media>>
    BY <1>3 DEF RepostEvent, tables
  <2>2. QED
    BY <1>0, <1>3, <2>1, RepostTransient DEF GraphInv, Observed
<1>4. CASE Commit
  <2>1. /\ tx \in Transaction /\ tx # None /\ tx' = None
        /\ tx.next = Len(tx.item.posts) + (IF tx.item.event = None THEN 1 ELSE 2)
        /\ post' = tx.post /\ repost' = tx.repost /\ media' = tx.media
        /\ observed' = observed \cup {ItemId(tx.item)}
        /\ UNCHANGED <<postRaw, repostRaw>>
    BY <1>0, <1>4, CommitEffect DEF Commit, files
  <2>2. Transient
    BY <2>1 DEF GraphInv
  <2>3. post'[ItemId(tx.item)] # None \/ repost'[ItemId(tx.item)] # None
    BY <2>1, <2>2, WrittenItem DEF Transient
  <2>4. \A t \in Tweets : (post[t] # None => post'[t] # None) /\ (repost[t] # None => repost'[t] # None)
    BY <2>1, <2>2 DEF Transient, Extends, NoWorse
  <2>5. Observed'
    BY <1>0, <2>1, <2>3, <2>4 DEF GraphInv, Observed, StoreTypeOK
  <2>6. QED
    BY <1>0, <2>1, <2>2, <2>5 DEF GraphInv, Transient
<1>5. CASE Abort
  BY <1>0, <1>5 DEF Abort, GraphInv, Observed, tables, files
<1>6. ASSUME NEW d \in Downloads, DownloadStep(d)
      PROVE  GraphInv'
  <2>1. /\ UNCHANGED <<post, repost, observed, postRaw, repostRaw, tx>>
        /\ \A m \in Media : media[m] # None <=> media'[m] # None
    BY <1>0, <1>6, DownloadEffect DEF MediaInv, files
  <2>2. Sound(post', repost', media')
    BY <2>1 DEF GraphInv, Sound, Owned
  <2>3. tx # None => Transient'
    BY <2>1 DEF GraphInv, Transient, Written
  <2>4. QED
    BY <1>0, <2>1, <2>2, <2>3 DEF GraphInv, Observed
<1>7. CASE UNCHANGED vars
  BY <1>0, <1>7 DEF vars, GraphInv, Observed, Transient, Written, tables, files
<1>8. QED
  BY <1>1, <1>2, <1>3, <1>4, <1>5, <1>6, <1>7 DEF Next, DownloadStep

\* The empty graph is sound.
LEMMA InitGraphInv == Init => GraphInv
<1> SUFFICES ASSUME Init PROVE GraphInv
  OBVIOUS
<1>1. /\ \A t \in Tweets : post[t] = None /\ repost[t] = None
      /\ \A m \in Media : media[m] = None
      /\ tx = None /\ observed = {}
  BY DEF Init
<1>2. Sound(post, repost, media)
  <2>1. ASSUME NEW T \in (SUBSET Tweets) \ {{}}
        PROVE  \E t \in T : post[t] = None
    <3>1. T # {} /\ T \subseteq Tweets
      OBVIOUS
    <3>2. PICK t : t \in T
      BY <3>1, Zenon
    <3>3. QED
      BY <1>1, <3>1, <3>2
  <2>2. Acyclic(post)
    BY <2>1 DEF Acyclic
  <2>3. QED
    BY <1>1, <2>2 DEF Sound, Linked, Apart, Owned
<1>3. Observed /\ PostBacked(post, postRaw) /\ RepostBacked(repost, repostRaw)
  BY <1>1 DEF Observed, PostBacked, RepostBacked
<1>4. QED
  BY <1>1, <1>2, <1>3, InitMediaInv DEF GraphInv

\* References lead to stored posts and never back, a repost has its origin, no
\* id is both, what was observed is stored and media rows have their post:
\* ingest_item keeps that for any items in any order.
THEOREM StoreGraph == Spec => []GraphIsSound
<1>1. GraphInv => GraphIsSound
  BY DEF GraphInv, GraphIsSound, Sound, Linked, Acyclic, Apart, Owned, Observed
<1>2. QED
  BY <1>1, InitGraphInv, NextGraphInv, PTL DEF Spec

\* A row that names a raw file finds a payload there that is no worse than the
\* row says, also when the transaction that replaced the file rolled back.
THEOREM StoreRawFiles == Spec => []RawBacksRow
<1>1. GraphInv => RawBacksRow
  BY DEF GraphInv, RawBacksRow, PostBacked, RepostBacked
<1>2. QED
  BY <1>1, InitGraphInv, NextGraphInv, PTL DEF Spec

\* No ingested item makes an archived post worse.
THEOREM StoreNeverDegrades == Spec => NeverDegrades
<1> DEFINE Better == \A t \in Tweets : post[t] # None => NoWorse(post[t], post'[t])
<1>1. GraphInv /\ [Next]_vars => Better
  <2> SUFFICES ASSUME GraphInv, [Next]_vars PROVE Better
    OBVIOUS
  <2>0. post \in PostTable
    BY DEF GraphInv, MediaInv, StoreInv, StoreTypeOK
  <2>1. CASE Commit
    BY <2>1 DEF Commit, GraphInv, Transient, Extends
  <2>2. ASSUME NEW d \in Downloads, DownloadStep(d)
        PROVE  post' = post
    BY <2>2, DownloadEffect DEF GraphInv, MediaInv
  <2>3. ASSUME (\E item \in Items : Begin(item)) \/ Content \/ RepostEvent \/ Abort \/ UNCHANGED vars
        PROVE  post' = post
    BY <2>3 DEF Begin, Content, RepostEvent, Abort, vars, tables
  <2>4. Extends(post, post)
    BY <2>0, ExtendsSelf
  <2>5. QED
    BY <2>1, <2>2, <2>3, <2>4 DEF Next, DownloadStep, Extends
<1>2. Better => \A t \in Tweets : post[t] # None =>
       /\ post'[t] # None
       /\ Rank(post'[t].quality, post'[t].timeline) >= Rank(post[t].quality, post[t].timeline)
       /\ post[t].timeline => post'[t].timeline
       /\ post[t].raw => post'[t].raw
       /\ post[t].author # Unknown => post'[t].author = post[t].author
       /\ post[t].ref # None => post'[t].ref # None
  BY DEF NoWorse
<1>3. QED
  BY <1>1, <1>2, InitGraphInv, NextGraphInv, PTL DEF Spec, NeverDegrades

-----------------------------------------------------------------------------
(***************************************************************************)
(* Reachability.                                                           *)
(***************************************************************************)
LEMMA LeastNat ==
  ASSUME NEW K, K \subseteq Nat, K # {}
  PROVE  \E k \in K : \A j \in K : k <= j
<1>1. PICK k \in K : \A j \in K : <<j, k>> \notin OpToRel(<, Nat)
  BY WFMin, NatLessThanWellFounded, Zenon
<1>2. \A j \in K : ~(j < k)
  BY <1>1, Zenon DEF OpToRel
<1>3. k \in Nat /\ \A j \in K : j \in Nat
  BY <1>1
<1>4. \A j \in K : k <= j
  BY <1>2, <1>3
<1>5. QED
  BY <1>1, <1>4

\* What a reader of smaller tables reaches is reached in larger ones.
LEMMA ReachableGrows ==
  ASSUME NEW P, NEW R, NEW O, NEW Q, NEW S, NEW N, O \subseteq N,
         O \subseteq Tweets,
         \A t \in Tweets : P[t] # None => Q[t] # None,
         \A t \in Tweets : P[t] # None /\ P[t].ref # None => Q[t].ref = P[t].ref,
         \A t \in Tweets : R[t] # None => S[t] # None /\ S[t].origin = R[t].origin
  PROVE  ReachableIn(P, R, O) \subseteq ReachableIn(Q, S, N)
<1>1. From(P, R, O) \subseteq From(Q, S, N)
  <2> SUFFICES ASSUME NEW x \in From(P, R, O) PROVE x \in From(Q, S, N)
    OBVIOUS
  <2>1. CASE x \in O /\ P[x] # None
    BY <2>1 DEF From
  <2>2. CASE \E t \in O : R[t] # None /\ x = R[t].origin
    <3>1. PICK t \in O : R[t] # None /\ x = R[t].origin
      BY <2>2
    <3>2. t \in N /\ S[t] # None /\ S[t].origin = x
      BY <3>1
    <3>3. QED
      BY <3>2 DEF From
  <2>3. QED
    BY <2>1, <2>2 DEF From
<1>2. ASSUME NEW T \in SUBSET Tweets, Refs(Q, T) \subseteq T
      PROVE  Refs(P, T) \subseteq T
  <2> SUFFICES ASSUME NEW x \in Refs(P, T) PROVE x \in T
    OBVIOUS
  <2>1. PICK t \in T : P[t] # None /\ x = P[t].ref /\ x # None
    BY DEF Refs
  <2>2. Q[t] # None /\ Q[t].ref = x
    BY <2>1
  <2>3. x \in Refs(Q, T)
    BY <2>1, <2>2 DEF Refs
  <2>4. QED
    BY <1>2, <2>3
<1>3. QED
  BY <1>1, <1>2 DEF ReachableIn

\* A chain that is stored is reached from its top.
LEMMA ChainReached ==
  ASSUME NEW item \in Items, NEW P, NEW R, NEW O,
         NEW next \in Nat, next > Len(item.posts), Chained(item, next, P, R),
         \A i \in DOMAIN item.posts : P[item.posts[i].id] # None,
         item.posts[Len(item.posts)].id \in From(P, R, O)
  PROVE  Chain(item, next) \subseteq ReachableIn(P, R, O)
<1> DEFINE n == Len(item.posts)
           id(i) == item.posts[i].id
<1>0. /\ n \in Nat \ {0} /\ DOMAIN item.posts = 1 .. n /\ \A i \in 1 .. n : id(i) \in Tweets
      /\ None \notin Tweets
  BY ItemFacts, StoreAssumption DEF Capture
<1>1. ASSUME NEW i \in 1 .. n, 1 < i
      PROVE  P[id(i)].ref = id(i - 1)
  <2>1. i \in DOMAIN item.posts /\ i < next
    BY <1>0
  <2>2. QED
    BY <1>1, <2>1 DEF Chained
<1>2. id(n) \in From(P, R, O) /\ \A i \in 1 .. n : P[id(i)] # None
  BY <1>0
<1> HIDE DEF n, id
<1>3. ASSUME NEW T \in SUBSET Tweets, From(P, R, O) \subseteq T, Refs(P, T) \subseteq T,
             NEW i \in 1 .. n, id(i) \notin T
      PROVE  FALSE
  <2> DEFINE K == {k \in Nat : k < n /\ id(n - k) \notin T}
  <2>1. n - i \in K
    <3>1. n - i \in Nat /\ n - i < n /\ n - (n - i) = i
      BY <1>0
    <3>2. QED
      BY <1>3, <3>1
  <2>2. K \subseteq Nat /\ K # {}
    BY <2>1
  <2>3. PICK k \in K : \A j \in K : k <= j
    BY <2>2, LeastNat
  <2>4. k \in Nat /\ k < n /\ id(n - k) \notin T
    OBVIOUS
  <2>5. k # 0
    <3>1. n - 0 = n
      BY <1>0
    <3>2. QED
      BY <1>2, <1>3, <2>4, <3>1
  <2>6. k - 1 \in Nat /\ k - 1 < n /\ ~(k <= k - 1)
    BY <1>0, <2>4, <2>5
  <2>7. id(n - (k - 1)) \in T
    BY <2>3, <2>6
  <2> DEFINE j == n - (k - 1)
  <2>8. j \in 1 .. n /\ 1 < j /\ j - 1 = n - k /\ n - k \in 1 .. n
    BY <1>0, <2>4, <2>5
  <2> HIDE DEF j
  <2>9. P[id(j)] # None /\ P[id(j)].ref = id(n - k) /\ id(n - k) # None
    BY <1>0, <1>1, <1>2, <2>8
  <2>10. id(n - k) \in Refs(P, T)
    BY <2>7, <2>9 DEF Refs, j
  <2>11. QED
    BY <1>3, <2>4, <2>10
<1>4. \A i \in 1 .. n : id(i) \in ReachableIn(P, R, O)
  BY <1>0, <1>3 DEF ReachableIn
<1>5. QED
  BY <1>0, <1>4 DEF Chain, id

\* A content step of an item that does not mislead leaves the way to every media
\* row from an observation or from the item.
LEMMA ContentReaching ==
  ASSUME ReachInv, Content, ~Misleads(tx.item)
  PROVE  Reaching'
<1> PICK item \in Items, i \in Nat \ {0}, c \in Capture, ref \in Tweets \cup {None},
         timeline \in BOOLEAN : i \in DOMAIN item.posts /\ Stored(item, i, c, ref, timeline)
  BY ContentEffect DEF ReachInv, GraphInv, MediaInv, StoreInv
<1> DEFINE P == tx.post
           Q == tx'.post
           id(j) == item.posts[j].id
<1>1. /\ tx # None /\ P \in PostTable /\ tx.media \in MediaTable /\ post \in PostTable
      /\ UNCHANGED <<post, repost, media>>
  BY DEF ReachInv, GraphInv, MediaInv, StoreInv, StoreTypeOK, Content, Transaction, tables
<1>2. /\ Chained(item, i, P, tx.repost)
      /\ \A t \in Tweets : post[t] # None /\ post[t].ref # None => P[t].ref = post[t].ref
      /\ \A t \in Tweets : repost[t] # None => tx.repost[t].origin = repost[t].origin
      /\ \A m \in Media : tx.media[m] # None => media[m] # None \/ Owner[m] \in Chain(item, i)
      /\ \A j \in DOMAIN item.posts : j >= i => P[id(j)] = post[id(j)]
  BY <1>1 DEF ReachInv, Reaching, Stored
<1>3. /\ c = item.posts[i] /\ ref = RefAt(item, i) /\ item = tx.item
      /\ tx'.item = item /\ tx'.next = i + 1
      /\ tx'.repost = tx.repost /\ tx'.media = Created(tx.media, c.media)
      /\ timeline = (item.event = None /\ i = Len(item.posts))
  BY DEF Stored
<1>4. /\ \A m \in c.media : Owner[m] = c.id
      /\ c.id \in Tweets /\ \A j \in DOMAIN item.posts : j \in Nat /\ id(j) \in Tweets
  BY <1>3, ItemFacts DEF Capture
<1>5. P[c.id] = post[c.id]
  BY <1>2, <1>3, <1>4
<1>6. ref # None /\ P[c.id] # None =>
        P[c.id].ref = ref \/ (P[c.id].ref = None /\ ~Worse(P[c.id], c, timeline))
  <2> SUFFICES ASSUME ref # None, P[c.id] # None
               PROVE  P[c.id].ref = ref \/ (P[c.id].ref = None /\ ~Worse(P[c.id], c, timeline))
    OBVIOUS
  <2>1. i \in DOMAIN item.posts \ {1} /\ ref = item.posts[i - 1].id
    BY <1>3, RefType
  <2>2. QED
    BY <1>3, <1>5, <2>1 DEF Misleads
<1>7. /\ \A t \in Tweets : t # c.id => Q[t] = P[t]
      /\ P[c.id] # None /\ P[c.id].ref # None => Q[c.id].ref = P[c.id].ref
      /\ ref # None => Q[c.id].ref = ref
  <2>1. CASE Worse(P[c.id], c, timeline) /\ Q = P
    BY <1>6, <2>1 DEF Worse
  <2>2. CASE /\ ~Worse(P[c.id], c, timeline)
             /\ Q = [P EXCEPT ![c.id] = Upserted(P[c.id], c, ref, timeline)]
    <3>1. \A t \in Tweets : t # c.id => Q[t] = P[t]
      BY <1>1, <2>2 DEF PostTable
    <3>2. Q[c.id] = Upserted(P[c.id], c, ref, timeline)
      BY <1>1, <1>4, <2>2 DEF PostTable
    <3>3. Q[c.id].ref = IF P[c.id] # None /\ ref = None THEN P[c.id].ref ELSE ref
      BY <3>2 DEF Upserted
    <3>4. QED
      BY <1>6, <3>1, <3>3
  <2>3. QED
    BY <2>1, <2>2 DEF Stored
<1>8. \A t \in Tweets : post[t] # None /\ post[t].ref # None => Q[t].ref = post[t].ref
  BY <1>2, <1>4, <1>5, <1>7
<1>9. Chain(item, i) \subseteq Chain(item, i + 1) /\ c.id \in Chain(item, i + 1)
  BY <1>3, <1>4 DEF Chain
<1>10. ASSUME NEW m \in Media, Created(tx.media, c.media)[m] # None
       PROVE  media[m] # None \/ Owner[m] \in Chain(item, i + 1)
  <2>1. m \in c.media \/ tx.media[m] # None
    BY <1>1, <1>10, CreatedType
  <2>2. QED
    BY <1>2, <1>4, <1>9, <2>1
<1>11. \A j \in DOMAIN item.posts : j # i => id(j) # c.id
  BY <1>2, <1>3 DEF Chained
<1>12. Chained(item, i + 1, Q, tx.repost)
  <2>1. ASSUME NEW j \in DOMAIN item.posts, 1 < j, j < i + 1
        PROVE  Q[id(j)].ref = item.posts[j - 1].id
    <3>1. CASE j = i
      <4>1. ref = item.posts[j - 1].id /\ ref # None
        BY <1>3, <2>1, <3>1, RefType
      <4>2. QED
        BY <1>3, <1>7, <3>1, <4>1
    <3>2. CASE j # i
      <4>1. j < i
        BY <1>4, <2>1, <3>2
      <4>2. P[id(j)].ref = item.posts[j - 1].id
        BY <1>2, <2>1, <4>1 DEF Chained
      <4>3. QED
        BY <1>4, <1>7, <1>11, <3>2, <4>2
    <3>3. QED
      BY <3>1, <3>2
  <2>2. i + 1 # Len(item.posts) + 2
    BY ItemFacts
  <2>3. QED
    BY <1>2, <2>1, <2>2 DEF Chained
<1>13. ASSUME NEW j \in DOMAIN item.posts, j >= i + 1
       PROVE  Q[id(j)] = post[id(j)]
  <2>1. j >= i /\ j # i
    BY <1>4, <1>13
  <2>2. QED
    BY <1>2, <1>4, <1>7, <1>11, <2>1
<1> HIDE DEF P, Q
<1>14. QED
  BY <1>1, <1>2, <1>3, <1>8, <1>10, <1>12, <1>13 DEF Reaching, Q

\* The repost event leads on to the post it repeats, and loses no other way.
LEMMA RepostReaching ==
  ASSUME ReachInv, RepostEvent, ~Misleads(tx.item)
  PROVE  Reaching'
<1> PICK item \in Items, e \in Event, origin \in Tweets : Reposting(item, e, origin)
  BY RepostEffect DEF ReachInv, GraphInv, MediaInv, StoreInv
<1> DEFINE n == Len(item.posts)
           R == tx.repost
           S == tx'.repost
<1>1. /\ tx # None /\ R \in RepostTable /\ UNCHANGED <<post, repost, media>>
  BY DEF ReachInv, GraphInv, MediaInv, StoreInv, StoreTypeOK, RepostEvent, Transaction, tables
<1>2. /\ item = tx.item /\ e = item.event /\ tx.next = n + 1 /\ origin = item.posts[n].id
      /\ (R[e.id] # None => R[e.id].origin = origin)
      /\ tx'.item = item /\ tx'.next = n + 2 /\ tx'.post = tx.post /\ tx'.media = tx.media
      /\ S = [R EXCEPT ![e.id] = [origin |-> origin, author |-> e.author, quality |-> e.quality]]
  BY DEF Reposting
<1>3. /\ Chained(item, n + 1, tx.post, R)
      /\ \A t \in Tweets : post[t] # None /\ post[t].ref # None => tx.post[t].ref = post[t].ref
      /\ \A t \in Tweets : repost[t] # None => R[t] # None /\ R[t].origin = repost[t].origin
      /\ \A m \in Media : tx.media[m] # None => media[m] # None \/ Owner[m] \in Chain(item, n + 1)
  BY <1>1, <1>2 DEF ReachInv, Reaching, GraphInv, Transient
<1>4. e.id \in Tweets
  BY DEF Event
<1>5. S[e.id].origin = origin /\ \A t \in Tweets : t # e.id => S[t] = R[t]
  BY <1>1, <1>2, <1>4 DEF RepostTable
<1>6. \A t \in Tweets : repost[t] # None => S[t].origin = repost[t].origin
  BY <1>2, <1>3, <1>5
<1>7. \A j \in DOMAIN item.posts : j < n + 1 /\ j < n + 2 /\ ~(j >= n + 2)
  BY ItemFacts
<1>8. Chain(item, n + 2) = Chain(item, n + 1)
  BY <1>7 DEF Chain
<1>9. Chained(item, n + 2, tx.post, S)
  BY <1>2, <1>3, <1>5, <1>7 DEF Chained
<1> HIDE DEF n, R, S
<1>10. QED
  BY <1>1, <1>2, <1>3, <1>6, <1>7, <1>8, <1>9 DEF Reaching, S

\* Once the item is observed, its whole chain is reached and what was reached
\* before.
LEMMA CommitReaching ==
  ASSUME ReachInv, Commit, ~Misleads(tx.item)
  PROVE  \A m \in Media : media'[m] # None =>
           Owner[m] \in Reachable' \/ (media[m] # None /\ Owner[m] \notin Reachable)
<1> DEFINE item == tx.item
           n == Len(item.posts)
<1>1. /\ tx \in Transaction /\ tx # None
      /\ tx.next = n + (IF item.event = None THEN 1 ELSE 2)
      /\ post' = tx.post /\ repost' = tx.repost /\ media' = tx.media
      /\ observed' = observed \cup {ItemId(item)} /\ observed \subseteq Tweets
  BY CommitEffect DEF ReachInv, GraphInv, MediaInv, StoreInv, StoreTypeOK, Commit
<1>2. Transient /\ Reaching /\ item \in Items /\ tx.next \in Nat
  BY <1>1 DEF ReachInv, GraphInv, Transaction
<1>3. n \in Nat \ {0} /\ n \in DOMAIN item.posts /\ DOMAIN item.posts = 1 .. n
  BY <1>2, ItemFacts
<1>4. tx.next > n /\ \A i \in DOMAIN item.posts : i < tx.next
  <2>1. tx.next = n + 1 \/ tx.next = n + 2
    BY <1>1
  <2> HIDE DEF n
  <2>2. QED
    BY <1>3, <2>1
<1>5. \A i \in DOMAIN item.posts : post'[item.posts[i].id] # None
  BY <1>1, <1>2, <1>4 DEF Transient, Written
<1>6. item.posts[n].id \in From(post', repost', observed')
  <2>1. CASE item.event = None
    <3>1. item.posts[n].id \in observed'
      BY <1>1, <2>1 DEF ItemId
    <3>2. QED
      BY <1>3, <1>5, <3>1 DEF From
  <2>2. CASE item.event # None
    <3>1. tx.next = n + 2
      BY <1>1, <2>2
    <3>2. item.event.id \in observed' /\ repost'[item.event.id] # None
      BY <1>1, <1>2, <2>2, <3>1 DEF ItemId, Transient, Written
    <3>3. repost'[item.event.id].origin = item.posts[n].id
      BY <1>1, <1>2, <3>1 DEF Reaching, Chained
    <3>4. QED
      BY <3>2, <3>3 DEF From
  <2>3. QED
    BY <2>1, <2>2
<1>7. Chained(item, tx.next, post', repost')
  BY <1>1, <1>2 DEF Reaching
<1> DEFINE P == post'
           R == repost'
           O == observed'
<1> HIDE DEF P, R, O
<1>8. Chain(item, tx.next) \subseteq ReachableIn(P, R, O)
  <2>1. /\ Chained(item, tx.next, P, R) /\ item.posts[Len(item.posts)].id \in From(P, R, O)
        /\ \A i \in DOMAIN item.posts : P[item.posts[i].id] # None
    BY <1>5, <1>6, <1>7 DEF P, R, O
  <2>2. QED
    BY <1>2, <1>4, <2>1, ChainReached
<1>9. ReachableIn(post, repost, observed) \subseteq ReachableIn(P, R, O)
  <2>1. /\ observed \subseteq O
        /\ \A t \in Tweets : post[t] # None => P[t] # None
        /\ \A t \in Tweets : post[t] # None /\ post[t].ref # None => P[t].ref = post[t].ref
        /\ \A t \in Tweets : repost[t] # None => R[t] # None /\ R[t].origin = repost[t].origin
    BY <1>1, <1>2 DEF P, R, O, Reaching, Transient, Extends, NoWorse
  <2>2. QED
    BY <1>1, <2>1, ReachableGrows
<1>10. Reachable = ReachableIn(post, repost, observed) /\ Reachable' = ReachableIn(P, R, O)
  BY DEF Reachable, ReachableIn, From, P, R, O
<1>11. \A m \in Media : media'[m] # None => media[m] # None \/ Owner[m] \in Chain(item, tx.next)
  BY <1>1, <1>2 DEF Reaching
<1>12. QED
  BY <1>8, <1>9, <1>10, <1>11

\* Every step keeps the ways of an item that does not mislead.
LEMMA NextReachInv == ReachInv /\ [Next]_vars => ReachInv'
<1> SUFFICES ASSUME ReachInv, [Next]_vars PROVE ReachInv'
  OBVIOUS
<1>0. GraphInv /\ GraphInv' /\ StoreTypeOK
  BY NextGraphInv DEF ReachInv, GraphInv, MediaInv, StoreInv
<1>1. ASSUME NEW item \in Items, Begin(item)
      PROVE  ReachInv'
  <2>1. /\ tx' \in Transaction /\ tx'.item = item /\ tx'.next = 1
        /\ tx'.post = post /\ tx'.repost = repost /\ tx'.media = media /\ Valid(item)
        /\ UNCHANGED <<post, repost, observed, media>>
    BY <1>0, <1>1, BeginEffect DEF tables
  <2>2. Chained(item, 1, post, repost)
    <3>1. \A i \in DOMAIN item.posts : i \in Nat /\ ~(1 < i /\ i < 1)
      BY ItemFacts
    <3>2. 1 # Len(item.posts) + 2
      BY ItemFacts
    <3>3. \A i, j \in DOMAIN item.posts : item.posts[i].id = item.posts[j].id => i = j
      BY <2>1 DEF Valid
    <3>4. QED
      BY <3>1, <3>2, <3>3 DEF Chained
  <2>3. Reaching'
    BY <2>1, <2>2 DEF Reaching
  <2>4. QED
    BY <1>0, <2>3 DEF ReachInv
<1>2. CASE Content
  <2>1. post' = post /\ tx'.item = tx.item /\ tx # None
    <3>1. PICK item \in Items, i \in Nat \ {0}, c \in Capture, ref \in Tweets \cup {None},
               timeline \in BOOLEAN : i \in DOMAIN item.posts /\ Stored(item, i, c, ref, timeline)
      BY <1>0, <1>2, ContentEffect
    <3>2. QED
      BY <1>2, <3>1 DEF Content, tables, Stored
  <2>2. ~Misleads(tx.item)' => ~Misleads(tx.item)
    BY <2>1 DEF Misleads, Worse
  <2>3. QED
    BY <1>0, <1>2, <2>2, ContentReaching DEF ReachInv
<1>3. CASE RepostEvent
  <2>1. post' = post /\ tx'.item = tx.item /\ tx # None
    <3>1. PICK item \in Items, e \in Event, origin \in Tweets : Reposting(item, e, origin)
      BY <1>0, <1>3, RepostEffect
    <3>2. QED
      BY <1>3, <3>1 DEF RepostEvent, tables, Reposting
  <2>2. ~Misleads(tx.item)' => ~Misleads(tx.item)
    BY <2>1 DEF Misleads, Worse
  <2>3. QED
    BY <1>0, <1>3, <2>2, RepostReaching DEF ReachInv
<1>4. ASSUME Commit \/ Abort
      PROVE  ReachInv'
  BY <1>0, <1>4 DEF Commit, Abort, ReachInv
<1>5. ASSUME NEW d \in Downloads, DownloadStep(d)
      PROVE  ReachInv'
  <2>1. /\ UNCHANGED <<post, repost, observed, tx>>
        /\ \A m \in Media : media[m] # None <=> media'[m] # None
    BY <1>0, <1>5, DownloadEffect DEF GraphInv, MediaInv
  <2>2. tx' # None /\ ~Misleads(tx.item)' => tx # None /\ ~Misleads(tx.item)
    BY <2>1 DEF Misleads, Worse
  <2>3. tx' # None /\ ~Misleads(tx.item)' => Reaching'
    BY <2>1, <2>2 DEF ReachInv, Reaching
  <2>4. QED
    BY <1>0, <2>3 DEF ReachInv
<1>6. CASE UNCHANGED vars
  <2>1. UNCHANGED <<post, repost, observed, media, tx>>
    BY <1>6 DEF vars, tables
  <2>2. tx' # None /\ ~Misleads(tx.item)' => tx # None /\ ~Misleads(tx.item)
    BY <2>1 DEF Misleads, Worse
  <2>3. tx' # None /\ ~Misleads(tx.item)' => Reaching'
    BY <2>1, <2>2 DEF ReachInv, Reaching
  <2>4. QED
    BY <1>0, <2>3 DEF ReachInv
<1>7. QED
  BY <1>1, <1>2, <1>3, <1>4, <1>5, <1>6 DEF Next, DownloadStep

\* Initially there is no transaction.
LEMMA InitReachInv == Init => ReachInv
BY InitGraphInv DEF Init, ReachInv

\* Whatever items the source returns, one that names no other reference than
\* the stored one and loses none to a better row leaves every media row it
\* stores within reach of an observation, and every one that was.
THEOREM StoreMediaReachable == Spec => MediaStayReachable
<1> DEFINE Kept ==
      \A m \in Media : media'[m] # None /\ Owner[m] \notin Reachable' =>
        \/ media[m] # None /\ Owner[m] \notin Reachable
        \/ tx # None /\ Misleads(tx.item)
<1>1. ReachInv /\ [Next]_vars => Kept
  <2> SUFFICES ASSUME ReachInv, [Next]_vars PROVE Kept
    OBVIOUS
  <2>1. ASSUME UNCHANGED <<post, repost, observed>>,
               \A m \in Media : media'[m] # None => media[m] # None
        PROVE  Kept
    <3>1. Reachable' = Reachable
      BY <2>1 DEF Reachable, Refs
    <3>2. QED
      BY <2>1, <3>1
  <2>2. CASE Commit
    <3>1. tx # None
      BY <2>2 DEF Commit
    <3>2. QED
      BY <2>2, <3>1, CommitReaching
  <2>3. ASSUME NEW d \in Downloads, DownloadStep(d)
        PROVE  Kept
    BY <2>1, <2>3, DownloadEffect DEF ReachInv, GraphInv, MediaInv
  <2>4. ASSUME (\E item \in Items : Begin(item)) \/ Content \/ RepostEvent \/ Abort \/ UNCHANGED vars
        PROVE  Kept
    <3>1. UNCHANGED tables
      BY <2>4 DEF Begin, Content, RepostEvent, Abort, vars
    <3>2. QED
      BY <2>1, <3>1 DEF tables
  <2>5. QED
    BY <2>2, <2>3, <2>4 DEF Next, DownloadStep
<1>2. ReachInv /\ [Next]_vars => ReachInv'
  BY NextReachInv
<1>3. QED
  BY <1>1, <1>2, InitReachInv, PTL DEF Spec, MediaStayReachable
=============================================================================
