---------------------------- MODULE SemanticStore ----------------------------
(***************************************************************************)
(* The semantic index of the CLI (internal/semantic): VLM results are      *)
(* uploaded in batches, each in one SQLite transaction under the mutex of  *)
(* the store; the text is embedded inside it, by the first provider that   *)
(* answers, and the thumbnails afterwards, by a goroutine per batch or by  *)
(* a backfill.  The process may be killed at any time; SQLite keeps what   *)
(* was committed.                                                          *)
(*                                                                         *)
(* A thumbnail stands for its image, and an image embedding is named by    *)
(* the thumbnail it was computed from; a text embedding by its provider.   *)
(***************************************************************************)
EXTENDS Naturals, FiniteSets, Sequences

CONSTANTS IndexTasks, Thumbnails,
          Uploads,        \* the requests that upload a batch (each once)
          BatchOf,        \* upload -> sequence of [task, thumb]
          MaxBackfills    \* bound: backfill requests

\* an item of a batch has a thumbnail or "" for none; the index is a finite table
ASSUME IndexAssumption ==
    /\ "nobody" \notin Uploads /\ "" \notin Thumbnails
    /\ BatchOf \in [Uploads -> Seq([task : IndexTasks, thumb : Thumbnails \cup {""}])]
    /\ IsFiniteSet(IndexTasks) /\ MaxBackfills \in Nat

VARIABLES rows,           \* the committed rows: task -> row or NoRow
          upload,         \* upload -> where it is, its next item, its own rows,
                          \* the images to embed (pendingImageTasks)
          storeLock,      \* the mutex of the store
          openTx,         \* the upload whose transaction is open
          imageJobs,      \* the goroutines: sequences of [task, thumb, emb] left
          backfills,      \* backfill requests so far
          embedUp,        \* does the embedding service answer?
          activeProvider, \* status.ActiveProvider
          committed       \* history: the uploads that were committed

indexVars == <<rows, upload, storeLock, openTx, imageJobs, backfills, embedUp,
               activeProvider, committed>>

NoRow == [thumb |-> "none", text |-> "none", image |-> "null", by |-> "nobody"]
Row == [thumb : Thumbnails \cup {""}, text : {"embed", "hash"},
        image : Thumbnails \cup {"null"}, by : Uploads]
ImageJob == [task : IndexTasks, thumb : Thumbnails, emb : BOOLEAN]
NotStarted == [pc |-> "new", at |-> 1, own |-> [t \in IndexTasks |-> NoRow], images |-> <<>>]

IndexTypeOK ==
    /\ rows \in [IndexTasks -> Row \cup {NoRow}]
    /\ upload \in [Uploads -> [pc : {"new", "item", "done", "lost"}, at : Nat,
                               own : [IndexTasks -> Row \cup {NoRow}], images : Seq(ImageJob)]]
    /\ \A u \in Uploads : upload[u].at \in 1..Len(BatchOf[u]) + 1
    /\ storeLock \in Uploads \cup {"nobody"}
    /\ openTx \in Uploads \cup {"nobody"}
    /\ DOMAIN imageJobs \subseteq Uploads \cup {"backfill"}
    /\ \A g \in DOMAIN imageJobs : imageJobs[g] \in Seq(ImageJob) \ {<<>>}
    /\ backfills \in 0..MaxBackfills
    /\ embedUp \in BOOLEAN
    /\ activeProvider \in {"embed", "hash"}
    /\ committed \subseteq Uploads

(* ConfigureProviderRuntime takes the first provider that is ready; the    *)
(* hash is last and always ready.                                          *)
FirstProvider(up) == IF up THEN "embed" ELSE "hash"

IndexInit ==
    /\ rows = [t \in IndexTasks |-> NoRow]
    /\ upload = [u \in Uploads |-> NotStarted]
    /\ storeLock = "nobody" /\ openTx = "nobody"
    /\ imageJobs = <<>>
    /\ backfills = 0
    /\ embedUp \in BOOLEAN
    /\ activeProvider = FirstProvider(embedUp)
    /\ committed = {}

-----------------------------------------------------------------------------
(* UpsertHistoryItems takes the mutex and begins the transaction. *)
UpsertBegins(u) ==
    /\ upload[u].pc = "new"
    /\ storeLock = "nobody" /\ openTx = "nobody"
    /\ storeLock' = u /\ openTx' = u
    /\ upload' = [upload EXCEPT ![u] = [pc |-> "item", at |-> 1, own |-> rows, images |-> <<>>]]
    /\ UNCHANGED <<rows, imageJobs, backfills, embedUp, activeProvider, committed>>

(* One item: its text is embedded while transaction and mutex are held; a *)
(* row that exists gets the new values but keeps its image embedding.      *)
Upserted(u) ==
    LET item == BatchOf[u][upload[u].at] IN
    [upload[u].own EXCEPT ![item.task] =
       [thumb |-> item.thumb, text |-> FirstProvider(embedUp),
        image |-> upload[u].own[item.task].image, by |-> u]]

\* an item with a thumbnail has its image embedded once the batch is committed
WithThumbnail(u) ==
    LET item == BatchOf[u][upload[u].at] IN
    IF item.thumb = "" THEN upload[u].images
    ELSE Append(upload[u].images, [task |-> item.task, thumb |-> item.thumb, emb |-> FALSE])

UpsertItem(u) ==
    /\ upload[u].pc = "item" /\ upload[u].at <= Len(BatchOf[u])
    /\ activeProvider' = FirstProvider(embedUp)
    /\ upload' = [upload EXCEPT ![u] = [pc |-> "item", at |-> @.at + 1, own |-> Upserted(u),
                                       images |-> WithThumbnail(u)]]
    /\ UNCHANGED <<rows, storeLock, openTx, imageJobs, backfills, embedUp, committed>>

(* Wrong variant of RolledBack: the deferred rollback sees another err. *)
LeftOpen == openTx

(* An INSERT fails: the deferred rollback sees the error. *)
RolledBack == "nobody"

UpsertFails(u) ==
    /\ upload[u].pc = "item" /\ upload[u].at <= Len(BatchOf[u])
    /\ upload' = [upload EXCEPT ![u] = [NotStarted EXCEPT !.pc = "lost"]]
    /\ storeLock' = "nobody"
    /\ openTx' = RolledBack
    /\ UNCHANGED <<rows, imageJobs, backfills, embedUp, activeProvider, committed>>

(* The commit, the release of the mutex, and the goroutine for the items   *)
(* with a thumbnail; or the commit fails.                                  *)
With(jobs, g, s) == [x \in DOMAIN jobs \cup {g} |-> IF x = g THEN s ELSE jobs[x]]
Without(jobs, g) == [x \in DOMAIN jobs \ {g} |-> jobs[x]]

UpsertCommits(u) ==
    /\ upload[u].pc = "item" /\ upload[u].at = Len(BatchOf[u]) + 1
    /\ storeLock' = "nobody" /\ openTx' = "nobody"
    /\ \/ /\ rows' = upload[u].own
          /\ committed' = committed \cup {u}
          /\ upload' = [upload EXCEPT ![u] = [NotStarted EXCEPT !.pc = "done"]]
          /\ imageJobs' = IF upload[u].images = <<>> THEN imageJobs
                                                     ELSE With(imageJobs, u, upload[u].images)
       \/ /\ upload' = [upload EXCEPT ![u] = [NotStarted EXCEPT !.pc = "lost"]]
          /\ UNCHANGED <<rows, committed, imageJobs>>
    /\ UNCHANGED <<backfills, embedUp, activeProvider>>

(* BackfillImageEmbeddings reads, without the mutex, the rows that have a *)
(* thumbnail and no image embedding, and embeds them one by one.           *)
Missing == {t \in IndexTasks : rows[t] # NoRow /\ rows[t].thumb # "" /\ rows[t].image = "null"}
Orders(S) == {s \in [1..Cardinality(S) -> S] : \A i, j \in DOMAIN s : s[i] = s[j] => i = j}

BackfillBegins ==
    /\ "backfill" \notin DOMAIN imageJobs
    /\ backfills < MaxBackfills
    /\ backfills' = backfills + 1
    /\ Missing # {}
    /\ \E order \in Orders(Missing) :
         imageJobs' = With(imageJobs, "backfill",
                           [i \in DOMAIN order |-> [task |-> order[i],
                                                    thumb |-> rows[order[i]].thumb, emb |-> FALSE]])
    /\ UNCHANGED <<rows, upload, storeLock, openTx, embedUp, activeProvider, committed>>

(* The service embeds the thumbnail of the first item, or fails and the    *)
(* item is left out.                                                       *)
ImageEmbeds(g) ==
    /\ ~Head(imageJobs[g]).emb
    /\ imageJobs' =
         IF embedUp THEN [imageJobs EXCEPT ![g] = <<[Head(@) EXCEPT !.emb = TRUE]>> \o Tail(@)]
         ELSE IF Len(imageJobs[g]) = 1 THEN Without(imageJobs, g)
         ELSE [imageJobs EXCEPT ![g] = Tail(@)]
    /\ UNCHANGED <<rows, upload, storeLock, openTx, backfills, embedUp, activeProvider, committed>>

(* UpsertImageEmbedding, under the mutex. *)
ImageStored(g) ==
    LET job == Head(imageJobs[g]) IN
    /\ job.emb
    /\ storeLock = "nobody"
    /\ rows' = IF rows[job.task] = NoRow THEN rows
                                         ELSE [rows EXCEPT ![job.task].image = job.thumb]
    /\ imageJobs' = IF Len(imageJobs[g]) = 1 THEN Without(imageJobs, g)
                                             ELSE [imageJobs EXCEPT ![g] = Tail(@)]
    /\ UNCHANGED <<upload, storeLock, openTx, backfills, embedUp, activeProvider, committed>>

(* A search by image that names a task stores the embedding of the image   *)
(* it searches with as that of the task, whichever image that is.          *)
SearchByImage(t, thumb) ==
    /\ storeLock = "nobody"
    /\ rows[t] # NoRow
    /\ rows' = [rows EXCEPT ![t].image = thumb]
    /\ UNCHANGED <<upload, storeLock, openTx, imageJobs, backfills, embedUp, activeProvider,
                   committed>>

EmbedFlips ==
    /\ embedUp' = ~embedUp
    /\ UNCHANGED <<rows, upload, storeLock, openTx, imageJobs, backfills, activeProvider, committed>>

(* The process is killed and started again. *)
IndexCrash ==
    /\ storeLock # "nobody" \/ imageJobs # <<>>
    /\ upload' = [u \in Uploads |-> IF upload[u].pc = "item"
                                      THEN [NotStarted EXCEPT !.pc = "lost"] ELSE upload[u]]
    /\ storeLock' = "nobody" /\ openTx' = "nobody"
    /\ imageJobs' = <<>>
    /\ activeProvider' = FirstProvider(embedUp)
    /\ UNCHANGED <<rows, backfills, embedUp, committed>>

IndexNext ==
    \/ \E u \in Uploads : UpsertBegins(u) \/ UpsertItem(u) \/ UpsertFails(u) \/ UpsertCommits(u)
    \/ \E g \in DOMAIN imageJobs : ImageEmbeds(g) \/ ImageStored(g)
    \/ \E t \in IndexTasks, thumb \in Thumbnails : SearchByImage(t, thumb)
    \/ BackfillBegins \/ EmbedFlips \/ IndexCrash

IndexSpec == IndexInit /\ [][IndexNext]_indexVars

-----------------------------------------------------------------------------
(* A batch is seen as a whole or not at all: no row comes from an upload   *)
(* that was not committed, and while the row of one of its items is still  *)
(* its own, every other item of the batch is in the index too.  A          *)
(* transaction is open only while its upload holds the mutex; one left     *)
(* open would refuse every later upload.                                   *)
BatchesAreWhole ==
    /\ \A t \in IndexTasks : rows[t] # NoRow =>
         /\ rows[t].by \in committed
         /\ \A i \in DOMAIN BatchOf[rows[t].by] : rows[BatchOf[rows[t].by][i].task] # NoRow
    /\ openTx # "nobody" => storeLock = openTx
=============================================================================
