---------------------------- MODULE BlobStoreProofs ----------------------------
(***************************************************************************)
(* Theorems about BlobStore, for every set of uploads, downloads and       *)
(* chunks and every limit of a file.                                       *)
(***************************************************************************)
EXTENDS BlobStore, SequenceTheorems, TLAPS

UploadRecords ==
  [state : {"new", "receiving", "stored", "lost", "refused", "failed"},
   claim : {"none", "right", "wrong"}]

DownloadRecords ==
  [state : {"new", "reading", "done", "failed"}, name : Contents, got : Contents,
   size : 0..MaxBytes]

\* The whole type of each variable, where TypeOK says what TLC can read of it.
StoreTyped ==
  /\ DOMAIN stored \subseteq Contents
  /\ temps \in [Uploads -> Contents \cup {None}]
  /\ upload \in [Uploads -> UploadRecords]
  /\ received \in [Uploads -> Contents]
  /\ download \in [Downloads -> DownloadRecords]
  /\ complete \subseteq Uploads /\ killed \subseteq Uploads /\ crashes \in 0..MaxCrashes

\* What was hashed of an upload is what its temporary file holds, from nothing on.
HashedIsWritten ==
  \A u \in Uploads :
    /\ Live(u) => temps[u] = received[u]
    /\ upload[u].state = "new" => received[u] = <<>>

\* A download under way has a beginning of the content it asked for, and was told that
\* content's size.
ReadsWhatIsThere ==
  \A d \in Downloads :
    download[d].state \in {"reading", "done"} =>
      /\ download[d].name \in DOMAIN stored
      /\ download[d].size = Len(download[d].name)
      /\ Len(download[d].got) <= Len(download[d].name)
      /\ \A i \in 1..Len(download[d].got) : download[d].got[i] = download[d].name[i]
      /\ download[d].state = "done" => Len(download[d].got) = Len(download[d].name)

IInv ==
  /\ StoreTyped /\ HashedIsWritten /\ ReadsWhatIsThere
  /\ OnlyWholeBlobs /\ AcknowledgedIsStored /\ TempsAreOwned

-----------------------------------------------------------------------------
\* A content is a sequence of chunks that is not longer than the limit.
LEMMA ContentsAre ==
  \A c : c \in Contents <=> c \in Seq(Chunks) /\ Len(c) <= MaxBytes
<1>1. ASSUME NEW c \in Contents PROVE c \in Seq(Chunks) /\ Len(c) <= MaxBytes
  <2>1. PICK n \in 0..MaxBytes : c \in [1..n -> Chunks]
    BY DEF Contents
  <2>2. c \in Seq(Chunks) /\ Len(c) = n
    BY <2>1, BlobAssumption, IsASeq
  <2> QED
    BY <2>2, BlobAssumption
<1>2. ASSUME NEW c \in Seq(Chunks), Len(c) <= MaxBytes PROVE c \in Contents
  <2>1. c \in [1..Len(c) -> Chunks] /\ Len(c) \in 0..MaxBytes
    BY <1>2, LenProperties, BlobAssumption
  <2> QED
    BY <2>1 DEF Contents
<1> QED
  BY <1>1, <1>2

\* The empty file is a content, and so is one with another chunk within the limit.
LEMMA ContentsGrow ==
  /\ <<>> \in Contents
  /\ \A c \in Contents, chunk \in Chunks :
       Len(c) + 1 <= MaxBytes => Append(c, chunk) \in Contents
<1>1. <<>> \in Contents
  <2>1. <<>> \in Seq(Chunks) /\ Len(<<>>) = 0
    OBVIOUS
  <2>2. Len(<<>>) <= MaxBytes
    BY <2>1, BlobAssumption
  <2> QED
    BY <2>1, <2>2, ContentsAre, Zenon
<1>2. ASSUME NEW c \in Contents, NEW chunk \in Chunks, Len(c) + 1 <= MaxBytes
      PROVE  Append(c, chunk) \in Contents
  <2>1. c \in Seq(Chunks)
    BY ContentsAre
  <2>2. Append(c, chunk) \in Seq(Chunks) /\ Len(Append(c, chunk)) = Len(c) + 1
    BY <2>1, AppendProperties
  <2> QED
    BY <1>2, <2>2, ContentsAre
<1> QED
  BY <1>1, <1>2

\* How an upload ends: its temporary file is gone and its record says how.
LEMMA EndsType ==
  ASSUME StoreTyped, NEW u \in Uploads, Ends(u, "stored") \/ Ends(u, "lost")
                                       \/ Ends(u, "refused") \/ Ends(u, "failed")
  PROVE  /\ upload' \in [Uploads -> UploadRecords]
         /\ upload'[u].state \in {"stored", "lost", "refused", "failed"}
         /\ upload'[u].claim = upload[u].claim
         /\ temps' \in [Uploads -> Contents \cup {None}] /\ temps'[u] = None
         /\ \A v \in Uploads \ {u} : upload'[v] = upload[v] /\ temps'[v] = temps[v]
         /\ UNCHANGED <<received, complete, download, crashes, killed>>
<1>1. PICK s \in {"stored", "lost", "refused", "failed"} : Ends(u, s)
  OBVIOUS
<1>2. /\ upload' = [upload EXCEPT ![u].state = s] /\ temps' = [temps EXCEPT ![u] = None]
      /\ UNCHANGED <<received, complete, download, crashes, killed>>
  BY <1>1 DEF Ends, Cleaned, TempOf
<1>3. [upload[u] EXCEPT !.state = s] \in UploadRecords
  BY <1>1 DEF StoreTyped, UploadRecords
<1> QED
  BY <1>2, <1>3 DEF StoreTyped, UploadRecords

\* Every step keeps the types of the variables, and what was hashed is what was written.
LEMMA TypedStep == IInv /\ [Next]_vars => StoreTyped' /\ HashedIsWritten'
<1> SUFFICES ASSUME IInv, [Next]_vars PROVE StoreTyped' /\ HashedIsWritten'
  OBVIOUS
<1>a. StoreTyped /\ HashedIsWritten
  BY DEF IInv
<1> USE <1>a
<1>1. ASSUME NEW u \in Uploads, BeginUpload(u) PROVE StoreTyped' /\ HashedIsWritten'
  BY <1>1, ContentsGrow
     DEF BeginUpload, StoreTyped, UploadRecords, HashedIsWritten, Live, TempOf
<1>2. ASSUME NEW u \in Uploads, StreamBreaks(u) PROVE StoreTyped' /\ HashedIsWritten'
  <2>1. Ends(u, "failed") /\ UNCHANGED stored
    BY <1>2 DEF StreamBreaks
  <2> QED
    BY <2>1, EndsType DEF StoreTyped, HashedIsWritten, Live
<1>3. ASSUME NEW u \in Uploads, SendsLast(u) PROVE StoreTyped' /\ HashedIsWritten'
  BY <1>3 DEF SendsLast, StoreTyped, HashedIsWritten, Live
<1>4. ASSUME NEW u \in Uploads, Finish(u) PROVE StoreTyped' /\ HashedIsWritten'
  <2>1. DOMAIN stored' \subseteq Contents
    BY <1>4 DEF Finish, Moved, StoreTyped
  <2>2. Ends(u, "stored") \/ Ends(u, "lost") \/ Ends(u, "refused")
    BY <1>4 DEF Finish
  <2> QED
    BY <2>1, <2>2, EndsType DEF StoreTyped, HashedIsWritten, Live
<1>5. ASSUME NEW u \in Uploads, NEW chunk \in Chunks, ReceiveChunk(u, chunk)
      PROVE  StoreTyped' /\ HashedIsWritten'
  <2>1. CASE Ends(u, "refused")
    BY <1>5, <2>1, EndsType DEF ReceiveChunk, StoreTyped, HashedIsWritten, Live
  <2>2. CASE ~Ends(u, "refused")
    <3>1. /\ Len(received[u]) + 1 <= MaxBytes /\ Live(u) /\ temps[u] = received[u]
          /\ received' = [received EXCEPT ![u] = Append(@, chunk)]
          /\ temps' = [temps EXCEPT ![u] = Append(@, chunk)]
          /\ UNCHANGED <<stored, upload, complete, download, crashes, killed>>
      <4>1. received[u] \in Contents /\ Len(received[u]) \in Nat
        BY ContentsAre, LenProperties DEF StoreTyped
      <4> QED
        BY <1>5, <2>2, <4>1, BlobAssumption DEF ReceiveChunk, TempOf, HashedIsWritten
    <3>2. Append(received[u], chunk) \in Contents
      BY <3>1, ContentsGrow DEF StoreTyped
    <3>3. StoreTyped'
      BY <3>1, <3>2 DEF StoreTyped
    <3> QED
      BY <3>1, <3>3 DEF StoreTyped, HashedIsWritten, Live
  <2> QED
    BY <2>1, <2>2
<1>6. ASSUME NEW d \in Downloads, ReadChunk(d) PROVE StoreTyped' /\ HashedIsWritten'
  <2>1. download[d] \in DownloadRecords /\ download[d].state = "reading"
        /\ UNCHANGED <<stored, temps, upload, received, complete, crashes, killed>>
    BY <1>6 DEF ReadChunk, StoreTyped
  <2>2. download' \in [Downloads -> DownloadRecords]
    <3> DEFINE r == download[d]
               n == Len(r.got)
    <3>1. stored[r.name] = r.name /\ r.name \in Contents /\ r.got \in Contents
          /\ n <= Len(r.name) /\ n \in Nat /\ Len(r.name) \in Nat /\ Len(r.name) <= MaxBytes
      BY <2>1, ContentsAre, LenProperties
         DEF IInv, ReadsWhatIsThere, OnlyWholeBlobs, DownloadRecords
    <3>2. n < Len(r.name) => Append(r.got, r.name[n + 1]) \in Contents
      <4> SUFFICES ASSUME n < Len(r.name) PROVE Append(r.got, r.name[n + 1]) \in Contents
        OBVIOUS
      <4>1. r.name \in Seq(Chunks) /\ n + 1 \in 1..Len(r.name)
        BY <3>1, ContentsAre
      <4>2. r.name[n + 1] \in Chunks
        BY <4>1, ElementOfSeq
      <4> QED
        BY <3>1, <4>2, ContentsGrow, BlobAssumption
    <3>3. \/ download' = [download EXCEPT ![d] = [r EXCEPT !.state = "done"]]
          \/ download' = [download EXCEPT ![d] = [r EXCEPT !.state = "failed"]]
          \/ n < Len(r.name)
               /\ download' = [download EXCEPT ![d] =
                                [r EXCEPT !.got = Append(r.got, r.name[n + 1])]]
      <4>1. download' = [download EXCEPT ![d] =
              IF n = r.size THEN [r EXCEPT !.state = "done"]
              ELSE IF n < Len(stored[r.name])
                   THEN [r EXCEPT !.got = Append(r.got, stored[r.name][n + 1])]
              ELSE [r EXCEPT !.state = "failed"]]
        BY <1>6 DEF ReadChunk
      <4> QED
        BY <4>1, <3>1
    <3>4. /\ [r EXCEPT !.state = "done"] \in DownloadRecords
          /\ [r EXCEPT !.state = "failed"] \in DownloadRecords
      BY <2>1 DEF DownloadRecords
    <3>5. n < Len(r.name) => [r EXCEPT !.got = Append(r.got, r.name[n + 1])] \in DownloadRecords
      BY <2>1, <3>2 DEF DownloadRecords
    <3> HIDE DEF r, n
    <3> QED
      BY <3>3, <3>4, <3>5 DEF StoreTyped
  <2> QED
    BY <2>1, <2>2 DEF StoreTyped, HashedIsWritten, Live
<1>7. ASSUME NEW d \in Downloads, NEW name \in Contents, BeginDownload(d, name)
      PROVE  StoreTyped' /\ HashedIsWritten'
  <2>1. (IF name \in DOMAIN stored THEN Len(stored[name]) ELSE 0) \in 0..MaxBytes
    BY ContentsAre, LenProperties, BlobAssumption DEF IInv, OnlyWholeBlobs
  <2> QED
    BY <1>7, <2>1, ContentsGrow
       DEF BeginDownload, StoreTyped, DownloadRecords, HashedIsWritten, Live
<1>8. CASE Restart
  <2>1. /\ upload' \in [Uploads -> UploadRecords]
        /\ \A u \in Uploads : upload'[u].state # "receiving"
        /\ \A u \in Uploads : upload'[u].state = "new" => upload[u].state = "new"
    BY <1>8 DEF Restart, StoreTyped, UploadRecords, Live
  <2>2. download' \in [Downloads -> DownloadRecords]
    <3>1. ASSUME NEW d \in Downloads
          PROVE  [download[d] EXCEPT !.state = "failed"] \in DownloadRecords
      BY DEF StoreTyped, DownloadRecords
    <3> QED
      BY <1>8, <3>1 DEF Restart, StoreTyped
  <2>3. UNCHANGED <<stored, temps, received, complete>> /\ killed' \subseteq Uploads
        /\ crashes' \in 0..MaxCrashes
    BY <1>8, BlobAssumption DEF Restart, StoreTyped
  <2> QED
    BY <2>1, <2>2, <2>3 DEF StoreTyped, HashedIsWritten, Live
<1>9. CASE UNCHANGED vars
  BY <1>9 DEF vars, StoreTyped, HashedIsWritten, Live
<1> QED
  BY <1>1, <1>2, <1>3, <1>4, <1>5, <1>6, <1>7, <1>8, <1>9 DEF Next

\* What a client has sent in full stays what it is; a blob that is there stays there and
\* whole, and whatever is added is the file of an upload that has come to its end.
LEMMA BlobsStep == IInv /\ [Next]_vars => OnlyWholeBlobs' /\ DOMAIN stored \subseteq DOMAIN stored'
<1> SUFFICES ASSUME IInv, [Next]_vars
             PROVE  OnlyWholeBlobs' /\ DOMAIN stored \subseteq DOMAIN stored'
  OBVIOUS
<1>1. ASSUME NEW u \in Uploads, Finish(u)
      PROVE  OnlyWholeBlobs' /\ DOMAIN stored \subseteq DOMAIN stored'
  <2>1. u \in complete /\ temps[TempOf(u)] = received[u] /\ UNCHANGED <<complete, received>>
    BY <1>1 DEF Finish, Ends, IInv, HashedIsWritten, TempOf
  <2>2. stored' = Moved(received[u], received[u]) \/ UNCHANGED stored
    BY <1>1, <2>1 DEF Finish
  <2> QED
    BY <2>1, <2>2 DEF IInv, OnlyWholeBlobs, Moved
<1>2. ASSUME NEW u \in Uploads, NEW chunk \in Chunks, ReceiveChunk(u, chunk)
      PROVE  OnlyWholeBlobs' /\ DOMAIN stored \subseteq DOMAIN stored'
  <2>1. u \notin complete /\ UNCHANGED <<stored, complete>>
        /\ \A v \in Uploads \ {u} : received'[v] = received[v]
    BY <1>2 DEF ReceiveChunk, Ends, IInv, StoreTyped
  <2> QED
    BY <2>1 DEF IInv, StoreTyped, OnlyWholeBlobs
<1>3. ASSUME UNCHANGED <<stored, received>>, complete \subseteq complete'
      PROVE  OnlyWholeBlobs' /\ DOMAIN stored \subseteq DOMAIN stored'
  BY <1>3 DEF IInv, OnlyWholeBlobs
<1> QED
  BY <1>1, <1>2, <1>3
     DEF Next, BeginUpload, StreamBreaks, Ends, SendsLast, BeginDownload, ReadChunk, Restart, vars

\* Every step keeps what was acknowledged, and leaves no temporary file behind but of
\* an upload that goes on or was killed.
LEMMA UploadsStep == IInv /\ [Next]_vars => AcknowledgedIsStored' /\ TempsAreOwned'
<1> SUFFICES ASSUME IInv, [Next]_vars PROVE AcknowledgedIsStored' /\ TempsAreOwned'
  OBVIOUS
<1>a. /\ StoreTyped /\ AcknowledgedIsStored /\ TempsAreOwned
      /\ DOMAIN stored \subseteq DOMAIN stored'
  BY BlobsStep DEF IInv
<1> USE <1>a
<1>1. ASSUME NEW u \in Uploads, BeginUpload(u) PROVE AcknowledgedIsStored' /\ TempsAreOwned'
  <2>1. /\ \A v \in Uploads \ {u} : upload'[v] = upload[v] /\ temps'[v] = temps[v]
        /\ upload'[u].state = "receiving" /\ UNCHANGED <<received, killed>>
    BY <1>1 DEF BeginUpload, StoreTyped, TempOf
  <2> QED
    BY <2>1 DEF AcknowledgedIsStored, TempsAreOwned, Live
<1>2. ASSUME NEW u \in Uploads, StreamBreaks(u) PROVE AcknowledgedIsStored' /\ TempsAreOwned'
  <2>1. Ends(u, "failed") /\ upload'[u].state = "failed"
    BY <1>2 DEF StreamBreaks, Ends, StoreTyped, UploadRecords
  <2> QED
    BY <2>1, EndsType DEF AcknowledgedIsStored, TempsAreOwned, Live
<1>3. ASSUME NEW u \in Uploads, Finish(u) PROVE AcknowledgedIsStored' /\ TempsAreOwned'
  <2>1. Ends(u, "stored") \/ Ends(u, "lost") \/ Ends(u, "refused")
    BY <1>3 DEF Finish
  <2>2. upload'[u].state = "stored" => received[u] \in DOMAIN stored' /\ upload[u].claim # "wrong"
    BY <1>3 DEF Finish, Agrees, Moved, Ends, StoreTyped, UploadRecords
  <2> QED
    BY <2>1, <2>2, EndsType DEF AcknowledgedIsStored, TempsAreOwned, Live
<1>4. ASSUME NEW u \in Uploads, NEW chunk \in Chunks, ReceiveChunk(u, chunk)
      PROVE  AcknowledgedIsStored' /\ TempsAreOwned'
  <2>1. CASE Ends(u, "refused")
    <3>1. upload'[u].state = "refused"
      BY <2>1 DEF Ends, StoreTyped, UploadRecords
    <3> QED
      BY <2>1, <3>1, EndsType DEF AcknowledgedIsStored, TempsAreOwned, Live
  <2>2. CASE ~Ends(u, "refused")
    <3>1. /\ Live(u) /\ UNCHANGED <<upload, killed>>
          /\ \A v \in Uploads \ {u} : received'[v] = received[v] /\ temps'[v] = temps[v]
      BY <1>4, <2>2 DEF ReceiveChunk, StoreTyped, TempOf
    <3> QED
      BY <3>1 DEF AcknowledgedIsStored, TempsAreOwned, Live
  <2> QED
    BY <2>1, <2>2
<1>5. CASE Restart
  <2>1. /\ \A v \in Uploads : upload'[v].state = "stored" =>
             upload[v].state = "stored" /\ upload'[v].claim = upload[v].claim
        /\ \A v \in Uploads : Live(v) => v \in killed'
        /\ UNCHANGED <<received, temps>> /\ killed \subseteq killed'
    BY <1>5 DEF Restart, StoreTyped, UploadRecords, Live
  <2> QED
    BY <2>1 DEF AcknowledgedIsStored, TempsAreOwned
<1>6. ASSUME UNCHANGED <<upload, temps, received, killed>>
      PROVE  AcknowledgedIsStored' /\ TempsAreOwned'
  BY <1>6 DEF AcknowledgedIsStored, TempsAreOwned, Live
<1> QED
  BY <1>1, <1>2, <1>3, <1>4, <1>5, <1>6 DEF Next, SendsLast, BeginDownload, ReadChunk, vars

\* Every step of a download goes on from what it has, whatever is uploaded meanwhile.
LEMMA ReadsStep == IInv /\ [Next]_vars => ReadsWhatIsThere'
<1> SUFFICES ASSUME IInv, [Next]_vars, NEW e \in Downloads,
                    download'[e].state \in {"reading", "done"}
             PROVE  /\ download'[e].name \in DOMAIN stored'
                    /\ download'[e].size = Len(download'[e].name)
                    /\ Len(download'[e].got) <= Len(download'[e].name)
                    /\ \A i \in 1..Len(download'[e].got) :
                         download'[e].got[i] = download'[e].name[i]
                    /\ download'[e].state = "done" =>
                         Len(download'[e].got) = Len(download'[e].name)
  BY DEF ReadsWhatIsThere
<1>a. StoreTyped /\ ReadsWhatIsThere /\ OnlyWholeBlobs /\ DOMAIN stored \subseteq DOMAIN stored'
  BY BlobsStep DEF IInv
<1>b. /\ download[e].name \in Seq(Chunks) /\ download[e].got \in Seq(Chunks)
      /\ download[e] \in DownloadRecords
  BY <1>a, ContentsAre DEF StoreTyped, DownloadRecords
<1>1. CASE download'[e] = download[e]
  BY <1>1, <1>a DEF ReadsWhatIsThere
<1>2. CASE ReadChunk(e)
  <2> DEFINE r == download[e]
             n == Len(r.got)
  <2>1. /\ stored[r.name] = r.name /\ r.name \in DOMAIN stored /\ r.size = Len(r.name)
        /\ n <= Len(r.name) /\ n \in Nat /\ Len(r.name) \in Nat
        /\ \A i \in 1..n : r.got[i] = r.name[i]
    BY <1>2, <1>a, <1>b, LenProperties DEF ReadChunk, ReadsWhatIsThere, OnlyWholeBlobs
  <2>2. \/ n = r.size /\ download'[e] = [r EXCEPT !.state = "done"]
        \/ n < Len(r.name) /\ download'[e] = [r EXCEPT !.got = Append(r.got, r.name[n + 1])]
        \/ download'[e] = [r EXCEPT !.state = "failed"]
    BY <1>2, <1>a, <2>1 DEF ReadChunk, StoreTyped
  <2>3. CASE n = r.size /\ download'[e] = [r EXCEPT !.state = "done"]
    BY <2>1, <2>3, <1>a, <1>b DEF DownloadRecords
  <2>4. CASE n < Len(r.name) /\ download'[e] = [r EXCEPT !.got = Append(r.got, r.name[n + 1])]
    <3> DEFINE more == Append(r.got, r.name[n + 1])
    <3>1. /\ download'[e].got = more /\ download'[e].name = r.name
          /\ download'[e].size = r.size /\ download'[e].state = r.state
      BY <2>4, <1>b DEF DownloadRecords
    <3>2. r.name[n + 1] \in Chunks
      BY <2>1, <2>4, <1>b, ElementOfSeq
    <3>3. /\ Len(more) = n + 1 /\ more[n + 1] = r.name[n + 1]
          /\ \A i \in 1..n : more[i] = r.got[i]
      BY <3>2, <1>b, AppendProperties
    <3>4. \A i \in 1..Len(more) : more[i] = r.name[i]
      BY <2>1, <3>3
    <3>5. r.state = "reading"
      BY <1>2 DEF ReadChunk
    <3> HIDE DEF more
    <3> QED
      BY <2>1, <2>4, <3>1, <3>3, <3>4, <3>5, <1>a
  <2>5. CASE download'[e] = [r EXCEPT !.state = "failed"]
    BY <2>5, <1>b DEF DownloadRecords
  <2> QED
    BY <2>2, <2>3, <2>4, <2>5
<1>3. ASSUME NEW name \in Contents, BeginDownload(e, name)
      PROVE  /\ download'[e].name \in DOMAIN stored'
             /\ download'[e].size = Len(download'[e].name)
             /\ download'[e].got = <<>> /\ download'[e].state = "reading"
  BY <1>3, <1>a DEF BeginDownload, StoreTyped, OnlyWholeBlobs
<1>4. CASE Restart
  <2>1. download'[e].state # "reading" /\ download'[e] = download[e]
    BY <1>4, <1>b DEF Restart, DownloadRecords
  <2> QED
    BY <2>1, <1>1
<1>5. \/ download'[e] = download[e] \/ ReadChunk(e) \/ Restart
      \/ \E name \in Contents : BeginDownload(e, name)
  BY <1>a DEF Next, BeginUpload, StreamBreaks, SendsLast, Finish, ReceiveChunk, Ends,
              BeginDownload, ReadChunk, StoreTyped, vars
<1>6. ASSUME NEW name \in Contents, BeginDownload(e, name)
      PROVE  /\ Len(download'[e].got) <= Len(download'[e].name)
             /\ \A i \in 1..Len(download'[e].got) :
                  download'[e].got[i] = download'[e].name[i]
  <2>1. Len(download'[e].got) = 0 /\ Len(download'[e].name) \in Nat
    <3>1. download'[e].name = name /\ name \in Seq(Chunks)
      BY <1>6, <1>a, ContentsAre DEF BeginDownload, StoreTyped
    <3> QED
      BY <3>1, <1>3, <1>6, LenProperties
  <2> QED
    BY <2>1
<1> QED
  BY <1>1, <1>2, <1>3, <1>4, <1>5, <1>6

-----------------------------------------------------------------------------
\* The inductive invariant holds in every state.
LEMMA StoreIsKept == Spec => []IInv
<1>1. Init => IInv
  <2> SUFFICES ASSUME Init PROVE IInv
    OBVIOUS
  <2>1. DOMAIN stored = {}
    BY DEF Init
  <2>2. StoreTyped
    BY <2>1, ContentsGrow, BlobAssumption DEF Init, StoreTyped, UploadRecords, DownloadRecords
  <2> QED
    BY <2>1, <2>2
       DEF Init, IInv, HashedIsWritten, ReadsWhatIsThere, OnlyWholeBlobs,
           AcknowledgedIsStored, TempsAreOwned, Live
<1>2. IInv /\ [Next]_vars => IInv'
  BY TypedStep, BlobsStep, UploadsStep, ReadsStep DEF IInv
<1> QED
  BY <1>1, <1>2, PTL DEF Spec

\* The directory only ever shows whole blobs, keeps what it acknowledged and leaves
\* nothing behind but the files of killed uploads, for any number of uploads at once
\* (blob_store.py:64-85).
THEOREM StoreIsWhole == Spec => []StoreInv
<1>1. IInv => StoreInv
  <2> SUFFICES ASSUME IInv PROVE TypeOK
    BY DEF IInv, StoreInv
  <2>1. \A u \in Uploads : temps[u] = None \/ Len(temps[u]) <= MaxBytes
    BY ContentsAre DEF IInv, StoreTyped
  <2> QED
    BY <2>1 DEF IInv, StoreTyped, TypeOK, UploadRecords, DownloadRecords
<1> QED
  BY <1>1, StoreIsKept, PTL

\* A download that ends without an error has the content it asked for, of whatever
\* length (client.py:130-137).
THEOREM DownloadsAreWhole == Spec => []DownloadedIsWhole
<1>1. IInv => DownloadedIsWhole
  <2> SUFFICES ASSUME IInv, NEW d \in Downloads, download[d].state = "done"
               PROVE  download[d].got = download[d].name
    BY DEF DownloadedIsWhole
  <2>1. download[d].got \in Seq(Chunks) /\ download[d].name \in Seq(Chunks)
    BY ContentsAre DEF IInv, StoreTyped, DownloadRecords
  <2>2. /\ Len(download[d].got) = Len(download[d].name)
        /\ \A i \in 1..Len(download[d].got) : download[d].got[i] = download[d].name[i]
    BY DEF IInv, ReadsWhatIsThere
  <2> QED
    BY <2>1, <2>2, SeqEqual
<1> QED
  BY <1>1, StoreIsKept, PTL
=============================================================================
