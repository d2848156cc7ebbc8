------------------------------ MODULE BlobStore ------------------------------
(***************************************************************************)
(* Large files on a Runtime: core/blob_store.py behind the file routes     *)
(* (transport/server.py), with the client that streams a file to it and    *)
(* back (transport/client.py).                                             *)
(*                                                                         *)
(* The name of a blob is the digest of its content: no two contents of an  *)
(* instance share one, so a name is the content.  An upload suspends       *)
(* between chunks; from the last one to the answer it does not.  The       *)
(* directory outlives the process, uploads do not.  Contents are sequences *)
(* of chunks, each of the size of a unit.                                  *)
(***************************************************************************)
EXTENDS Naturals, Sequences

CONSTANTS
  Uploads,     \* requests to store a file, a client's second tries among them
  Downloads,   \* requests to read one
  Chunks,      \* what files are made of
  MaxBytes,    \* BlobStore._max_bytes
  MaxCrashes,  \* bound of the restarts
  None         \* no file

ASSUME BlobAssumption == MaxBytes \in Nat /\ MaxCrashes \in Nat

Contents == UNION {[1..n -> Chunks] : n \in 0..MaxBytes}

VARIABLES
  stored,    \* the blobs in the directory: name -> content
  temps,     \* the temporary file of each upload, or None
  upload,    \* of each upload: its state, and the digest the client claims
  received,  \* what was hashed of it
  complete,  \* uploads whose clients have sent everything
  download,  \* of each download: its state, the name asked for, what has come
  crashes,   \* restarts so far
  killed     \* history: uploads a restart has ended

vars == <<stored, temps, upload, received, complete, download, crashes, killed>>

Live(u) == upload[u].state = "receiving"

-----------------------------------------------------------------------------
\* save_stream.

\* The temporary file is named anew for every upload.
TempOf(u) == u

\* The client may state no digest, that of its file, or that of another file.
BeginUpload(u) ==
  /\ upload[u].state = "new"
  /\ \E claim \in {"none", "right", "wrong"} :
       upload' = [upload EXCEPT ![u] = [state |-> "receiving", claim |-> claim]]
  /\ temps' = [temps EXCEPT ![TempOf(u)] = <<>>]
  /\ UNCHANGED <<stored, received, complete, download, crashes, killed>>

\* The finally clause, whatever the outcome.
Cleaned(u, state) == [temps EXCEPT ![TempOf(u)] = None]

Ends(u, state) ==
  /\ upload' = [upload EXCEPT ![u].state = state]
  /\ temps' = Cleaned(u, state)
  /\ UNCHANGED <<received, complete, download, crashes, killed>>

ReceiveChunk(u, chunk) ==
  /\ Live(u) /\ u \notin complete
  /\ IF Len(received[u]) + 1 > MaxBytes
     THEN Ends(u, "refused")
     ELSE /\ received' = [received EXCEPT ![u] = Append(@, chunk)]
          /\ temps' = [temps EXCEPT ![TempOf(u)] = Append(@, chunk)]
          /\ UNCHANGED <<upload, complete, download, crashes, killed>>
  /\ UNCHANGED stored

\* The directory with one more blob, or with one replaced.
Moved(name, content) ==
  [n \in DOMAIN stored \cup {name} |-> IF n = name THEN content ELSE stored[n]]

\* (mutant of StreamBreaks: a stream that breaks off is taken for one that ends)
StreamBreaksUnseen(u) ==
  /\ Live(u)
  /\ stored' = Moved(received[u], temps[TempOf(u)])
  /\ Ends(u, "lost")

\* The client goes away, or a write fails.
StreamBreaks(u) ==
  /\ Live(u)
  /\ Ends(u, "failed")
  /\ UNCHANGED stored

SendsLast(u) ==
  /\ Live(u) /\ u \notin complete
  /\ complete' = complete \cup {u}
  /\ UNCHANGED <<stored, temps, upload, received, download, crashes, killed>>

Agrees(u) == upload[u].claim # "wrong"

\* (mutant of Finish: the file is copied to its place instead of moved)
FinishCopying(u) ==
  /\ Live(u) /\ u \in complete
  /\ LET name == received[u]
         there == IF name \in DOMAIN stored THEN stored[name] ELSE <<>>
     IN  IF ~Agrees(u) THEN Ends(u, "refused") /\ UNCHANGED stored
         ELSE IF there = name THEN Ends(u, "stored") /\ stored' = Moved(name, name)
         ELSE /\ stored' = Moved(name, IF name \in DOMAIN stored
                                       THEN Append(there, name[Len(there) + 1]) ELSE <<>>)
              /\ UNCHANGED <<temps, upload, received, complete, download, crashes, killed>>

\* The stream has ended: the digest is compared and the file moved to its name, which
\* replaces what is there.  The answer may be lost.
Finish(u) ==
  /\ Live(u) /\ u \in complete
  /\ IF Agrees(u)
     THEN /\ stored' = Moved(received[u], temps[TempOf(u)])
          /\ Ends(u, "stored") \/ Ends(u, "lost")
     ELSE /\ UNCHANGED stored
          /\ Ends(u, "refused")

-----------------------------------------------------------------------------
\* open_blob and download_file.

BeginDownload(d, name) ==
  /\ download[d].state = "new"
  /\ download' = [download EXCEPT ![d] =
       [state |-> IF name \in DOMAIN stored THEN "reading" ELSE "failed",
        name |-> name, got |-> <<>>,
        size |-> IF name \in DOMAIN stored THEN Len(stored[name]) ELSE 0]]
  /\ UNCHANGED <<stored, temps, upload, received, complete, crashes, killed>>

\* A chunk of the file, or its end: as many bytes as the answer announced.
ReadChunk(d) ==
  /\ download[d].state = "reading"
  /\ LET r == download[d]
         content == stored[r.name]
         n == Len(r.got)
     IN  download' = [download EXCEPT ![d] =
           IF n = r.size THEN [r EXCEPT !.state = "done"]
           ELSE IF n < Len(content) THEN [r EXCEPT !.got = Append(@, content[n + 1])]
           ELSE [r EXCEPT !.state = "failed"]]
  /\ UNCHANGED <<stored, temps, upload, received, complete, crashes, killed>>

\* The process ends and is started again: temporary files stay where they are.
Restart ==
  /\ crashes < MaxCrashes
  /\ crashes' = crashes + 1
  /\ killed' = killed \cup {u \in Uploads : Live(u)}
  /\ upload' = [u \in Uploads |-> IF Live(u) THEN [upload[u] EXCEPT !.state = "failed"]
                                            ELSE upload[u]]
  /\ download' = [d \in Downloads |->
       IF download[d].state = "reading" THEN [download[d] EXCEPT !.state = "failed"]
                                        ELSE download[d]]
  /\ UNCHANGED <<stored, temps, received, complete>>

-----------------------------------------------------------------------------
Init ==
  /\ stored = <<>>
  /\ temps = [u \in Uploads |-> None]
  /\ upload = [u \in Uploads |-> [state |-> "new", claim |-> "none"]]
  /\ received = [u \in Uploads |-> <<>>]
  /\ complete = {}
  /\ download = [d \in Downloads |-> [state |-> "new", name |-> <<>>, got |-> <<>>, size |-> 0]]
  /\ crashes = 0 /\ killed = {}

Next ==
  \/ \E u \in Uploads :
       BeginUpload(u) \/ StreamBreaks(u) \/ SendsLast(u) \/ Finish(u)
         \/ \E chunk \in Chunks : ReceiveChunk(u, chunk)
  \/ \E d \in Downloads : ReadChunk(d) \/ \E name \in Contents : BeginDownload(d, name)
  \/ Restart

Spec == Init /\ [][Next]_vars

-----------------------------------------------------------------------------
TypeOK ==
  /\ DOMAIN stored \subseteq Contents
  /\ \A u \in Uploads :
       /\ temps[u] = None \/ Len(temps[u]) <= MaxBytes
       /\ upload[u].state \in {"new", "receiving", "stored", "lost", "refused", "failed"}
       /\ upload[u].claim \in {"none", "right", "wrong"}
       /\ received[u] \in Contents
  /\ \A d \in Downloads :
       download[d].state \in {"new", "reading", "done", "failed"} /\ download[d].name \in Contents
  /\ complete \subseteq Uploads /\ killed \subseteq Uploads /\ crashes \in 0..MaxCrashes

\* Whatever uploads of one content or of several run at once, break off or are killed,
\* a blob in the directory is whole: it has the content it is named for, and somebody
\* has sent all of it (blob_store.py:70-82).
OnlyWholeBlobs ==
  \A name \in DOMAIN stored :
    /\ stored[name] = name
    /\ \E u \in complete : received[u] = name

\* What a client was told is stored is what it claimed, and stays stored, also after a
\* restart (blob_store.py:80-83; server.py:152-155).
AcknowledgedIsStored ==
  \A u \in Uploads :
    upload[u].state = "stored" => received[u] \in DOMAIN stored /\ upload[u].claim # "wrong"

\* A temporary file belongs to an upload that is being received, or to one that was
\* killed with the process: every other end of an upload removes it
\* (blob_store.py:84-85).
TempsAreOwned == \A u \in Uploads : temps[u] # None => Live(u) \/ u \in killed

\* The directory shows what clients have sent, all of it and nothing else.
StoreInv == TypeOK /\ OnlyWholeBlobs /\ AcknowledgedIsStored /\ TempsAreOwned

\* A download that ends without an error has brought the content it asked for, while
\* the same blob is uploaded again (client.py:130-137).
DownloadedIsWhole ==
  \A d \in Downloads : download[d].state = "done" => download[d].got = download[d].name
=============================================================================
