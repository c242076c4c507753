------------------------------ MODULE Documents ------------------------------
(***************************************************************************)
(* What merchants of the booking example upload for the enquiry agent: the *)
(* handlers of surface/docs_upload.py over the files of                    *)
(* services/doc_chunk.py, and the worker's enquiries, which read the       *)
(* chunks (workflows/activities.py).                                       *)
(*                                                                         *)
(* An upload runs on the console's event loop, one at a time; deletions    *)
(* run in a thread pool, enquiries in another process, and no file has a   *)
(* lock: every file operation is a step.  A text is told by its length;    *)
(* all its words differ, and differ from those of other texts.             *)
(***************************************************************************)
EXTENDS Naturals, FiniteSets, FiniteSetsExt, Functions

CONSTANTS
  Docs,        \* names of files, ordered
  NoDoc,       \* no file of that name
  Texts,       \* what can be uploaded; 0 is a file without extractable text
  ChunkWords, OverlapWords,
  TopK,        \* chunks an enquiry takes along
  Deleters,    \* threads
  MaxUploads, MaxEnquiries, MaxCuts  \* bounds

ASSUME DocumentAssumption ==
  /\ Docs \subseteq Nat \ {0} /\ Texts \subseteq Nat /\ NoDoc \notin Texts
  /\ ChunkWords \in Nat /\ OverlapWords \in 0 .. ChunkWords - 1
  /\ TopK \in Nat \ {0}

VARIABLES
  original,  \* of each name: the text stored, or NoDoc
  dirs,      \* names with a directory of chunks
  chunks,    \* the chunk files of each name, by their numbers
  upload,    \* the upload under way
  delete,    \* each thread's deletion
  enquiry,   \* the worker's enquiry
  torn,      \* history: names whose last changes overlapped or were cut short
  uploads, enquiries, cuts

docVars == <<original, dirs, chunks, upload, delete, enquiry, torn, uploads, enquiries, cuts>>

NoChange == [pc |-> "idle", doc |-> 0, text |-> 0, next |-> 0, left |-> {}]

(* A stretch of a text: the words from one to another.                     *)
Stretch(t, first, last) == [text |-> t, first |-> first, last |-> last]
EmptyFile == Stretch(0, 1, 0)
Words(x)  == {<<x.text, w>> : w \in x.first .. x.last}

(* What a question quotes: one word more than two chunks share, or less at *)
(* the end of the text.                                                    *)
Quotes ==
  UNION {{Stretch(t, i, Min({t, i + OverlapWords})) : i \in 1 .. t} : t \in Texts}

(* chunk_text: windows that overlap, until one reaches the end.            *)
Stride == ChunkWords - OverlapWords
Windows(t) ==
  [i \in {n \in 0 .. t - 1 : n = 0 \/ (n - 1) * Stride + ChunkWords < t} |->
     Stretch(t, i * Stride + 1, Min({i * Stride + ChunkWords, t}))]

NoEnquiry == [pc |-> "idle", asks |-> EmptyFile, docs |-> {}, files |-> {}, scored |-> {},
              clean |-> FALSE]
Changing(d) == upload.doc = d \/ \E h \in Deleters : delete[h].doc = d
(* A change of a document begins; an enquiry under way has met it.         *)
Begins(d) ==
  /\ torn' = IF Changing(d) THEN torn \cup {d} ELSE torn \ {d}
  /\ enquiry' = [enquiry EXCEPT !.clean = FALSE]

DocInit ==
  /\ original = [d \in Docs |-> NoDoc] /\ dirs = {} /\ chunks = [d \in Docs |-> <<>>]
  /\ upload = NoChange /\ delete = [h \in Deleters |-> NoChange]
  /\ enquiry = NoEnquiry /\ torn = {}
  /\ uploads = 0 /\ enquiries = 0 /\ cuts = 0

---------------------------------------------------------------------------
(* upload_doc.                                                             *)

UploadAt(pc) == upload.pc = pc
UploadGo(pc) == upload' = [upload EXCEPT !.pc = pc]
Bounds       == <<uploads, enquiries, cuts>>

(* The file is written over the one of that name.                          *)
WriteOriginal(d, t) ==
  /\ UploadAt("idle") /\ uploads < MaxUploads /\ uploads' = uploads + 1
  /\ Begins(d)
  /\ original' = [original EXCEPT ![d] = t]
  /\ upload' = [NoChange EXCEPT !.pc = "extract", !.doc = d, !.text = t]
  /\ UNCHANGED <<dirs, chunks, delete, enquiries, cuts>>

(* Variant: the new chunks are written over the old ones.                  *)
ExtractOnly ==
  /\ UploadAt("extract")
  /\ IF original[upload.doc] = NoDoc THEN upload' = NoChange /\ UNCHANGED original
     ELSE IF upload.text = 0
     THEN UploadGo("scan") /\ original' = [original EXCEPT ![upload.doc] = NoDoc]
     ELSE UploadGo("mkdir") /\ UNCHANGED original
  /\ UNCHANGED <<dirs, chunks, delete, enquiry, torn, Bounds>>

(* extract_text.  Without a text the upload is taken back; without the     *)
(* file it is an error.                                                    *)
Extract ==
  /\ UploadAt("extract")
  /\ IF original[upload.doc] = NoDoc THEN upload' = NoChange /\ UNCHANGED original
     ELSE IF upload.text = 0
     THEN UploadGo("scan") /\ original' = [original EXCEPT ![upload.doc] = NoDoc]
     ELSE UploadGo("scan") /\ UNCHANGED original
  /\ UNCHANGED <<dirs, chunks, delete, enquiry, torn, Bounds>>

(* remove_chunks: rmtree lists the directory, removes what it found and    *)
(* then the directory if nothing is left in it; it ignores every error.    *)
Listing(d)        == DOMAIN chunks[d]
UnlinkChunk(d, i) == chunks' = [chunks EXCEPT ![d] = Restrict(@, DOMAIN @ \ {i})]
RemoveDir(d)      == dirs' = IF Listing(d) = {} THEN dirs \ {d} ELSE dirs

UploadRemoves ==
  /\ \/ /\ UploadAt("scan") /\ UNCHANGED <<dirs, chunks>>
        /\ upload' = [upload EXCEPT !.pc = "unlink", !.left = Listing(upload.doc)]
     \/ \E i \in upload.left :
          /\ UploadAt("unlink") /\ UnlinkChunk(upload.doc, i) /\ UNCHANGED dirs
          /\ upload' = [upload EXCEPT !.left = @ \ {i}]
     \/ /\ UploadAt("unlink") /\ upload.left = {}
        /\ RemoveDir(upload.doc) /\ UNCHANGED chunks
        /\ IF upload.text = 0 THEN upload' = NoChange ELSE UploadGo("mkdir")
  /\ UNCHANGED <<original, delete, enquiry, torn, Bounds>>

MakeDir ==
  /\ UploadAt("mkdir") /\ UploadGo("open")
  /\ dirs' = dirs \cup {upload.doc}
  /\ UNCHANGED <<original, chunks, delete, enquiry, torn, Bounds>>

(* write_text of each chunk: the file is emptied or made, then filled if   *)
(* it is still there.  In a directory that has gone it cannot be made.     *)
OpenChunk ==
  /\ UploadAt("open")
  /\ IF upload.doc \in dirs
     THEN UploadGo("fill") /\ chunks' = [chunks EXCEPT ![upload.doc] =
            [i \in DOMAIN @ \cup {upload.next} |-> IF i = upload.next THEN EmptyFile ELSE @[i]]]
     ELSE upload' = NoChange /\ UNCHANGED chunks
  /\ UNCHANGED <<original, dirs, delete, enquiry, torn, Bounds>>

FillChunk ==
  LET d == upload.doc  i == upload.next IN
  /\ UploadAt("fill")
  /\ chunks' = IF i \in Listing(d) THEN [chunks EXCEPT ![d][i] = Windows(upload.text)[i]] ELSE chunks
  /\ upload' = IF i + 1 \in DOMAIN Windows(upload.text)
               THEN [upload EXCEPT !.pc = "open", !.next = i + 1] ELSE NoChange
  /\ UNCHANGED <<original, dirs, delete, enquiry, torn, Bounds>>

---------------------------------------------------------------------------
(* delete_doc.                                                             *)

DeleteStep(h, from, r) == delete[h].pc = from /\ delete' = [delete EXCEPT ![h] = r]

(* The file is there, otherwise it answers 404.                            *)
FindOriginal(h, d) ==
  /\ original[d] # NoDoc /\ Begins(d)
  /\ DeleteStep(h, "idle", [NoChange EXCEPT !.pc = "original", !.doc = d])
  /\ UNCHANGED <<original, dirs, chunks, upload, Bounds>>

UnlinkOriginal(h) ==
  LET d == delete[h].doc  there == original[d] # NoDoc IN
  /\ delete[h].pc = "original"
  /\ original' = IF there THEN [original EXCEPT ![d] = NoDoc] ELSE original
  /\ delete' = [delete EXCEPT ![h] = IF there THEN [@ EXCEPT !.pc = "scan"] ELSE NoChange]
  /\ UNCHANGED <<dirs, chunks, upload, enquiry, torn, Bounds>>

DeleteRemoves(h) ==
  LET d == delete[h].doc IN
  /\ \/ /\ DeleteStep(h, "scan", [delete[h] EXCEPT !.pc = "unlink", !.left = Listing(d)])
        /\ UNCHANGED <<dirs, chunks>>
     \/ \E i \in delete[h].left :
          /\ DeleteStep(h, "unlink", [delete[h] EXCEPT !.left = @ \ {i}])
          /\ UnlinkChunk(d, i) /\ UNCHANGED dirs
     \/ /\ DeleteStep(h, "unlink", NoChange) /\ delete[h].left = {}
        /\ RemoveDir(d) /\ UNCHANGED chunks
  /\ UNCHANGED <<original, upload, enquiry, torn, Bounds>>

(* The console dies.                                                       *)
CutShort ==
  /\ cuts < MaxCuts /\ cuts' = cuts + 1 /\ \E d \in Docs : Changing(d)
  /\ torn' = torn \cup {d \in Docs : Changing(d)}
  /\ upload' = NoChange /\ delete' = [h \in Deleters |-> NoChange]
  /\ UNCHANGED <<original, dirs, chunks, enquiry, uploads, enquiries>>

---------------------------------------------------------------------------
(* top_chunks, in the worker.                                              *)

Settled == torn = {} /\ \A d \in Docs : ~Changing(d)

(* A question quotes a passage; the directories are listed.                *)
Enquire(p) ==
  /\ enquiry.pc \in {"idle", "answered"} /\ enquiries < MaxEnquiries
  /\ enquiries' = enquiries + 1
  /\ enquiry' = [NoEnquiry EXCEPT !.pc = "glob", !.asks = p, !.clean = Settled,
                   !.docs = dirs]
  /\ UNCHANGED <<original, dirs, chunks, upload, delete, torn, uploads, cuts>>

(* The chunk files of the next document.                                   *)
Glob ==
  /\ enquiry.pc = "glob"
  /\ enquiry' = IF enquiry.docs = {} THEN [enquiry EXCEPT !.pc = "rank"]
                ELSE LET d == Min(enquiry.docs) IN
                     [enquiry EXCEPT !.pc = "read", !.docs = @ \ {d},
                        !.files = {<<d, i>> : i \in Listing(d)}]
  /\ UNCHANGED <<original, dirs, chunks, upload, delete, torn, Bounds>>

(* A chunk and its score, unless that is zero.                             *)
Score(x)  == Cardinality(Words(x) \cap Words(enquiry.asks))
Scored(f) == LET x == chunks[f[1]][f[2]] IN
             IF Score(x) = 0 THEN {} ELSE {<<Score(x), f, x>>}

(* A file that has gone raises: the activity fails, to be tried again.     *)
ReadChunk ==
  /\ enquiry.pc = "read"
  /\ \/ /\ enquiry.files = {} /\ enquiry' = [enquiry EXCEPT !.pc = "glob"]
     \/ \E f \in enquiry.files :
          /\ \A g \in enquiry.files : f[2] <= g[2]
          /\ enquiry' = IF f[2] \in Listing(f[1])
                        THEN [enquiry EXCEPT !.files = @ \ {f}, !.scored = @ \cup Scored(f)]
                        ELSE NoEnquiry
  /\ UNCHANGED <<original, dirs, chunks, upload, delete, torn, Bounds>>

(* The best by score; among equals the sort keeps the order of reading.    *)
(* Files are read in the order of their names, which are texts: from the   *)
(* eleventh chunk on the model's order among equals is not the code's.     *)
Before(a, b) ==
  \/ a[1] > b[1]
  \/ a[1] = b[1] /\ a[2][1] < b[2][1]
  \/ a[1] = b[1] /\ a[2][1] = b[2][1] /\ a[2][2] < b[2][2]
TopRanked(scored) == {a \in scored : Cardinality({b \in scored : Before(b, a)}) < TopK}

Rank ==
  /\ enquiry.pc = "rank"
  /\ enquiry' = [enquiry EXCEPT !.pc = "answered", !.scored = TopRanked(@)]
  /\ UNCHANGED <<original, dirs, chunks, upload, delete, torn, Bounds>>

EnquiryStep == Glob \/ ReadChunk \/ Rank

DocNext ==
  \/ \E d \in Docs, t \in Texts : WriteOriginal(d, t)
  \/ Extract \/ UploadRemoves \/ MakeDir \/ OpenChunk \/ FillChunk
  \/ \E h \in Deleters :
       \/ \E d \in Docs : FindOriginal(h, d)
       \/ UnlinkOriginal(h) \/ DeleteRemoves(h)
  \/ CutShort
  \/ \E p \in Quotes : Enquire(p)
  \/ EnquiryStep

DocSpec == DocInit /\ [][DocNext]_docVars

---------------------------------------------------------------------------
(* "chunks with overlap", "Zero-overlap chunks are dropped": an enquiry    *)
(* that no change overlapped, over documents whose last change ran alone   *)
(* to its end, finds a chunk with all of a quoted passage no longer than   *)
(* the overlap and a word if a document has it, and nothing at all if no   *)
(* stored document does: what was deleted, replaced or refused is silent.  *)
QuotesAreFound ==
  enquiry.pc = "answered" /\ enquiry.clean =>
    IF \E d \in Docs : original[d] = enquiry.asks.text
    THEN \E s \in enquiry.scored : Words(enquiry.asks) \subseteq Words(s[3])
    ELSE enquiry.scored = {}

=============================================================================
