----------------------------- MODULE StreamGzip -----------------------------
(***************************************************************************)
(* streamGzip (src/internal/s3/emit.go): a goroutine writes records        *)
(* through a hash and gzip into an io.Pipe, the caller uploads what comes  *)
(* out of it to S3.  Either side may fail at any point.                    *)
(*                                                                         *)
(* External: gzip, which flushes what it has buffered when it likes and a  *)
(* footer when closed; the pipe, whose writes block until they are read or *)
(* the reader is closed; the uploader, which publishes what it has read    *)
(* when it reads the end of the pipe, and aborts when it reads an error.   *)
(***************************************************************************)
EXTENDS Naturals, Sequences

CONSTANT N   \* the records of the payload

ASSUME NAssumption == N \in Nat

Footer  == 0
Payload == [i \in 1..N |-> i]
Object  == Append(Payload, Footer)
Old     == <<N + 1>>          \* what the key holds before: no such record

VARIABLES
  wpc,      \* the writer: "encode", "blocked", "footer", "flushing", "close", "done"
  next,     \* the records it has taken
  werr,     \* retErr: "none", or why the payload is not whole
  buf,      \* what gzip has buffered
  hash,     \* what the hash has seen
  slot,     \* the write the pipe holds until it is read
  wend,     \* the writing end of the pipe: "open", "eof", "error"
  rend,     \* its reading end: "open", "error"
  upload,   \* the uploader: "reading", "ok", "failed"
  got,      \* what it has read
  store,    \* the object at the key
  result    \* what streamGzip returned: "none", "ok", "error"

writerVars == <<wpc, next, werr, buf, hash>>
vars == <<writerVars, slot, wend, rend, upload, got, store, result>>

Symbols == 0..N

TypeOK ==
  /\ wpc \in {"encode", "blocked", "footer", "flushing", "close", "done"}
  /\ next \in 0..N
  /\ werr \in {"none", "payload", "pipe"}
  /\ buf \in Seq(Symbols) /\ hash \in Seq(Symbols) /\ slot \in Seq(Symbols)
  /\ wend \in {"open", "eof", "error"} /\ rend \in {"open", "error"}
  /\ upload \in {"reading", "ok", "failed"}
  /\ got \in Seq(Symbols) /\ store \in Seq(Symbols) \cup {Old}
  /\ result \in {"none", "ok", "error"}

Init ==
  /\ wpc = "encode" /\ next = 0 /\ werr = "none"
  /\ buf = <<>> /\ hash = <<>> /\ slot = <<>>
  /\ wend = "open" /\ rend = "open"
  /\ upload = "reading" /\ got = <<>> /\ store = Old /\ result = "none"

-----------------------------------------------------------------------------
(* The writer: writeGzip and encodeNDJSON.                                 *)

pipeAndMain == <<wend, rend, upload, got, store, result>>

\* A record goes to gzip first and to the hash when gzip has taken it; gzip
\* may have to write to the pipe before it does.
Encode ==
  /\ wpc = "encode" /\ next < N
  /\ next' = next + 1
  /\ \/ /\ buf' = Append(buf, next + 1)
        /\ hash' = Append(hash, next + 1)
        /\ UNCHANGED <<wpc, slot>>
     \/ /\ slot' = Append(buf, next + 1)
        /\ buf' = <<>>
        /\ wpc' = "blocked"
        /\ UNCHANGED hash
  /\ UNCHANGED <<werr, pipeAndMain>>

\* The pipe write of a record returns.
Written ==
  /\ wpc = "blocked" /\ slot = <<>>
  /\ hash' = Append(hash, next)
  /\ wpc' = "encode"
  /\ UNCHANGED <<next, werr, buf, slot, pipeAndMain>>

Encoded ==
  /\ wpc = "encode" /\ next = N
  /\ wpc' = "footer"
  /\ UNCHANGED <<next, werr, buf, hash, slot, pipeAndMain>>

\* A record does not marshal, or its MarshalJSON panics: the recover turns
\* either into retErr, before gzip and the pipe are closed.
PayloadFails ==
  /\ wpc = "encode" /\ next < N
  /\ werr' = "payload"
  /\ wpc' = "footer"
  /\ UNCHANGED <<next, buf, hash, slot, pipeAndMain>>

\* gw.Close writes the footer, of a failed payload too.
Footed ==
  /\ wpc = "footer"
  /\ slot' = Append(buf, Footer)
  /\ buf' = <<>>
  /\ wpc' = "flushing"
  /\ UNCHANGED <<next, werr, hash, pipeAndMain>>

Flushed ==
  /\ wpc = "flushing" /\ slot = <<>>
  /\ wpc' = "close"
  /\ UNCHANGED <<next, werr, buf, hash, slot, pipeAndMain>>

\* The reader is closed under a pipe write.  gzip remembers the error: its
\* Close returns it without another write.
PipeBroken ==
  /\ wpc \in {"blocked", "flushing"} /\ slot # <<>> /\ rend = "error"
  /\ werr' = IF werr = "none" THEN "pipe" ELSE werr
  /\ slot' = <<>>
  /\ wpc' = "close"
  /\ UNCHANGED <<next, buf, hash, pipeAndMain>>

\* Mutant: the pipe is always closed as if the payload were whole.
ClosePipeSilently ==
  /\ wpc = "close"
  /\ wend' = "eof"
  /\ wpc' = "done"
  /\ UNCHANGED <<next, werr, buf, hash, slot, rend, upload, got, store, result>>

\* Mutant: the pipe is closed with retErr as it is.
ClosePipeRaw ==
  /\ wpc = "close"
  /\ wend' = werr
  /\ wpc' = "done"
  /\ UNCHANGED <<next, werr, buf, hash, slot, rend, upload, got, store, result>>

\* The last deferred function; then the channel gets retErr.
ClosePipe ==
  /\ wpc = "close"
  /\ wend' = IF werr = "none" THEN "eof" ELSE "error"
  /\ wpc' = "done"
  /\ UNCHANGED <<next, werr, buf, hash, slot, rend, upload, got, store, result>>

Writer == Encode \/ Written \/ Encoded \/ PayloadFails \/ Footed \/ Flushed
          \/ PipeBroken \/ ClosePipe

-----------------------------------------------------------------------------
(* The uploader, and streamGzip around it.                                 *)

ReadPipe ==
  /\ upload = "reading" /\ slot # <<>>
  /\ got' = got \o slot
  /\ slot' = <<>>
  /\ UNCHANGED <<writerVars, wend, rend, upload, store, result>>

\* The end of the pipe: the object is published, and the answer may be lost.
Publish ==
  /\ upload = "reading" /\ slot = <<>> /\ wend = "eof"
  /\ store' = got
  /\ upload' \in {"ok", "failed"}
  /\ UNCHANGED <<writerVars, slot, wend, rend, got, result>>

\* The error of the pipe aborts the upload.
AbortUpload ==
  /\ upload = "reading" /\ slot = <<>> /\ wend = "error"
  /\ upload' = "failed"
  /\ UNCHANGED <<writerVars, slot, wend, rend, got, store, result>>

\* The context is cancelled, a part is refused, the connection breaks.
UploadFails ==
  /\ upload = "reading"
  /\ upload' = "failed"
  /\ UNCHANGED <<writerVars, slot, wend, rend, got, store, result>>

\* Mutant: nobody unblocks the writer.
ReaderLeftOpen == FALSE /\ UNCHANGED vars

\* A failed upload closes the reader, which unblocks the writer.
CloseReader ==
  /\ upload = "failed" /\ rend = "open"
  /\ rend' = "error"
  /\ UNCHANGED <<writerVars, slot, wend, upload, got, store, result>>

\* Mutant: the error of the upload is forgotten.
ReturnWriterOnly ==
  /\ result = "none" /\ wpc = "done"
  /\ upload = "ok" \/ (upload = "failed" /\ rend = "error")
  /\ result' = IF werr = "none" THEN "ok" ELSE "error"
  /\ UNCHANGED <<writerVars, slot, wend, rend, upload, got, store>>

\* Both have ended: either's error is the error of the emit.
Return ==
  /\ result = "none" /\ wpc = "done"
  /\ upload = "ok" \/ (upload = "failed" /\ rend = "error")
  /\ result' = IF upload = "ok" /\ werr = "none" THEN "ok" ELSE "error"
  /\ UNCHANGED <<writerVars, slot, wend, rend, upload, got, store>>

Uploader == ReadPipe \/ Publish \/ AbortUpload \/ UploadFails

Next == Writer \/ Uploader \/ CloseReader \/ Return

Spec == Init /\ [][Next]_vars

\* The goroutine, the uploader and the caller run.
Fairness == WF_vars(Writer) /\ WF_vars(Uploader) /\ WF_vars(CloseReader) /\ WF_vars(Return)

FairSpec == Spec /\ Fairness

-----------------------------------------------------------------------------
(* Properties.                                                             *)

\* The digest an emit returns seals the object it published: it is taken over
\* exactly the records whose compressed form S3 holds (emit.go:16-23).
SealMatches == result = "ok" => hash = Payload /\ store = Append(hash, Footer)

\* The key holds its old object or the whole new payload, never a truncated
\* one with a valid gzip footer, and success means it is published.
Publication == INSTANCE AtomicPublish WITH
  object <- IF store = Old THEN "old" ELSE IF store = Object THEN "new" ELSE "truncated"

ImplementsAtomicPublish == Publication!Spec

\* streamGzip returns: neither side waits for the other for ever, and no
\* goroutine is left behind, whichever of them fails and whenever.
Returns == <>(result # "none" /\ wpc = "done")

=============================================================================
