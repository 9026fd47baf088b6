------------------------ MODULE ShadowResultsProofs ------------------------
(***************************************************************************)
(* Theorems about StreamGzip, for payloads of any length, and about the    *)
(* readers of ShadowResults around it, for every bucket and page size:     *)
(* what the key holds, what the digest seals, the promise AtomicPublish,   *)
(* and what a paginated listing and a fetch may meet while an emit runs.   *)
(***************************************************************************)
EXTENDS ShadowResults, SequenceTheorems, FiniteSetTheorems, FunctionTheorems, TLAPS

\* The first n records of a payload.
First(n) == [i \in 1..n |-> i]

\* What the uploader has read, what is in the pipe and what gzip has
\* buffered are together the records taken, in their order, and the footer.
Stream ==
  /\ wpc \in {"encode", "footer"} => slot = <<>> /\ got \o buf = First(next)
  /\ wpc = "blocked" => buf = <<>> /\ next >= 1 /\ got \o slot = First(next)
  /\ wpc = "flushing" => buf = <<>> /\ got \o slot = Append(First(next), Footer)
  /\ wpc \in {"close", "done"} =>
       slot = <<>> /\ (werr = "none" => got = Append(First(next), Footer))

\* The hash is at most the record behind whose write blocks.
Hashed ==
  /\ wpc = "encode" => hash = First(next)
  /\ wpc = "blocked" => hash = First(next - 1)
  /\ wpc \notin {"encode", "blocked"} /\ werr = "none" => hash = First(next)

\* Without an error the payload is whole.
Whole ==
  /\ wpc \in {"encode", "blocked"} => werr = "none"
  /\ wpc \notin {"encode", "blocked"} /\ werr = "none" => next = N

\* How the two sides end, and what the key holds then.
Ends ==
  /\ wend = "open" <=> wpc # "done"
  /\ wend = "eof" => werr = "none"
  /\ upload = "reading" => store = Old /\ result = "none"
  /\ upload = "ok" => store = Object
  /\ store \in {Old, Object}
  /\ result = "ok" => upload = "ok" /\ werr = "none" /\ wpc = "done"

IInv == Stream /\ Hashed /\ Whole /\ Ends

-----------------------------------------------------------------------------
(* Sequences of records.                                                   *)

\* The records are symbols, and so is the footer.
LEMMA FirstType ==
  ASSUME NEW n \in 0..N
  PROVE  /\ First(n) \in Seq(Symbols) /\ Len(First(n)) = n
         /\ Footer \in Symbols /\ <<>> \in Seq(Symbols)
         /\ First(0) = <<>>
BY NAssumption DEF First, Symbols, Footer

\* One record more.
LEMMA FirstNext ==
  ASSUME NEW n \in 0..N, n < N
  PROVE  Append(First(n), n + 1) = First(n + 1)
<1>1. First(n) \in Seq(Nat) /\ Len(First(n)) = n /\ n \in Nat
  BY NAssumption DEF First
<1>2. First(n + 1) \in Seq(Nat) /\ Len(First(n + 1)) = n + 1
  BY <1>1 DEF First
<1>3. DEFINE s == Append(First(n), n + 1)
<1>4. s \in Seq(Nat) /\ Len(s) = n + 1
  BY <1>1, AppendProperties
<1>5. \A i \in 1..(n + 1) : s[i] = First(n + 1)[i]
  BY <1>1, AppendProperties DEF First
<1>6. QED
  BY <1>2, <1>4, <1>5, SeqEqual

\* What is appended behind the buffer is appended to all of it.
LEMMA AppendBehind ==
  ASSUME NEW s \in Seq(Symbols), NEW t \in Seq(Symbols), NEW x \in Symbols
  PROVE  s \o Append(t, x) = Append(s \o t, x) /\ Append(t, x) # <<>>
<1>1. <<x>> \in Seq(Symbols) /\ s \o t \in Seq(Symbols)
  BY ConcatProperties
<1>2. Append(t, x) = t \o <<x>> /\ Append(s \o t, x) = (s \o t) \o <<x>>
  BY <1>1, AppendIsConcat
<1>3. (s \o t) \o <<x>> = s \o (t \o <<x>>)
  BY <1>1, ConcatAssociative
<1>4. QED
  BY <1>2, <1>3, AppendProperties

\* The new object is not the old one.
LEMMA ObjectIsNew == Object # Old /\ Object = Append(First(N), Footer)
<1>1. Object = Append(First(N), Footer)
  BY DEF Object, Payload, First
<1>2. First(N) \in Seq(Symbols) /\ Len(First(N)) = N /\ Footer \in Symbols
  BY NAssumption, FirstType
<1>3. Len(Object) = N + 1 /\ Object[N + 1] = Footer
  BY <1>1, <1>2, AppendProperties
<1>4. Len(Old) = 1 /\ Old[1] = N + 1
  BY DEF Old
<1>5. QED
  BY <1>1, <1>3, <1>4, NAssumption DEF Footer

-----------------------------------------------------------------------------
(* The inductive invariant of an emit.                                     *)

LEMMA InitIInv == Init => TypeOK /\ IInv
<1> SUFFICES ASSUME Init PROVE TypeOK /\ IInv
  OBVIOUS
<1>1. 0 \in 0..N /\ <<>> \in Seq(Symbols) /\ First(0) = <<>>
  BY NAssumption, FirstType
<1>2. <<>> \o <<>> = <<>>
  BY <1>1, ConcatEmptySeq
<1>3. QED
  BY <1>1, <1>2 DEF Init, TypeOK, IInv, Stream, Hashed, Whole, Ends

LEMMA TypeStep == TypeOK /\ [Next]_vars => TypeOK'
<1> SUFFICES ASSUME TypeOK, [Next]_vars PROVE TypeOK'
  OBVIOUS
<1> USE NAssumption
<1>1. CASE Encode
  <2>1. next + 1 \in Symbols /\ next + 1 \in 0..N /\ <<>> \in Seq(Symbols)
    BY <1>1 DEF Encode, TypeOK, Symbols
  <2>2. Append(buf, next + 1) \in Seq(Symbols) /\ Append(hash, next + 1) \in Seq(Symbols)
    BY <2>1, AppendProperties DEF TypeOK
  <2>3. QED
    BY <1>1, <2>1, <2>2 DEF Encode, TypeOK, pipeAndMain
<1>2. CASE Written
  <2>1. Append(hash, next) \in Seq(Symbols)
    BY AppendProperties DEF TypeOK, Symbols
  <2>2. QED
    BY <1>2, <2>1 DEF Written, TypeOK, pipeAndMain
<1>3. CASE Footed
  <2>1. Append(buf, Footer) \in Seq(Symbols) /\ <<>> \in Seq(Symbols)
    BY AppendProperties DEF TypeOK, Symbols, Footer
  <2>2. QED
    BY <1>3, <2>1 DEF Footed, TypeOK, pipeAndMain
<1>4. CASE Encoded \/ PayloadFails \/ Flushed \/ PipeBroken \/ ClosePipe
  <2>1. <<>> \in Seq(Symbols)
    OBVIOUS
  <2>2. QED
    BY <1>4, <2>1 DEF Encoded, PayloadFails, Flushed, PipeBroken, ClosePipe, TypeOK, pipeAndMain
<1>5. CASE ReadPipe
  <2>1. got \o slot \in Seq(Symbols) /\ <<>> \in Seq(Symbols)
    BY ConcatProperties DEF TypeOK
  <2>2. QED
    BY <1>5, <2>1 DEF ReadPipe, TypeOK, writerVars
<1>6. CASE Publish \/ AbortUpload \/ UploadFails \/ CloseReader \/ Return
  BY <1>6 DEF Publish, AbortUpload, UploadFails, CloseReader, Return, TypeOK, writerVars
<1>7. CASE UNCHANGED vars
  BY <1>7 DEF vars, writerVars, TypeOK
<1>8. QED
  BY <1>1, <1>2, <1>3, <1>4, <1>5, <1>6, <1>7 DEF Next, Writer, Uploader

LEMMA IInvStep == TypeOK /\ IInv /\ [Next]_vars => IInv'
<1> SUFFICES ASSUME TypeOK, IInv, [Next]_vars PROVE IInv'
  OBVIOUS
<1> USE NAssumption
<1>0. next \in 0..N /\ next \in Nat /\ N \in Nat /\ Footer \in Symbols /\ <<>> \in Seq(Symbols)
  BY DEF TypeOK, Footer, Symbols
<1>1. CASE Encode
  <2>1. next < N /\ next + 1 \in Symbols /\ next + 1 \in 0..N /\ (next + 1) - 1 = next
    BY <1>0, <1>1 DEF Encode, Symbols
  <2>2. Append(First(next), next + 1) = First(next + 1)
    BY <1>0, <2>1, FirstNext
  <2>3. got \o Append(buf, next + 1) = First(next + 1)
    <3>1. got \o buf = First(next)
      BY <1>1 DEF Encode, IInv, Stream
    <3>2. got \o Append(buf, next + 1) = Append(got \o buf, next + 1)
      BY <2>1, AppendBehind DEF TypeOK
    <3>3. QED
      BY <2>2, <3>1, <3>2
  <2>4. Stream'
    <3>1. next' = next + 1 /\ got' = got /\ next' >= 1
      BY <1>0, <1>1 DEF Encode, pipeAndMain
    <3>2. got' \o Append(buf, next + 1) = First(next')
      BY <2>3, <3>1
    <3>3. CASE wpc' = "encode" /\ slot' = <<>> /\ buf' = Append(buf, next + 1)
      BY <3>2, <3>3 DEF Stream
    <3>4. CASE wpc' = "blocked" /\ buf' = <<>> /\ slot' = Append(buf, next + 1)
      BY <3>1, <3>2, <3>4 DEF Stream
    <3>5. QED
      BY <1>1, <3>3, <3>4 DEF Encode, IInv, Stream
  <2>5. Hashed' /\ Whole' /\ Ends'
    BY <1>1, <2>1, <2>2 DEF Encode, pipeAndMain, IInv, Hashed, Whole, Ends
  <2>6. QED
    BY <2>4, <2>5 DEF IInv
<1>2. CASE Written
  <2>1. next >= 1
    BY <1>2 DEF Written, IInv, Stream
  <2>2. Append(First(next - 1), (next - 1) + 1) = First((next - 1) + 1)
    <3>1. next - 1 \in 0..N /\ next - 1 < N
      BY <1>0, <2>1
    <3>2. QED
      BY <3>1, FirstNext
  <2>3. Append(First(next - 1), next) = First(next)
    <3>1. (next - 1) + 1 = next
      BY <1>0
    <3>2. QED
      BY <2>2, <3>1
  <2>4. Stream'
    BY <1>2 DEF Written, pipeAndMain, IInv, Stream
  <2>5. Hashed' /\ Whole' /\ Ends'
    BY <1>2, <2>3 DEF Written, pipeAndMain, IInv, Hashed, Whole, Ends
  <2>6. QED
    BY <2>4, <2>5 DEF IInv
<1>3. CASE Encoded \/ PayloadFails
  BY <1>3 DEF Encoded, PayloadFails, pipeAndMain, IInv, Stream, Hashed, Whole, Ends
<1>4. CASE Footed
  <2>1. got \o Append(buf, Footer) = Append(First(next), Footer)
    BY <1>0, <1>4, AppendBehind DEF Footed, TypeOK, IInv, Stream
  <2>2. Stream'
    BY <1>4, <2>1 DEF Footed, pipeAndMain, IInv, Stream
  <2>3. Hashed' /\ Whole' /\ Ends'
    BY <1>4 DEF Footed, pipeAndMain, IInv, Hashed, Whole, Ends
  <2>4. QED
    BY <2>2, <2>3 DEF IInv
<1>5. CASE Flushed
  <2>1. got \o <<>> = got
    BY ConcatEmptySeq DEF TypeOK
  <2>2. Stream'
    BY <1>5, <2>1 DEF Flushed, pipeAndMain, IInv, Stream
  <2>3. Hashed' /\ Whole' /\ Ends'
    BY <1>5 DEF Flushed, pipeAndMain, IInv, Hashed, Whole, Ends
  <2>4. QED
    BY <2>2, <2>3 DEF IInv
<1>6. CASE PipeBroken
  BY <1>6 DEF PipeBroken, pipeAndMain, IInv, Stream, Hashed, Whole, Ends
<1>7. CASE ClosePipe
  BY <1>7 DEF ClosePipe, TypeOK, IInv, Stream, Hashed, Whole, Ends
<1>8. CASE ReadPipe
  <2>1. (got \o slot) \o <<>> = got \o slot
    <3>1. got \o slot \in Seq(Symbols)
      BY ConcatProperties DEF TypeOK
    <3>2. QED
      BY <3>1, ConcatEmptySeq
  <2>2. wpc \in {"blocked", "flushing"}
    BY <1>8 DEF ReadPipe, TypeOK, IInv, Stream
  <2>3. Stream'
    BY <1>8, <2>1, <2>2 DEF ReadPipe, writerVars, IInv, Stream
  <2>4. Hashed' /\ Whole' /\ Ends'
    BY <1>8 DEF ReadPipe, writerVars, IInv, Hashed, Whole, Ends
  <2>5. QED
    BY <2>3, <2>4 DEF IInv
<1>9. CASE Publish
  <2>1. got = Object
    BY <1>9, ObjectIsNew DEF Publish, IInv, Stream, Whole, Ends
  <2>2. Stream' /\ Hashed' /\ Whole'
    BY <1>9 DEF Publish, writerVars, IInv, Stream, Hashed, Whole
  <2>3. Ends'
    BY <1>9, <2>1 DEF Publish, writerVars, IInv, Ends
  <2>4. QED
    BY <2>2, <2>3 DEF IInv
<1>10. CASE AbortUpload \/ UploadFails \/ CloseReader \/ Return
  <2>1. Stream' /\ Hashed' /\ Whole'
    BY <1>10 DEF AbortUpload, UploadFails, CloseReader, Return, writerVars,
                 IInv, Stream, Hashed, Whole
  <2>2. Ends'
    BY <1>10 DEF AbortUpload, UploadFails, CloseReader, Return, writerVars, IInv, Ends
  <2>3. QED
    BY <2>1, <2>2 DEF IInv
<1>11. CASE UNCHANGED vars
  BY <1>11 DEF vars, writerVars, IInv, Stream, Hashed, Whole, Ends
<1>12. QED
  BY <1>1, <1>2, <1>3, <1>4, <1>5, <1>6, <1>7, <1>8, <1>9, <1>10, <1>11
  DEF Next, Writer, Uploader

-----------------------------------------------------------------------------
(* The theorems about an emit.                                             *)

\* The variables keep their types.
THEOREM TypeCorrect == Spec => []TypeOK
<1>1. Init => TypeOK
  BY InitIInv
<1>2. TypeOK /\ [Next]_vars => TypeOK'
  BY TypeStep
<1>3. QED
  BY <1>1, <1>2, PTL DEF Spec

LEMMA Invariance == Spec => [](TypeOK /\ IInv)
<1>1. TypeOK /\ IInv /\ [Next]_vars => IInv'
  BY IInvStep
<1>2. QED
  BY InitIInv, <1>1, TypeStep, PTL DEF Spec

\* The digest an emit returns is taken over exactly the records of the object
\* that it published, however often gzip flushes and whichever side fails.
THEOREM Seal == Spec => []SealMatches
<1>1. TypeOK /\ IInv => SealMatches
  BY ObjectIsNew DEF IInv, Hashed, Whole, Ends, SealMatches, Payload, First, TypeOK
<1>2. QED
  BY Invariance, <1>1, PTL

\* The emit implements AtomicPublish: the key goes from its old object to the
\* whole new one in one step, and only an emit that did so returns success.
THEOREM Implements == Spec => ImplementsAtomicPublish
<1>1. Init => Publication!Init
  BY DEF Init, Publication!Init
<1>2. TypeOK /\ IInv /\ [Next]_vars => [Publication!Next]_(Publication!vars)
  <2> SUFFICES ASSUME TypeOK, IInv, [Next]_vars
               PROVE  [Publication!Next]_(Publication!vars)
    OBVIOUS
  <2>1. CASE Publish
    <3>1. store = Old /\ result = "none" /\ result' = result
      BY <2>1 DEF Publish, IInv, Ends
    <3>2. store' = Object
      BY <2>1, ObjectIsNew DEF Publish, IInv, Stream, Whole, Ends
    <3>3. Publication!Publish
      BY <3>1, <3>2, ObjectIsNew DEF Publication!Publish
    <3>4. QED
      BY <3>3 DEF Publication!Next
  <2>2. CASE Return
    <3>1. result = "none" /\ store' = store
      BY <2>2 DEF Return
    <3>2. result' = "error" \/ (result' = "ok" /\ store = Object)
      BY <2>2 DEF Return, IInv, Ends
    <3>3. Publication!Return
      BY <3>1, <3>2, ObjectIsNew DEF Publication!Return
    <3>4. QED
      BY <3>3 DEF Publication!Next
  <2>3. CASE Writer \/ ReadPipe \/ AbortUpload \/ UploadFails \/ CloseReader \/ UNCHANGED vars
    <3>1. UNCHANGED <<store, result>>
      BY <2>3 DEF Writer, Encode, Written, Encoded, PayloadFails, Footed, Flushed, PipeBroken,
                  ClosePipe, ReadPipe, AbortUpload, UploadFails, CloseReader, vars,
                  pipeAndMain
    <3>2. QED
      BY <3>1 DEF Publication!vars
  <2>4. QED
    BY <2>1, <2>2, <2>3 DEF Next, Uploader
<1>3. QED
  BY Invariance, <1>1, <1>2, PTL DEF Spec, ImplementsAtomicPublish, Publication!Spec

-----------------------------------------------------------------------------
(* The readers.                                                            *)

\* The heights of a page, and those of the first n of a sequence of pages.
Heights(k) == Content[k].start .. Content[k].end
CoveredBy(s, n) == UNION {Heights(s[i]) : i \in 1..n}

\* No two of the first n pages overlap.
Apart(s, n) == \A i, j \in 1..n : i # j => Heights(s[i]) \cap Heights(s[j]) = {}

\* The keys a listing has gone past.
Past == IF lpc = "list" THEN {k \in Keys : k <= token} ELSE Keys

\* What the calls so far have gone past is listed, once, and nothing else.
Gathered ==
  /\ lpc # "error" => {k \in throughout : k \in Past /\ Kind(k) # "other"} \subseteq Listed
  /\ lpc # "error" => Listed \subseteq {k \in ever : k \in Past /\ Kind(k) # "other"}
  /\ \A k \in Range(pages) : Kind(k) = "page"
  /\ \A k \in Range(reports) : Kind(k) = "report"
  /\ IsInjective(pages) /\ IsInjective(reports)

\* The history between the first call and the last.
Watched ==
  lpc = "list" =>
    IF token = 0 THEN Listed = {} ELSE throughout \subseteq Stored /\ Stored \subseteq ever

\* The entries after the last call.
Ordered == lpc \in {"sum", "done"} => Ascending(pages) /\ Ascending(reports)

\* The sum so far.
Added ==
  /\ totalBlocks >= Cardinality(CoveredBy(pages, summed))
  /\ totalBlocks = Cardinality(CoveredBy(pages, summed)) <=> Apart(pages, summed)
  /\ lpc = "list" => summed = 0 /\ totalBlocks = 0
  /\ lpc = "done" => summed = Len(pages)

LInv == Gathered /\ Watched /\ Ordered /\ Added

-----------------------------------------------------------------------------
(* Answers of S3.                                                          *)

\* Keys are numbers, and any set of them is finite.
LEMMA KeysAreFinite ==
  /\ K \in Nat /\ \A k \in Keys : k \in Nat /\ k <= K
  /\ \A S \in SUBSET Keys : IsFiniteSet(S)
<1>1. K \in Nat /\ K \in Int /\ 1 \in Int
  BY KeysAssumption
<1>2. \A k \in Keys : k \in Nat /\ k <= K
  BY <1>1 DEF Keys
<1>3. IsFiniteSet(Keys)
  BY <1>1, FS_Interval DEF Keys
<1>4. QED
  BY <1>1, <1>2, <1>3, FS_Subset

\* Of the keys there is a first and a last.
LEMMA EndsOfKeys ==
  ASSUME NEW S \in SUBSET Keys, S # {}
  PROVE  /\ \E x \in S : \A y \in S : x <= y
         /\ \E x \in S : \A y \in S : x >= y
<1>0. K \in Nat /\ \A k \in S : k \in Nat /\ k <= K
  BY KeysAreFinite
<1>1. ASSUME NEW T \in SUBSET Nat, T # {}
      PROVE  \E x \in T : \A y \in T : x <= y
  <2>1. PICK x \in T : \A y \in T : <<y, x>> \notin OpToRel(<, Nat)
    BY <1>1, NatLessThanWellFounded, WFMin
  <2>2. \A y \in T : ~(y < x)
    BY <2>1 DEF OpToRel
  <2>3. QED
    BY <2>2
<1>2. \E x \in S : \A y \in S : x <= y
  BY <1>0, <1>1
<1>3. \E x \in S : \A y \in S : x >= y
  <2> DEFINE T == {K - x : x \in S}
  <2>1. T \in SUBSET Nat /\ T # {}
    BY <1>0
  <2> HIDE DEF T
  <2>2. PICK t \in T : \A u \in T : t <= u
    BY <1>1, <2>1
  <2>3. PICK x \in S : t = K - x
    BY DEF T
  <2>4. \A y \in S : K - y \in T
    BY DEF T
  <2>5. \A y \in S : K - x <= K - y
    BY <2>2, <2>3, <2>4
  <2>6. QED
    BY <1>0, <2>5
<1>4. QED
  BY <1>2, <1>3

\* An answer is an initial part of what is left, never an empty one of
\* something, and the token is its last key.
LEMMA Answers ==
  ASSUME NEW S \in SUBSET Keys, NEW n \in Nat \ {0}
  PROVE  /\ FirstKeys(S, n) \in SUBSET S
         /\ \A k \in FirstKeys(S, n), j \in S : j < k => j \in FirstKeys(S, n)
         /\ FirstKeys(S, n) # S =>
              /\ Max(FirstKeys(S, n)) \in FirstKeys(S, n)
              /\ \A k \in FirstKeys(S, n) : k <= Max(FirstKeys(S, n))
<1> DEFINE A == FirstKeys(S, n)
<1>1. A \in SUBSET S
  BY DEF FirstKeys
<1>2. ASSUME NEW k \in A, NEW j \in S, j < k
      PROVE  j \in A
  <2> DEFINE J == {i \in S : i < j}
             I == {i \in S : i < k}
  <2>1. IsFiniteSet(S)
    BY KeysAreFinite
  <2>2. IsFiniteSet(I) /\ IsFiniteSet(J)
    BY <2>1, FS_Subset
  <2>3. J \in SUBSET I
    <3>1. \A i \in S : i \in Nat
      BY KeysAreFinite
    <3>2. j \in Nat /\ k \in Nat
      BY <1>1, <3>1
    <3>3. \A i \in S : i < j => i < k
      BY <1>2, <3>1, <3>2
    <3>4. QED
      BY <3>3
  <2>4. Cardinality(J) <= Cardinality(I) /\ Cardinality(J) \in Nat /\ Cardinality(I) \in Nat
    BY <2>2, <2>3, FS_Subset, FS_CardinalityType
  <2>5. Cardinality(I) < n
    BY DEF FirstKeys
  <2>6. Cardinality(J) < n
    BY <2>4, <2>5
  <2>7. QED
    BY <2>6 DEF FirstKeys
<1>3. ASSUME A # S
      PROVE  Max(A) \in A /\ \A k \in A : k <= Max(A)
  <2>1. A # {}
    <3>1. S # {}
      BY <1>1, <1>3
    <3>2. PICK m \in S : \A y \in S : m <= y
      BY <3>1, EndsOfKeys
    <3>3. {j \in S : j < m} = {}
      BY <3>2, KeysAreFinite
    <3>4. m \in A
      BY <3>3, FS_EmptySet DEF FirstKeys
    <3>5. QED
      BY <3>4
  <2>2. \E x \in A : \A y \in A : x >= y
    BY <1>1, <2>1, EndsOfKeys
  <2>3. Max(A) \in A /\ \A y \in A : Max(A) >= y
    BY <2>2 DEF Max
  <2>4. QED
    BY <1>1, <2>3, KeysAreFinite
<1>4. QED
  BY <1>1, <1>2, <1>3

-----------------------------------------------------------------------------
(* Sequences of keys.                                                      *)

\* The keys of one kind of an answer, each of them once.
LEMMA FoundIn ==
  ASSUME NEW A \in SUBSET Keys, NEW kind, NEW s \in Found(A, kind)
  PROVE  /\ s \in Seq(Keys) /\ IsInjective(s)
         /\ Range(s) = {k \in A : Kind(k) = kind}
<1> DEFINE ks == {k \in A : Kind(k) = kind}
           n == Cardinality(ks)
<1>1. IsFiniteSet(ks)
  BY KeysAreFinite
<1>2. n \in Nat
  BY <1>1, FS_CardinalityType
<1>3. s \in [1..n -> ks] /\ \A i, j \in DOMAIN s : i < j => s[i] < s[j]
  BY DEF Found
<1> HIDE DEF n, ks
<1>4. \A i, j \in 1..n : s[i] = s[j] => i = j
  <2> SUFFICES ASSUME NEW i \in 1..n, NEW j \in 1..n, s[i] = s[j]
               PROVE  i = j
    OBVIOUS
  <2>1. s[i] \in Nat /\ s[j] \in Nat /\ i \in Nat /\ j \in Nat
    BY <1>2, <1>3, KeysAreFinite DEF ks
  <2>2. ~(i < j) /\ ~(j < i)
    BY <1>3, <2>1
  <2>3. QED
    BY <2>1, <2>2
<1>5. s \in Injection(1..n, ks)
  BY <1>3, <1>4, Fun_IsInj
<1>6. IsFiniteSet(1..n) /\ Cardinality(1..n) = n
  BY <1>2, FS_Interval
<1>7. s \in Surjection(1..n, ks)
  BY <1>1, <1>5, <1>6, FS_Injection DEF n
<1>8. Range(s) = ks
  BY <1>7, Fun_SurjectionProperties
<1>9. s \in Seq(Keys)
  BY <1>2, <1>3 DEF ks
<1>10. IsInjective(s)
  BY <1>3, <1>4 DEF IsInjective
<1>11. QED
  BY <1>8, <1>9, <1>10 DEF ks

\* One sequence behind another.
LEMMA Behind ==
  ASSUME NEW s \in Seq(Keys), NEW t \in Seq(Keys), IsInjective(s), IsInjective(t),
         Range(s) \cap Range(t) = {}
  PROVE  /\ s \o t \in Seq(Keys) /\ IsInjective(s \o t)
         /\ Range(s \o t) = Range(s) \cup Range(t)
<1>1. /\ s \o t \in Seq(Keys) /\ Len(s \o t) = Len(s) + Len(t)
      /\ \A i \in 1..(Len(s) + Len(t)) : (s \o t)[i] = IF i <= Len(s) THEN s[i] ELSE t[i - Len(s)]
  BY ConcatProperties
<1>2. Range(s \o t) = Range(s) \cup Range(t)
  BY RangeConcatenation
<1>3. IsInjective(s \o t)
  <2> SUFFICES ASSUME NEW i \in 1..(Len(s) + Len(t)), NEW j \in 1..(Len(s) + Len(t)),
                      (s \o t)[i] = (s \o t)[j]
               PROVE  i = j
    BY <1>1 DEF IsInjective
  <2>1. /\ \A a, b \in 1..Len(s) : s[a] = s[b] => a = b
        /\ \A a, b \in 1..Len(t) : t[a] = t[b] => a = b
        /\ \A a \in 1..Len(s), b \in 1..Len(t) : s[a] # t[b]
    BY DEF IsInjective, Range
  <2>2. Len(s) \in Nat /\ Len(t) \in Nat
    OBVIOUS
  <2>3. CASE i <= Len(s) /\ j <= Len(s)
    BY <1>1, <2>1, <2>2, <2>3
  <2>4. CASE i > Len(s) /\ j > Len(s)
    <3>1. i - Len(s) \in 1..Len(t) /\ j - Len(s) \in 1..Len(t)
      BY <2>2, <2>4
    <3>2. t[i - Len(s)] = t[j - Len(s)]
      BY <1>1, <2>2, <2>4
    <3>3. i - Len(s) = j - Len(s)
      BY <2>1, <3>1, <3>2
    <3>4. QED
      BY <2>2, <3>3
  <2>5. CASE i <= Len(s) /\ j > Len(s)
    <3>1. i \in 1..Len(s) /\ j - Len(s) \in 1..Len(t) /\ s[i] = t[j - Len(s)]
      BY <1>1, <2>2, <2>5
    <3>2. QED
      BY <2>1, <3>1
  <2>6. CASE i > Len(s) /\ j <= Len(s)
    <3>1. j \in 1..Len(s) /\ i - Len(s) \in 1..Len(t) /\ s[j] = t[i - Len(s)]
      BY <1>1, <2>2, <2>6
    <3>2. QED
      BY <2>1, <3>1
  <2>7. QED
    BY <2>2, <2>3, <2>4, <2>5, <2>6
<1>4. QED
  BY <1>1, <1>2, <1>3

\* Sorting keeps the keys, each of them once, and brings them by height.
LEMMA SortKeeps ==
  ASSUME NEW s \in Seq(Keys), IsInjective(s), NEW t \in ByHeight(s)
  PROVE  /\ t \in Seq(Keys) /\ Range(t) = Range(s)
         /\ IsInjective(t) /\ Ascending(t)
<1> DEFINE D == 1..Len(s)
<1>1. DOMAIN s = D /\ \A i \in D : s[i] \in Keys
  OBVIOUS
<1>2. PICK p \in Bijection(D, D) : t = [i \in D |-> s[p[i]]]
  BY <1>1 DEF ByHeight
<1>3. /\ p \in [D -> D]
      /\ \A i, j \in D : p[i] = p[j] => i = j
      /\ \A j \in D : \E i \in D : p[i] = j
  BY DEF Bijection, Injection, Surjection, IsInjective
<1>4. \A i, j \in DOMAIN t : i < j => Content[t[i]].start <= Content[t[j]].start
  BY DEF ByHeight
<1> HIDE DEF D
<1>5. DOMAIN t = D /\ t \in [D -> Keys]
  BY <1>1, <1>2, <1>3
<1>6. t \in Seq(Keys)
  BY <1>5 DEF D
<1>7. Range(t) = Range(s)
  BY <1>1, <1>2, <1>3 DEF Range
<1>8. IsInjective(t)
  BY <1>1, <1>2, <1>3 DEF IsInjective
<1>9. Ascending(t)
  <2> SUFFICES ASSUME NEW i \in DOMAIN t, NEW j \in DOMAIN t, i < j
               PROVE  t[i] # t[j]
    BY <1>4 DEF Ascending
  <2>1. i # j
    BY <1>5 DEF D
  <2>2. QED
    BY <1>8, <2>1 DEF IsInjective
<1>10. QED
  BY <1>6, <1>7, <1>8, <1>9

-----------------------------------------------------------------------------
(* Sums of blocks.                                                         *)

\* The heights of a page are as many as its blocks.
LEMMA PageBlocks ==
  ASSUME NEW k \in Keys
  PROVE  /\ IsFiniteSet(Heights(k)) /\ Cardinality(Heights(k)) = Blocks(k)
         /\ Blocks(k) \in Nat
<1> DEFINE a == Content[k].start
           b == Content[k].end
<1>1. a \in Nat /\ b \in Nat /\ a <= b
  BY KeysAssumption DEF Contents
<1> HIDE DEF a, b
<1>2. IsFiniteSet(a .. b) /\ Cardinality(a .. b) = b - a + 1 /\ b - a + 1 \in Nat
  BY <1>1, FS_Interval
<1>3. QED
  BY <1>2 DEF Heights, Blocks, a, b

\* The heights of the first pages of a sequence are finitely many.
LEMMA CoveredIsFinite ==
  ASSUME NEW s \in Seq(Keys), NEW n \in 0..Len(s)
  PROVE  IsFiniteSet(CoveredBy(s, n)) /\ Cardinality(CoveredBy(s, n)) \in Nat
<1> DEFINE T == {Heights(s[i]) : i \in 1..n}
           f == [i \in 1..n |-> Heights(s[i])]
<1>1. f \in Surjection(1..n, T)
  BY DEF Surjection
<1>2. IsFiniteSet(1..n)
  BY FS_Interval
<1>3. IsFiniteSet(T)
  BY <1>1, <1>2, FS_Surjection
<1>4. \A i \in 1..n : s[i] \in Keys
  OBVIOUS
<1>5. \A t \in T : IsFiniteSet(t)
  BY <1>4, PageBlocks
<1>6. IsFiniteSet(UNION T)
  BY <1>3, <1>5, FS_UNION
<1>7. QED
  BY <1>6, FS_CardinalityType DEF CoveredBy

\* One page more: a sum that is never short of the heights covered, and exact
\* only for pages that are apart, stays so.
LEMMA OnePageMore ==
  ASSUME NEW s \in Seq(Keys), NEW n \in 0..Len(s), n < Len(s), NEW t \in Nat,
         t >= Cardinality(CoveredBy(s, n)),
         t = Cardinality(CoveredBy(s, n)) <=> Apart(s, n)
  PROVE  LET u == t + Blocks(s[n + 1])
         IN /\ u >= Cardinality(CoveredBy(s, n + 1))
            /\ u = Cardinality(CoveredBy(s, n + 1)) <=> Apart(s, n + 1)
<1> DEFINE C == CoveredBy(s, n)
           H == Heights(s[n + 1])
           c == Cardinality(C)
           b == Blocks(s[n + 1])
           x == Cardinality(C \cap H)
<1>1. n + 1 \in 1..Len(s) /\ s[n + 1] \in Keys /\ n \in Nat
  OBVIOUS
<1>2. IsFiniteSet(C) /\ c \in Nat
  BY CoveredIsFinite
<1>3. IsFiniteSet(H) /\ Cardinality(H) = b /\ b \in Nat
  BY <1>1, PageBlocks
<1>4. \A i : i \in 1..(n + 1) <=> i \in 1..n \/ i = n + 1
  BY <1>1
<1>5. CoveredBy(s, n + 1) = C \cup H
  BY <1>4 DEF CoveredBy
<1>6. IsFiniteSet(C \cap H) /\ x \in Nat /\ (x = 0 <=> C \cap H = {})
  BY <1>2, FS_Intersection, FS_CardinalityType, FS_EmptySet
<1>7. Cardinality(C \cup H) = c + b - x
  BY <1>2, <1>3, FS_Union
<1>8. Apart(s, n + 1) <=> Apart(s, n) /\ x = 0
  <2>1. C \cap H = {} <=> \A i \in 1..n : Heights(s[i]) \cap H = {}
    BY DEF CoveredBy
  <2>2. \A i \in 1..n : i # n + 1
    BY <1>1
  <2>3. Apart(s, n + 1) <=>
          Apart(s, n) /\ \A i \in 1..n : Heights(s[i]) \cap H = {}
    <3>1. ASSUME Apart(s, n + 1)
          PROVE  Apart(s, n) /\ \A i \in 1..n : Heights(s[i]) \cap H = {}
      <4>1. \A i, j \in 1..(n + 1) : i # j => Heights(s[i]) \cap Heights(s[j]) = {}
        BY <3>1 DEF Apart
      <4>2. \A i \in 1..n : Heights(s[i]) \cap H = {}
        BY <1>4, <2>2, <4>1
      <4>3. QED
        BY <1>4, <4>1, <4>2 DEF Apart
    <3>2. ASSUME Apart(s, n), \A i \in 1..n : Heights(s[i]) \cap H = {}
          PROVE  Apart(s, n + 1)
      <4>1. SUFFICES ASSUME NEW i \in 1..(n + 1), NEW j \in 1..(n + 1), i # j
                     PROVE  Heights(s[i]) \cap Heights(s[j]) = {}
        BY DEF Apart
      <4>2. CASE i \in 1..n /\ j \in 1..n
        BY <3>2, <4>1, <4>2 DEF Apart
      <4>3. CASE i = n + 1 /\ j \in 1..n
        BY <3>2, <4>3
      <4>4. CASE i \in 1..n /\ j = n + 1
        BY <3>2, <4>4
      <4>5. QED
        BY <1>4, <4>1, <4>2, <4>3, <4>4
    <3>3. QED
      BY <3>1, <3>2
  <2>4. QED
    BY <1>6, <2>1, <2>3
<1>9. t >= c /\ (t = c <=> Apart(s, n))
  OBVIOUS
<1> HIDE DEF C, H, c, b, x
<1>10. t + b >= c + b - x /\ (t + b = c + b - x <=> t = c /\ x = 0)
  BY <1>2, <1>3, <1>6, <1>9
<1>11. QED
  <2>1. Cardinality(CoveredBy(s, n + 1)) = c + b - x
    BY <1>5, <1>7
  <2>2. t + b >= Cardinality(CoveredBy(s, n + 1))
    BY <1>10, <2>1
  <2>3. t + b = Cardinality(CoveredBy(s, n + 1)) <=> t = c /\ x = 0
    BY <1>10, <2>1
  <2>4. t + b = Cardinality(CoveredBy(s, n + 1)) <=> Apart(s, n + 1)
    BY <1>8, <1>9, <2>3
  <2>5. QED
    BY <2>2, <2>4 DEF b

-----------------------------------------------------------------------------
(* The inductive invariant of its readers.                                 *)

LEMMA StoredType ==
  ASSUME ResultsTypeOK
  PROVE  Stored \in SUBSET Keys
BY EmitAssumption DEF ResultsTypeOK, Stored

\* A step of the readers or the bucket is a step of the emit or none of it.
LEMMA EmitStep ==
  ASSUME [ResultsNext]_allVars
  PROVE  [Next]_vars
BY DEF ResultsNext, Emit, ListObjects, AddPage, PrintList, ListFails, GetObject, Decode,
       Others, allVars

LEMMA ResultsInitLInv == ResultsInit => ResultsTypeOK /\ IInv /\ LInv
<1> SUFFICES ASSUME ResultsInit PROVE ResultsTypeOK /\ IInv /\ LInv
  OBVIOUS
<1>1. TypeOK /\ IInv
  BY InitIInv DEF ResultsInit
<1>2. pages = <<>> /\ reports = <<>> /\ totalBlocks = 0 /\ summed = 0 /\ lpc = "list"
      /\ token = 0 /\ throughout = {} /\ ever = {} /\ fetch = "get" /\ body = Old
  BY DEF ResultsInit
<1>3. Listed = {} /\ IsInjective(<<>>) /\ Range(<<>>) = {}
  BY <1>2 DEF Listed, Range, IsInjective
<1>4. ResultsTypeOK
  <2>1. present \subseteq Keys \ {EmitKey}
    BY DEF ResultsInit
  <2>2. <<>> \in Seq(Keys) /\ Len(<<>>) = 0
    OBVIOUS
  <2>3. QED
    BY <1>1, <1>2, <2>1, <2>2 DEF ResultsTypeOK
<1>5. CoveredBy(pages, 0) = {} /\ Apart(pages, 0) /\ Cardinality({}) = 0
  BY FS_EmptySet DEF CoveredBy, Apart
<1>6. Gathered /\ Watched /\ Ordered
  BY <1>2, <1>3 DEF Gathered, Watched, Ordered
<1>7. Added
  <2>1. totalBlocks = Cardinality(CoveredBy(pages, summed)) /\ Apart(pages, summed)
    BY <1>2, <1>5
  <2>2. QED
    BY <1>2, <2>1 DEF Added
<1>8. QED
  BY <1>1, <1>4, <1>6, <1>7 DEF LInv

\* No page is added up while the listing is under way.
LEMMA NothingAdded ==
  ASSUME NEW s
  PROVE  CoveredBy(s, 0) = {} /\ Apart(s, 0) /\ Cardinality(CoveredBy(s, 0)) = 0
<1>1. 1..0 = {}
  OBVIOUS
<1>2. CoveredBy(s, 0) = {} /\ Apart(s, 0)
  BY <1>1 DEF CoveredBy, Apart
<1>3. QED
  BY <1>2, FS_EmptySet

\* The history of a listing follows the bucket.
LEMMA ObservedStep ==
  ASSUME ResultsTypeOK, LInv, UNCHANGED listVars, Observed, Stored' \subseteq Keys
  PROVE  /\ Gathered' /\ Watched' /\ Ordered' /\ Added' /\ Listed' = Listed
         /\ throughout' \subseteq Keys /\ ever' \subseteq Keys
<1>1. /\ lpc' = lpc /\ token' = token /\ pages' = pages /\ reports' = reports
      /\ totalBlocks' = totalBlocks /\ summed' = summed
  BY DEF listVars
<1>2. Listed' = Listed /\ Past' = Past
  BY <1>1 DEF Listed, Past
<1>3. throughout' \subseteq throughout /\ ever \subseteq ever' /\ ever' \subseteq Keys
  BY DEF Observed, history, ResultsTypeOK
<1>4. Gathered'
  <2>1. lpc # "error" =>
          /\ {k \in throughout' : k \in Past /\ Kind(k) # "other"} \subseteq Listed
          /\ Listed \subseteq {k \in ever' : k \in Past /\ Kind(k) # "other"}
    BY <1>3 DEF LInv, Gathered
  <2>2. QED
    BY <1>1, <1>2, <2>1 DEF LInv, Gathered
<1>5. Watched'
  <2>1. lpc = "list" /\ token # 0 => throughout' \subseteq Stored' /\ Stored' \subseteq ever'
    BY DEF Observed
  <2>2. QED
    BY <1>1, <1>2, <2>1 DEF LInv, Watched
<1>6. Ordered' /\ Added'
  BY <1>1 DEF LInv, Ordered, Added
<1>7. QED
  BY <1>2, <1>3, <1>4, <1>5, <1>6 DEF ResultsTypeOK

\* A call gathers the next keys of the bucket.
LEMMA ListStep ==
  ASSUME ResultsTypeOK, IInv, LInv, ListObjects
  PROVE  ResultsTypeOK' /\ LInv'
<1> DEFINE rest   == {k \in Stored : k > token}
           answer == FirstKeys(rest, PageSize)
           more   == {k \in answer : Kind(k) # "other"}
<1>1. PICK ps \in Found(answer, "page"), rs \in Found(answer, "report") :
        \/ /\ IsTruncated(answer, rest)
           /\ token' = Max(answer)
           /\ pages' = pages \o ps /\ reports' = reports \o rs
           /\ UNCHANGED lpc
        \/ /\ ~IsTruncated(answer, rest)
           /\ pages' \in ByHeight(pages \o ps) /\ reports' \in ByHeight(reports \o rs)
           /\ lpc' = "sum"
           /\ UNCHANGED token
  BY DEF ListObjects
<1>2. /\ lpc = "list"
      /\ throughout' = IF token = 0 THEN Stored ELSE throughout
      /\ ever' = IF token = 0 THEN Stored ELSE ever
      /\ totalBlocks' = totalBlocks /\ summed' = summed
      /\ UNCHANGED <<vars, present, fetchVars>>
  BY DEF ListObjects
<1>3. Stored \in SUBSET Keys /\ rest \in SUBSET Keys
  BY StoredType
<1>4. /\ answer \in SUBSET rest
      /\ \A k \in answer, j \in rest : j < k => j \in answer
      /\ answer # rest => Max(answer) \in answer /\ \A k \in answer : k <= Max(answer)
  <2>1. PageSize \in Nat \ {0}
    BY KeysAssumption
  <2>2. QED
    BY <1>3, <2>1, Answers
<1> HIDE DEF answer
<1>5. token \in Nat /\ \A k \in Keys : k \in Nat /\ k >= 1
  BY KeysAssumption DEF ResultsTypeOK, Keys
<1>6. \A k \in answer : k \in Stored /\ k \in Keys /\ k > token
  BY <1>3, <1>4
<1>7. \A k \in Listed : k \in Keys /\ k <= token
  BY <1>2 DEF LInv, Gathered, Past
<1>8. \A k \in Keys : Kind(k) \in {"page", "report", "other"}
  BY KeysAssumption DEF Kind, Contents
<1>9. /\ ps \in Seq(Keys) /\ IsInjective(ps) /\ Range(ps) = {k \in answer : Kind(k) = "page"}
      /\ rs \in Seq(Keys) /\ IsInjective(rs) /\ Range(rs) = {k \in answer : Kind(k) = "report"}
  <2>1. answer \in SUBSET Keys
    BY <1>6
  <2>2. QED
    BY <2>1, FoundIn
<1>10. /\ pages \o ps \in Seq(Keys) /\ IsInjective(pages \o ps)
       /\ Range(pages \o ps) = Range(pages) \cup Range(ps)
       /\ reports \o rs \in Seq(Keys) /\ IsInjective(reports \o rs)
       /\ Range(reports \o rs) = Range(reports) \cup Range(rs)
  <2>1. Range(pages) \cap Range(ps) = {} /\ Range(reports) \cap Range(rs) = {}
    BY <1>5, <1>6, <1>7, <1>9 DEF Listed
  <2>2. pages \in Seq(Keys) /\ reports \in Seq(Keys) /\ IsInjective(pages) /\ IsInjective(reports)
    BY DEF ResultsTypeOK, LInv, Gathered
  <2>3. QED
    BY <1>9, <2>1, <2>2, Behind
<1>11. /\ pages' \in Seq(Keys) /\ IsInjective(pages') /\ Range(pages') = Range(pages) \cup Range(ps)
       /\ reports' \in Seq(Keys) /\ IsInjective(reports')
       /\ Range(reports') = Range(reports) \cup Range(rs)
       /\ lpc' = "sum" => Ascending(pages') /\ Ascending(reports')
  <2>1. CASE pages' = pages \o ps /\ reports' = reports \o rs /\ lpc' = lpc
    BY <1>2, <1>10, <2>1
  <2>2. CASE pages' \in ByHeight(pages \o ps) /\ reports' \in ByHeight(reports \o rs)
    BY <1>10, <2>2, SortKeeps
  <2>3. QED
    BY <1>1, <2>1, <2>2
<1>12. Listed' = Listed \cup more
  BY <1>6, <1>8, <1>9, <1>11 DEF Listed
<1>13. throughout' \subseteq Stored /\ Stored \subseteq ever' /\ ever' \subseteq Keys
       /\ Listed \subseteq ever'
  BY <1>2, <1>3 DEF LInv, Watched, Gathered, ResultsTypeOK
<1>14. \A k \in throughout' : k <= token /\ Kind(k) # "other" => k \in Listed
  <2>1. CASE token = 0
    BY <1>3, <1>5, <1>13, <2>1
  <2>2. CASE token # 0
    BY <1>2, <1>3, <1>13, <2>2 DEF LInv, Gathered, Past
  <2>3. QED
    BY <2>1, <2>2
<1>15. \A k \in throughout' : k > token => k \in rest
  BY <1>13
<1>16. \A k \in throughout' : k \in Nat /\ (k <= token \/ k > token)
  BY <1>3, <1>5, <1>13
<1>17. \A k \in throughout' : k \in Past' /\ Kind(k) # "other" => k \in Listed'
  <2>1. CASE answer # rest /\ token' = Max(answer) /\ lpc' = lpc
    <3>1. SUFFICES ASSUME NEW k \in throughout', k <= Max(answer), k > token
                   PROVE  k \in answer
      BY <1>2, <1>12, <1>14, <1>16, <2>1 DEF Past
    <3>2. k \in rest /\ k \in Nat /\ Max(answer) \in answer /\ Max(answer) \in Nat
      BY <1>4, <1>5, <1>6, <1>15, <1>16, <2>1, <3>1
    <3>3. k < Max(answer) \/ k = Max(answer)
      BY <3>1, <3>2
    <3>4. QED
      BY <1>4, <3>2, <3>3
  <2>2. CASE answer = rest
    BY <1>12, <1>14, <1>15, <1>16, <2>2
  <2>3. QED
    BY <1>1, <2>1, <2>2 DEF IsTruncated
<1>18. \A k \in Listed' : k \in ever' /\ k \in Past' /\ Kind(k) # "other"
  <2>1. \A k \in Listed' : k \in ever' /\ k \in Keys /\ Kind(k) # "other"
    BY <1>2, <1>6, <1>7, <1>12, <1>13 DEF LInv, Gathered
  <2>2. CASE answer # rest /\ token' = Max(answer) /\ lpc' = lpc
    <3>1. Max(answer) \in Nat /\ Max(answer) > token /\ \A k \in answer : k <= Max(answer)
      BY <1>4, <1>5, <1>6, <2>2
    <3>2. \A k \in Listed : k <= Max(answer)
      BY <1>5, <1>7, <3>1
    <3>3. \A k \in Listed' : k <= Max(answer)
      BY <1>12, <3>1, <3>2
    <3>4. QED
      BY <1>2, <2>1, <2>2, <3>3 DEF Past
  <2>3. CASE lpc' = "sum"
    BY <2>1, <2>3 DEF Past
  <2>4. QED
    BY <1>1, <2>2, <2>3 DEF IsTruncated
<1>19. Gathered'
  <2>1. \A k \in Range(pages') : Kind(k) = "page"
    BY <1>9, <1>11 DEF LInv, Gathered
  <2>2. \A k \in Range(reports') : Kind(k) = "report"
    BY <1>9, <1>11 DEF LInv, Gathered
  <2>3. QED
    BY <1>11, <1>17, <1>18, <2>1, <2>2 DEF Gathered, Kind
<1>20. Stored' = Stored
  BY <1>2 DEF Stored, vars
<1>21. Watched'
  <2>1. lpc' = "list" => token' # 0
    BY <1>1, <1>4, <1>5, <1>6 DEF IsTruncated
  <2>2. QED
    BY <1>13, <1>20, <2>1 DEF Watched
<1>22. Ordered'
  <2>1. lpc' \in {"list", "sum"}
    BY <1>1, <1>2
  <2>2. QED
    BY <1>11, <2>1 DEF Ordered, Ascending
<1>23. Added' /\ summed' = 0 /\ totalBlocks' = 0
  <2>1. summed' = 0 /\ totalBlocks' = 0 /\ lpc' # "done"
    BY <1>1, <1>2 DEF LInv, Added
  <2>2. /\ totalBlocks' = Cardinality(CoveredBy(pages', summed'))
        /\ Apart(pages', summed')
    BY <2>1, NothingAdded
  <2>3. QED
    BY <2>1, <2>2 DEF Added
<1>24. ResultsTypeOK'
  <2>1. TypeOK'
    BY <1>2, TypeStep DEF ResultsTypeOK
  <2>2. token' \in {0} \cup Keys
    BY <1>1, <1>4, <1>6 DEF IsTruncated, ResultsTypeOK
  <2>3. lpc' \in {"list", "sum", "done", "error"}
    BY <1>1, <1>2
  <2>4. summed' \in 0..Len(pages') /\ totalBlocks' \in Nat
    BY <1>11, <1>23
  <2>5. throughout' \subseteq Keys /\ ever' \subseteq Keys
    BY <1>3, <1>13
  <2>6. /\ present' \subseteq Keys \ {EmitKey}
        /\ fetch' \in {"get", "body", "ok", "error"} /\ body' \in Seq(Symbols) \cup {Old}
    BY <1>2 DEF fetchVars, ResultsTypeOK
  <2>7. QED
    BY <1>11, <2>1, <2>2, <2>3, <2>4, <2>5, <2>6 DEF ResultsTypeOK
<1>25. QED
  BY <1>19, <1>21, <1>22, <1>23, <1>24 DEF LInv

\* A page is added up.
LEMMA AddStep ==
  ASSUME ResultsTypeOK, LInv, AddPage
  PROVE  ResultsTypeOK' /\ LInv'
<1>1. /\ lpc = "sum" /\ summed < Len(pages) /\ summed' = summed + 1
      /\ totalBlocks' = totalBlocks + Blocks(pages[summed + 1])
      /\ UNCHANGED <<vars, present, lpc, token, pages, reports, history, fetchVars>>
  BY DEF AddPage
<1>2. pages \in Seq(Keys) /\ summed \in 0..Len(pages) /\ totalBlocks \in Nat
  BY DEF ResultsTypeOK
<1>3. /\ summed + 1 \in 0..Len(pages)
      /\ pages[summed + 1] \in Keys
  BY <1>1, <1>2
<1>4. totalBlocks + Blocks(pages[summed + 1]) \in Nat
  BY <1>2, <1>3, PageBlocks
<1>5. /\ totalBlocks' >= Cardinality(CoveredBy(pages, summed + 1))
      /\ totalBlocks' = Cardinality(CoveredBy(pages, summed + 1)) <=> Apart(pages, summed + 1)
  BY <1>1, <1>2, OnePageMore DEF LInv, Added
<1>6. Added'
  BY <1>1, <1>5 DEF Added
<1>7. Gathered' /\ Watched' /\ Ordered'
  BY <1>1 DEF history, fetchVars, vars, LInv, Gathered, Watched, Ordered, Listed, Past,
              Stored
<1>8. ResultsTypeOK'
  <2>1. TypeOK'
    BY <1>1, TypeStep DEF ResultsTypeOK
  <2>2. QED
    BY <1>1, <1>3, <1>4, <2>1 DEF history, fetchVars, ResultsTypeOK
<1>9. QED
  BY <1>6, <1>7, <1>8 DEF LInv

\* The list is printed, or a call failed.
LEMMA EndStep ==
  ASSUME ResultsTypeOK, LInv, PrintList \/ ListFails
  PROVE  ResultsTypeOK' /\ LInv'
<1>1. /\ UNCHANGED <<vars, present, token, pages, reports, totalBlocks, summed>>
      /\ UNCHANGED <<history, fetchVars>>
      /\ (lpc = "sum" /\ summed = Len(pages) /\ lpc' = "done") \/ lpc' = "error"
  BY DEF PrintList, ListFails
<1>2. Gathered' /\ Watched' /\ Ordered'
  BY <1>1 DEF history, fetchVars, vars, LInv, Gathered, Watched, Ordered, Listed, Past
<1>3. Added'
  <2>1. lpc' # "list" /\ (lpc' = "done" => summed' = Len(pages'))
    BY <1>1
  <2>2. CoveredBy(pages', summed') = CoveredBy(pages, summed)
        /\ (Apart(pages', summed') <=> Apart(pages, summed)) /\ totalBlocks' = totalBlocks
    BY <1>1
  <2>3. QED
    BY <2>1, <2>2 DEF LInv, Added
<1>4. ResultsTypeOK'
  <2>1. TypeOK'
    BY <1>1, TypeStep DEF ResultsTypeOK
  <2>2. QED
    BY <1>1, <2>1 DEF history, fetchVars, ResultsTypeOK
<1>5. QED
  BY <1>2, <1>3, <1>4 DEF LInv

\* A fetch opens the object that is there, or fails.
LEMMA FetchStep ==
  ASSUME ResultsTypeOK, IInv, LInv, GetObject \/ Decode
  PROVE  ResultsTypeOK' /\ LInv'
<1>1. UNCHANGED <<vars, present, listVars, history>>
  BY DEF GetObject, Decode
<1>2. fetch' \in {"get", "body", "ok", "error"} /\ body' \in Seq(Symbols) \cup {Old}
  BY DEF GetObject, Decode, ResultsTypeOK, TypeOK
<1>3. Gathered' /\ Watched' /\ Ordered'
  BY <1>1 DEF history, listVars, vars, LInv, Gathered, Watched, Ordered, Listed, Past, Stored
<1>4. Added'
  BY <1>1 DEF listVars, LInv, Added
<1>5. ResultsTypeOK'
  <2>1. TypeOK'
    BY <1>1, TypeStep DEF ResultsTypeOK
  <2>2. QED
    BY <1>1, <1>2, <2>1 DEF history, listVars, ResultsTypeOK
<1>6. QED
  BY <1>3, <1>4, <1>5 DEF LInv

\* The emit or the bucket moves.
LEMMA BucketStep ==
  ASSUME ResultsTypeOK, IInv, LInv, Emit \/ Others
  PROVE  ResultsTypeOK' /\ LInv'
<1>1. UNCHANGED <<listVars, fetchVars>> /\ Observed /\ [Next]_vars
  BY DEF Emit, Others
<1>2. TypeOK'
  BY <1>1, TypeStep DEF ResultsTypeOK
<1>3. present' \subseteq Keys \ {EmitKey}
  BY DEF Emit, Others, ResultsTypeOK
<1>4. Stored' \subseteq Keys
  BY <1>3, EmitAssumption DEF Stored
<1>5. /\ Gathered' /\ Watched' /\ Ordered' /\ Added' /\ Listed' = Listed
      /\ throughout' \subseteq Keys /\ ever' \subseteq Keys
  BY <1>1, <1>4, ObservedStep
<1>6. ResultsTypeOK'
  BY <1>1, <1>2, <1>3, <1>5 DEF listVars, fetchVars, ResultsTypeOK
<1>7. QED
  BY <1>5, <1>6 DEF LInv

LEMMA ResultsStep ==
  ASSUME ResultsTypeOK, IInv, LInv, [ResultsNext]_allVars
  PROVE  ResultsTypeOK' /\ IInv' /\ LInv'
<1>1. IInv'
  BY EmitStep, IInvStep DEF ResultsTypeOK
<1>2. CASE ResultsNext
  BY <1>1, <1>2, ListStep, AddStep, EndStep, FetchStep, BucketStep DEF ResultsNext
<1>3. CASE UNCHANGED allVars
  <2>1. UNCHANGED <<vars, present, listVars, history, fetchVars>>
    BY <1>3 DEF allVars, readers
  <2>2. TypeOK'
    BY <2>1, TypeStep DEF ResultsTypeOK
  <2>3. ResultsTypeOK'
    BY <2>1, <2>2 DEF listVars, history, fetchVars, ResultsTypeOK
  <2>4. Gathered' /\ Watched' /\ Ordered'
    BY <2>1 DEF vars, listVars, history, fetchVars, LInv, Gathered, Watched, Ordered,
                Listed, Past, Stored
  <2>5. Added'
    BY <2>1 DEF listVars, LInv, Added
  <2>6. QED
    BY <1>1, <2>3, <2>4, <2>5 DEF LInv
<1>4. QED
  BY <1>2, <1>3

LEMMA ResultsInvariance == ResultsSpec => [](ResultsTypeOK /\ IInv /\ LInv)
<1>1. ResultsTypeOK /\ IInv /\ LInv /\ [ResultsNext]_allVars => (ResultsTypeOK /\ IInv /\ LInv)'
  BY ResultsStep
<1>2. QED
  BY ResultsInitLInv, <1>1, PTL DEF ResultsSpec

-----------------------------------------------------------------------------
(* The theorems about its readers.                                         *)

\* The variables of the readers and of the emit keep their types.
THEOREM ResultsTypeCorrect == ResultsSpec => []ResultsTypeOK
BY ResultsInvariance, PTL

\* Reading never disturbs an emit: with readers around it, it is still an emit,
\* so all that is shown of one above holds.
THEOREM ReadingDisturbsNoEmit == ResultsSpec => Spec
<1>1. ResultsInit => Init
  BY DEF ResultsInit
<1>2. [ResultsNext]_allVars => [Next]_vars
  BY EmitStep
<1>3. QED
  BY <1>1, <1>2, PTL DEF ResultsSpec, Spec

\* A listing of any bucket, of any size of its answers, is faithful: all that
\* was there throughout, nothing twice, nothing that never was, by height.
THEOREM FaithfulListing == ResultsSpec => []ListingIsFaithful
<1>1. ResultsTypeOK /\ LInv => ListingIsFaithful
  <2> SUFFICES ASSUME ResultsTypeOK, LInv, lpc = "done"
               PROVE  /\ {k \in throughout : Kind(k) # "other"} \subseteq Listed
                      /\ Listed \subseteq {k \in ever : Kind(k) # "other"}
                      /\ Ascending(pages) /\ Ascending(reports)
    BY DEF ListingIsFaithful
  <2>1. Past = Keys /\ throughout \subseteq Keys
    BY DEF Past, ResultsTypeOK
  <2>2. QED
    BY <2>1 DEF LInv, Gathered, Ordered
<1>2. QED
  BY <1>1, ResultsInvariance, PTL

\* The blocks it says are covered are never fewer than the heights that its
\* pages cover, and as many only when no two pages overlap.
THEOREM BlocksAreCovered == ResultsSpec => []BlocksCover
<1>1. ResultsTypeOK /\ LInv => BlocksCover
  <2> SUFFICES ASSUME ResultsTypeOK, LInv, lpc = "done"
               PROVE  /\ totalBlocks >= Cardinality(Covered)
                      /\ totalBlocks = Cardinality(Covered) <=>
                           \A j, k \in Range(pages) :
                              j # k => (Content[j].start .. Content[j].end)
                                          \cap (Content[k].start .. Content[k].end) = {}
    BY DEF BlocksCover
  <2>1. pages \in Seq(Keys) /\ summed = Len(pages) /\ IsInjective(pages)
    BY DEF ResultsTypeOK, LInv, Added, Gathered
  <2>2. DOMAIN pages = 1..summed
    BY <2>1
  <2>3. Covered = CoveredBy(pages, summed)
    BY <2>2 DEF Covered, CoveredBy, Heights, Range
  <2>4. Apart(pages, summed) <=>
          \A j, k \in Range(pages) : j # k => Heights(j) \cap Heights(k) = {}
    <3>1. Range(pages) = {pages[i] : i \in 1..summed}
      BY <2>2 DEF Range
    <3>2. \A i, j \in 1..summed : pages[i] = pages[j] => i = j
      BY <2>1, <2>2 DEF IsInjective
    <3>3. ASSUME Apart(pages, summed), NEW j \in Range(pages), NEW k \in Range(pages), j # k
          PROVE  Heights(j) \cap Heights(k) = {}
      BY <3>1, <3>3 DEF Apart
    <3>4. ASSUME \A j, k \in Range(pages) : j # k => Heights(j) \cap Heights(k) = {}
          PROVE  Apart(pages, summed)
      BY <3>1, <3>2, <3>4 DEF Apart
    <3>5. QED
      BY <3>3, <3>4
  <2>5. QED
    BY <2>3, <2>4 DEF LInv, Added, Heights
<1>2. QED
  BY <1>1, ResultsInvariance, PTL

=============================================================================
