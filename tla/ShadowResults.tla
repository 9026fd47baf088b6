--------------------------- MODULE ShadowResults ---------------------------
(***************************************************************************)
(* The readers of the shadow results, while an emit publishes one of them: *)
(* `seictl report list' (src/report_list.go), a paginated listing of the   *)
(* bucket, and `seictl report divergence' (src/report.go), one GET.        *)
(*                                                                         *)
(* External: S3.  A call sees the bucket as it is at that moment; a listing *)
(* names keys in the order of their names, after the continuation token.   *)
(* The other objects come and go: other exporters, the bucket's lifecycle. *)
(***************************************************************************)
EXTENDS StreamGzip, FiniteSetsExt

CONSTANTS
  K,         \* the keys under the prefix, 1..K in the order S3 lists them
  Content,   \* what the name of a key says
  EmitKey,   \* the key of the emit
  PageSize   \* the keys of one answer

Keys    == 1..K
Contents == [kind : {"page", "report", "other"}, start : Nat, end : Nat]

ASSUME KeysAssumption ==
  /\ K \in Nat /\ PageSize \in Nat \ {0}
  /\ Content \in [Keys -> Contents]
  /\ \A k \in Keys : Content[k].start <= Content[k].end

ASSUME EmitAssumption == EmitKey \in Keys /\ Content[EmitKey].kind = "report"

VARIABLES
  present,     \* the keys of the objects of others
  lpc,         \* the listing: "list", "sum", "done", "error"
  token,       \* the continuation token: the last key answered
  pages,       \* the keys of the comparison pages it found
  reports,     \* those of the divergence reports
  totalBlocks, \* what it prints at the end
  summed,      \* the pages added up so far
  throughout,  \* history: the keys there since its first call
  ever,        \* history: the keys there at some moment since
  fetch,       \* the divergence report: "get", "body", "ok", "error"
  body         \* the object that the GET opened

listVars  == <<lpc, token, pages, reports, totalBlocks, summed>>
history   == <<throughout, ever>>
fetchVars == <<fetch, body>>
readers   == <<listVars, history, fetchVars>>
allVars   == <<vars, present, readers>>

Stored == present \cup (IF store = Old THEN {} ELSE {EmitKey})

ResultsTypeOK ==
  /\ TypeOK
  /\ present \subseteq Keys \ {EmitKey}
  /\ lpc \in {"list", "sum", "done", "error"} /\ token \in {0} \cup Keys
  /\ pages \in Seq(Keys) /\ reports \in Seq(Keys)
  /\ totalBlocks \in Nat /\ summed \in 0..Len(pages)
  /\ throughout \subseteq Keys /\ ever \subseteq Keys
  /\ fetch \in {"get", "body", "ok", "error"} /\ body \in Seq(Symbols) \cup {Old}

ResultsInit ==
  /\ Init
  /\ present \in SUBSET (Keys \ {EmitKey})
  /\ lpc = "list" /\ token = 0
  /\ pages = <<>> /\ reports = <<>> /\ totalBlocks = 0 /\ summed = 0
  /\ throughout = {} /\ ever = {}
  /\ fetch = "get" /\ body = Old

-----------------------------------------------------------------------------
(* report list.                                                            *)

Kind(k) == Content[k].kind

\* Mutant: the last height of a page is not counted.
BlocksExclusive(k) == Content[k].end - Content[k].start

\* The heights of a page, the last one included.
Blocks(k) == Content[k].end - Content[k].start + 1

\* Mutant: one answer is taken for the whole listing.
TruncatedNever(answer, rest) == FALSE

\* IsTruncated: keys are left behind the answer.
IsTruncated(answer, rest) == answer # rest

FirstKeys(S, n) == {k \in S : Cardinality({j \in S : j < k}) < n}

\* The keys of one kind, in the order of the answer.
Found(answer, kind) ==
  LET ks == {k \in answer : Kind(k) = kind}
  IN {s \in [1..Cardinality(ks) -> ks] : \A i, j \in DOMAIN s : i < j => s[i] < s[j]}

\* What sort.Slice may make of a sequence: it is not stable.
ByHeight(s) ==
  {t \in {[i \in DOMAIN s |-> s[p[i]]] : p \in Bijection(DOMAIN s, DOMAIN s)} :
     \A i, j \in DOMAIN t : i < j => Content[t[i]].start <= Content[t[j]].start}

\* One call, whose keys are sorted into pages and reports; after the last one
\* the entries are ordered by height.
ListObjects ==
  /\ lpc = "list"
  /\ LET rest   == {k \in Stored : k > token}
         answer == FirstKeys(rest, PageSize)
     IN \E ps \in Found(answer, "page"), rs \in Found(answer, "report") :
          \/ /\ IsTruncated(answer, rest)
             /\ token' = Max(answer)
             /\ pages' = pages \o ps /\ reports' = reports \o rs
             /\ UNCHANGED lpc
          \/ /\ ~IsTruncated(answer, rest)
             /\ pages' \in ByHeight(pages \o ps) /\ reports' \in ByHeight(reports \o rs)
             /\ lpc' = "sum"
             /\ UNCHANGED token
  /\ throughout' = IF token = 0 THEN Stored ELSE throughout
  /\ ever' = IF token = 0 THEN Stored ELSE ever
  /\ UNCHANGED <<vars, present, totalBlocks, summed, fetchVars>>

\* The blocks of one page after the other are added up, then all is printed.
AddPage ==
  /\ lpc = "sum" /\ summed < Len(pages)
  /\ summed' = summed + 1
  /\ totalBlocks' = totalBlocks + Blocks(pages[summed + 1])
  /\ UNCHANGED <<vars, present, lpc, token, pages, reports, history, fetchVars>>

PrintList ==
  /\ lpc = "sum" /\ summed = Len(pages)
  /\ lpc' = "done"
  /\ UNCHANGED <<vars, present, token, pages, reports, totalBlocks, summed, history, fetchVars>>

\* A failed call ends the command, which prints nothing of what it has.
ListFails ==
  /\ lpc = "list"
  /\ lpc' = "error"
  /\ UNCHANGED <<vars, present, token, pages, reports, totalBlocks, summed, history, fetchVars>>

-----------------------------------------------------------------------------
(* report divergence: one GET of the key of the emit, decoded as it comes. *)

GetObject ==
  /\ fetch = "get"
  /\ \/ /\ EmitKey \in Stored
        /\ body' = store
        /\ fetch' = "body"
     \/ fetch' = "error" /\ UNCHANGED body
  /\ UNCHANGED <<vars, present, listVars, history>>

\* gunzip needs the footer only where it reads the end, which the decoder of
\* one JSON value does not; a record that is missing ends the decoding.
Decodes(object) == Len(object) >= N /\ SubSeq(object, 1, N) = Payload

\* The connection may break while the body is read.
Decode ==
  /\ fetch = "body"
  /\ \/ Decodes(body) /\ fetch' = "ok"
     \/ fetch' = "error"
  /\ UNCHANGED <<vars, present, listVars, history, body>>

-----------------------------------------------------------------------------
(* The bucket around them.                                                 *)

\* While a listing is under way, its history follows the bucket.
Observed ==
  IF lpc = "list" /\ token # 0
  THEN throughout' = throughout \cap Stored' /\ ever' = ever \cup Stored'
  ELSE UNCHANGED history

\* A step of the emit.
Emit == Next /\ UNCHANGED <<present, listVars, fetchVars>> /\ Observed

\* Another exporter publishes, or an object expires; once the listing has
\* ended nothing looks at those.
Others ==
  /\ lpc = "list"
  /\ \E k \in Keys \ {EmitKey} :
       present' = IF k \in present THEN present \ {k} ELSE present \cup {k}
  /\ UNCHANGED <<vars, listVars, fetchVars>>
  /\ Observed

ResultsNext ==
  Emit \/ ListObjects \/ AddPage \/ PrintList \/ ListFails \/ GetObject \/ Decode \/ Others

ResultsSpec == ResultsInit /\ [][ResultsNext]_allVars

\* The emit goes on whatever is read meanwhile.
FairResults == ResultsSpec /\ Fairness

-----------------------------------------------------------------------------
(* Properties.                                                             *)

Listed == Range(pages) \cup Range(reports)

Ascending(s) ==
  \A i, j \in DOMAIN s : i < j => /\ s[i] # s[j]
                                 /\ Content[s[i]].start <= Content[s[j]].start

\* A listing is no snapshot, but it is faithful (report_list.go:99-123): what was
\* there all the time is listed, nothing is listed twice, what is listed was
\* there at some moment, and the names, which are not padded, come out by height.
ListingIsFaithful ==
  lpc = "done" =>
    /\ {k \in throughout : Kind(k) # "other"} \subseteq Listed
    /\ Listed \subseteq {k \in ever : Kind(k) # "other"}
    /\ Ascending(pages) /\ Ascending(reports)

\* The heights of the pages.
Covered == UNION {Content[k].start .. Content[k].end : k \in Range(pages)}

\* "blocks covered" (report_list.go:125-128, 147) is never short of the heights
\* the pages cover, and exact only when no two pages overlap.
BlocksCover ==
  lpc = "done" =>
    /\ totalBlocks >= Cardinality(Covered)
    /\ totalBlocks = Cardinality(Covered) <=>
         \A j, k \in Range(pages) :
            j # k => (Content[j].start .. Content[j].end)
                        \cap (Content[k].start .. Content[k].end) = {}

=============================================================================
