------------------------------- MODULE S3Store -------------------------------
(***************************************************************************)
(* src/storage/s3: one call of the S3 store at a time, the timer that      *)
(* bounds it, and an endpoint that may answer anything.  `spoolDir` is the *)
(* temporary file, `body` the response body, `canceled` the call's         *)
(* context.  Signing and URLs are left out.  PageNext is the token loop    *)
(* that decodes one page of a listing from raw XML tokens: the document is *)
(* any sequence of start and end tags, `doc` what was read of it.          *)
(***************************************************************************)
EXTENDS Integers, Sequences, FiniteSets

CONSTANTS Tokens,        \* continuation tokens; "" is none
          MaxSpoolBytes, MaxListPages,
          MaxInt,        \* math.MaxInt64, scaled
          Lengths,       \* lengths of readers tried
          Names, MaxListXMLDepth, MaxListEntries,
          MaxTokens      \* bound: tokens of a document

VARIABLES
  call, spool, body, timer, canceled, list, asked,                          \* a call
  doc, sawRoot, open, inContents, field, entries, entry, outcome            \* a page of a listing

s3Vars == <<call, spool, body, timer, canceled, list, asked>>

pageVars == <<doc, sawRoot, open, inContents, field, entries, entry, outcome>>

NoSpool == [open |-> FALSE, limit |-> 0, length |-> 0, written |-> 0]

NoList == [token |-> "", seen |-> {}, pages |-> 0, page |-> <<>>, yielded |-> 0, errors |-> 0]

Init ==
  /\ call = [op |-> "none", pc |-> "idle", status |-> 0, res |-> ""]
  /\ spool = NoSpool
  /\ body = "none" /\ timer = "off" /\ canceled = FALSE /\ list = NoList /\ asked = <<>>

At(pc) == call.pc = pc

\* context.WithTimeout, or AfterFunc for Open
budget == timer' = "armed" /\ canceled' = FALSE

release == timer' = IF timer = "armed" THEN "stopped" ELSE timer

Goto(pc) == call' = [call EXCEPT !.pc = pc]

Finish(r) == call' = [call EXCEPT !.pc = "done", !.res = r]

\* The deferred cancel ends the budget with the call.
Return(r) == Finish(r) /\ release /\ canceled' = TRUE

BudgetExpires ==
  /\ timer = "armed" /\ timer' = "fired" /\ canceled' = TRUE
  /\ UNCHANGED <<call, spool, body, list, asked>>

Start(op, pc) == /\ call.pc \in {"idle", "closed"} /\ call' = [op |-> op, pc |-> pc, status |-> 0, res |-> ""]
                 /\ budget /\ body' = "none" /\ list' = NoList /\ asked' = <<>>

--------------------------------- (* Put *) ----------------------------------

\* A reader of known length is passed through, any other is spooled to disk.
knownLength(n, limit, known) ==
  /\ Start("put", IF known THEN "send" ELSE "spool")
  /\ spool' = [open |-> ~known, limit |-> limit, length |-> n, written |-> IF known THEN n ELSE 0]

\* One byte past the limit tells an exact fit from an overflow.
spoolRead(limit) == IF limit < MaxInt THEN limit + 1 ELSE limit

spoolCopy ==
  /\ At("spool")
  /\ LET left == (IF spool.length < spoolRead(spool.limit) THEN spool.length ELSE spoolRead(spool.limit))
                   - spool.written
     IN  \/ \E n \in 1..2 : n <= left /\ ~canceled /\ spool.written + n <= spool.limit
              /\ spool' = [spool EXCEPT !.written = @ + n] /\ UNCHANGED <<call, timer, canceled>>
         \/ left = 0 /\ Goto("send") /\ UNCHANGED <<spool, timer, canceled>>
         \/ /\ \E n \in 1..2 : n <= left /\ spool.written + n > spool.limit
            /\ Return("too large") /\ spool' = [spool EXCEPT !.open = FALSE]
         \/ Return("failed") /\ spool' = [spool EXCEPT !.open = FALSE]
  /\ UNCHANGED <<body, list, asked>>

------------------------------- (* exchanges *) ------------------------------

Statuses == {200, 204, 404, 409, 500}

\* client.Do: an error, or a response whose body must be released
do ==
  /\ At("send")
  /\ \/ /\ Return("failed") /\ spool' = [spool EXCEPT !.open = FALSE]
        /\ list' = IF call.op = "list" THEN [list EXCEPT !.errors = @ + 1] ELSE list
        /\ UNCHANGED <<body, asked>>
     \/ \E s \in Statuses :
          /\ body' = "open" /\ call' = [call EXCEPT !.pc = "response", !.status = s]
          /\ UNCHANGED <<spool, timer, canceled, list>>
          /\ asked' = IF call.op = "list" THEN Append(asked, list.token) ELSE asked

Accepts(op, s) ==
  CASE op = "delete" -> s \in {200, 204}
    [] op = "create bucket" -> s \in {200, 409}  \* 409: BucketAlreadyOwnedByYou
    [] OTHER -> s = 200

\* drainFor, which may fail, on every path that ends a call with its response
drainFor(r) ==
  \/ body' = "closed" /\ Return(r)
  \/ body' = "closed" /\ Return("release failed")

\* Put, Stat, Delete, CreateBucket, and every bad status of Open
Answered ==
  /\ At("response") /\ call.op # "list"
  /\ call.op = "open" => ~Accepts("open", call.status)
  /\ \/ drainFor(IF Accepts(call.op, call.status) THEN "ok"
                 ELSE IF call.status = 404 /\ call.op \in {"open", "stat"} THEN "not exist" ELSE "failed")
     \/ call.op = "create bucket" /\ call.status = 409 /\ drainFor("failed")
  /\ spool' = [spool EXCEPT !.open = FALSE]
  /\ UNCHANGED <<list, asked>>

Stat == Start("stat", "send") /\ spool' = NoSpool

Delete == Start("delete", "send") /\ spool' = NoSpool

CreateBucket == Start("create bucket", "send") /\ spool' = NoSpool

Open == Start("open", "send") /\ spool' = NoSpool

\* Mutant: the timer is left running.
openedTimed ==
  /\ timer = "armed" /\ Finish("ok") /\ UNCHANGED <<body, canceled, timer>>

\* A timer that fired makes the response late: Stop decides.
opened ==
  \/ timer = "armed" /\ release /\ Finish("ok") /\ UNCHANGED <<body, canceled>>
  \/ timer = "fired" /\ drainFor("budget exceeded")

OpenAnswered == /\ At("response") /\ call.op = "open" /\ Accepts("open", call.status) /\ opened
                /\ UNCHANGED <<spool, list, asked>>

\* detachedBody.Close, or nothing to close: the caller is done with the result.
Close ==
  /\ At("done") /\ Goto("closed")
  /\ body' = IF body = "open" THEN "closed" ELSE body
  /\ canceled' = TRUE /\ list' = NoList /\ asked' = <<>> /\ UNCHANGED <<spool, timer>>

--------------------------------- (* List *) ---------------------------------

List == Start("list", "send") /\ spool' = NoSpool

ListFails(r) == Return(r) /\ list' = [list EXCEPT !.errors = @ + 1]

repeated(next, n) == next \in list.seen

\* A page is decoded and released before any entry of it is yielded.
ListPage ==
  /\ At("response") /\ call.op = "list" /\ body' = "closed"
  /\ \E n \in 0..1, truncated \in BOOLEAN, next \in Tokens \cup {""} :
       IF call.status # 200 THEN n = 0 /\ ~truncated /\ next = "" /\ ListFails("failed")
       ELSE \/ n = 0 /\ ~truncated /\ next = "" /\ ListFails("undecodable")
            \/ IF truncated /\ (next = "" \/ repeated(next, n) \/ list.pages + 1 >= MaxListPages)
               THEN ListFails("endless")
               ELSE /\ Goto("yield") /\ release /\ canceled' = TRUE
                    /\ list' = [list EXCEPT !.pages = @ + 1, !.page = <<n, truncated, next>>]
  /\ UNCHANGED <<spool, asked>>

\* The caller's context may have ended, and the caller may stop.
ListYield ==
  /\ At("yield") /\ list.page[1] > 0
  /\ \/ /\ list' = [list EXCEPT !.page[1] = @ - 1, !.yielded = @ + 1]
        /\ UNCHANGED <<call, timer, canceled>>
     \/ ListFails("canceled")
     \/ Return("stopped") /\ list' = [list EXCEPT !.yielded = @ + 1]
  /\ UNCHANGED <<spool, body, asked>>

ListNextPage ==
  /\ At("yield") /\ list.page[1] = 0
  /\ IF list.page[2]
     THEN /\ Goto("send") /\ budget
          /\ list' = [list EXCEPT !.seen = @ \cup {list.page[3]}, !.token = list.page[3], !.page = <<>>]
     ELSE Return("ok") /\ UNCHANGED list
  /\ UNCHANGED <<spool, body, asked>>

---------------------------------- (* Next *) --------------------------------

Put == \E n \in Lengths, limit \in {MaxSpoolBytes, MaxInt}, known \in BOOLEAN : knownLength(n, limit, known)

Next ==
  \/ Put \/ Stat \/ Delete \/ CreateBucket \/ Open \/ List
  \/ spoolCopy \/ do \/ Answered \/ OpenAnswered \/ Close \/ BudgetExpires
  \/ ListPage \/ ListYield \/ ListNextPage

Spec == Init /\ [][Next]_s3Vars

------------------------------- (* listPage *) -------------------------------

PageInit ==
  /\ doc = <<>> /\ sawRoot = FALSE /\ open = <<>> /\ inContents = FALSE /\ field = ""
  /\ entries = <<>> /\ entry = {} /\ outcome = ""

Fail == outcome' = "error" /\ UNCHANGED <<sawRoot, open, inContents, field, entries, entry>>

EntryFields == {"Key", "Size", "LastModified"}

PageFields == {"IsTruncated", "NextContinuationToken"}

isField(name, depth) ==
  \/ inContents /\ depth = 3 /\ name \in EntryFields
  \/ ~inContents /\ depth = 2 /\ name \in PageFields

StartElement(name) ==
  LET depth == Len(open) + 1 IN
  /\ outcome = "" /\ Len(doc) < MaxTokens /\ doc' = Append(doc, <<"start", name>>)
  /\ IF \/ Len(open) = MaxListXMLDepth
        \/ ~sawRoot /\ name # "ListBucketResult"
        \/ sawRoot /\ field # ""
        \/ sawRoot /\ depth = 2 /\ name = "Contents" /\ Len(entries) = MaxListEntries
     THEN Fail
     ELSE /\ open' = Append(open, name) /\ sawRoot' = TRUE
          /\ IF sawRoot /\ depth = 2 /\ name = "Contents"
             THEN inContents' = TRUE /\ entry' = {} /\ UNCHANGED field
             ELSE field' = (IF sawRoot /\ isField(name, depth) THEN name ELSE field) /\ UNCHANGED <<inContents, entry>>
          /\ UNCHANGED <<entries, outcome>>

\* The text of a field may also not parse (EndElement).
setListField == field' = "" /\ entry' = IF inContents THEN entry \cup {field} ELSE entry

closes(name) == open # <<>> /\ open[Len(open)] = name

EndElement(name) ==
  LET depth == Len(open) IN
  /\ outcome = "" /\ Len(doc) < MaxTokens /\ doc' = Append(doc, <<"end", name>>)
  /\ IF ~closes(name) THEN Fail
     ELSE \/ /\ field # "" /\ setListField /\ open' = SubSeq(open, 1, depth - 1)
             /\ UNCHANGED <<sawRoot, inContents, entries, outcome>>
          \/ field # "" /\ Fail
          \/ /\ field = "" /\ inContents /\ depth = 2
             /\ entries' = Append(entries, entry) /\ inContents' = FALSE
             /\ open' = SubSeq(open, 1, depth - 1) /\ UNCHANGED <<sawRoot, field, entry, outcome>>
          \/ /\ field = "" /\ depth = 1 /\ outcome' = "ok"
             /\ UNCHANGED <<sawRoot, open, inContents, field, entries, entry>>
          \/ /\ field = "" /\ ~(inContents /\ depth = 2) /\ depth # 1
             /\ open' = SubSeq(open, 1, depth - 1)
             /\ UNCHANGED <<sawRoot, inContents, field, entries, entry, outcome>>

\* The reader ends, or a token is too long or no XML.
EndOfFile ==
  /\ outcome = "" /\ outcome' = IF sawRoot /\ open = <<>> THEN "ok" ELSE "error"
  /\ UNCHANGED <<doc, sawRoot, open, inContents, field, entries, entry>>

PageNext == (\E n \in Names : StartElement(n) \/ EndElement(n)) \/ EndOfFile

PageSpec == PageInit /\ [][PageNext]_pageVars

---------------------------- (* pages, properties *) ---------------------------

\* The names open after the tokens of d; <<"bad">> where a closing tag does not match.
PathOf(d) ==
  LET p[n \in 0..Len(d)] ==
        IF n = 0 THEN <<>>
        ELSE IF p[n - 1] = <<"bad">> THEN <<"bad">>
        ELSE IF d[n][1] = "start" THEN Append(p[n - 1], d[n][2])
        ELSE IF p[n - 1] # <<>> /\ p[n - 1][Len(p[n - 1])] = d[n][2] THEN SubSeq(p[n - 1], 1, Len(p[n - 1]) - 1)
        ELSE <<"bad">>
  IN  p[Len(d)]

\* The elements of the document that are entries: closed Contents right below the root.
EntriesOf(d) ==
  Cardinality({n \in 1..Len(d) : d[n] = <<"end", "Contents">>
                                   /\ PathOf(SubSeq(d, 1, n)) = <<"ListBucketResult">>})

\* A page that decodes is a well-nested document with one root ListBucketResult, and
\* its entries are the Contents elements directly below the root, each with the
\* fields directly below it.  listPage sees one token at a time and keeps only a
\* depth, two flags and the open names.
PageDecoded ==
  outcome = "ok" => /\ PathOf(doc) = <<>> /\ doc[1] = <<"start", "ListBucketResult">>
                    /\ Len(entries) = EntriesOf(doc) /\ Len(entries) <= MaxListEntries

\* While it reads, listPage is inside a field exactly when the open elements are the
\* path of one: nothing of a deeper or a misplaced element reaches an entry.
FieldIsPath ==
  outcome = "" /\ sawRoot =>
    LET path == PathOf(doc) IN
    (field # "") = \/ \E f \in EntryFields : path = <<"ListBucketResult", "Contents", f>>
                   \/ \E f \in PageFields : path = <<"ListBucketResult", f>>

---------------------------- (* calls, properties *) ---------------------------

\* Every path out of a call has removed the spool file, closed the response body
\* and stopped the timer, except that a successful Open hands the body to its caller.
Released ==
  call.pc \in {"done", "closed"} =>
    /\ ~spool.open /\ timer # "armed"
    /\ body # "open" \/ (At("done") /\ call.op = "open" /\ call.res = "ok")

\* "The internal budget covers the handshake and errors, not reading a successful
\* body" (Open): nothing but Close cancels the context under a body the caller reads.
BodyOutlivesBudget == At("done") /\ call.op = "open" /\ call.res = "ok" => ~canceled /\ timer = "stopped"

\* "reads one byte past the limit to distinguish an exact fit from overflow"
\* (spoolCopy): an upload has the whole reader, and only a longer one is too large.
SpoolExact ==
  call.op = "put" =>
    /\ call.pc \in {"send", "response"} => spool.written = spool.length
    /\ call.res = "too large" => spool.length > spool.limit

\* A listing asks for a token once and for a bounded number of pages whatever the
\* endpoint answers, and yields at most one error.
ListBounded ==
  call.op = "list" => /\ \A i, j \in DOMAIN asked : asked[i] = asked[j] => i = j
                      /\ Len(asked) <= MaxListPages /\ list.errors <= 1
=============================================================================
