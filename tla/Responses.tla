----------------------------- MODULE Responses -----------------------------
(***************************************************************************)
(* How a response reaches the connection.                                  *)
(*                                                                         *)
(* The http.ResponseWriters that fabrik's middleware stacks on top of each *)
(* other, and the handlers that look at them afterwards: Logger and Recover*)
(* (statusWriter), the session middleware (committingWriter), the rate     *)
(* limiter's denial (forced429), the router's error hooks                  *)
(* (defaultStatusWriter) and Adapter.Wrap (commitWriter).                  *)
(* Each remembers whether the response was committed; they must agree with *)
(* the connection and with each other for every order of calls a handler   *)
(* can make, panics included.  stack[1] is the outermost layer.  Layer 0 is*)
(* net/http's own writer.  A call made at layer i is passed to layer i-1.  *)
(*                                                                         *)
(* Apart from it, web/eventstream.go: EventStreamResponse.Respond lasts as *)
(* long as its client.  The source, the client and the                     *)
(* connection act on their own; a client that stops reading blocks the     *)
(* handler inside a write.                                                 *)
(***************************************************************************)
EXTENDS Naturals, Sequences, FiniteSets

CONSTANTS
    Stacks,     \* sequences of layers
    Statuses,   \* final statuses a handler writes (none is informational)
    OfferSets,  \* optional interfaces (flush, hijack, readFrom) of the connection's writer
    MaxOps,     \* bound: calls a handler makes on its writer
    Initial,    \* number of initial events
    MaxEvents   \* bound: events of the source

VARIABLES
    stack,      \* the layers of this request
    commitErr,  \* the session commit of this request fails
    offers,     \* those of this connection
    x,          \* the connection and the fields of the layers
    pc,         \* "fn", "respond", "leave" or "done"; of a stream "handshake", "initial", "select", "done"
    at,         \* the layer being left
    outcome,    \* how the code above the layer being left ended
    ops

VARIABLES
    produced,   \* events the source handed to the channel
    closed,     \* the source closed it
    taken,      \* events the handler received
    gone,       \* the request context ended
    stalled,    \* the client does not read
    deadline,   \* the write deadline of the write in progress passed
    frame,      \* the frame being sent
    sent        \* frames that reached the client

writerVars == <<stack, commitErr, offers, x, pc, at, outcome, ops>>

HookStatus == 404
Denied == 429

\* What a layer knows.  wrote stands for wrote, headerWritten and committed
\* (of commitWriter); status is statusWriter's.
Layer == [wrote |-> FALSE, status |-> 200, tried |-> FALSE, failed |-> FALSE, logged |-> 0]

Init ==
    /\ stack \in Stacks
    /\ commitErr \in BOOLEAN
    /\ offers \in OfferSets
    /\ x = [status |-> 0, sent |-> {}, body |-> {}, hijacked |-> FALSE, aborted |-> FALSE,
            badHijack |-> FALSE, asked |-> {}, hdr |-> {}, snapshot |-> {}, 
            lay |-> [i \in 1..Len(stack) |-> Layer]]
    /\ pc = "fn"
    /\ at = Len(stack)
    /\ outcome = "none"
    /\ ops = 0

Top == Len(stack)
Mark(y, i) == [y EXCEPT !.lay[i].wrote = TRUE]

RECURSIVE WriteHeader(_, _, _), Write(_, _, _), Flush(_, _), Hijack(_, _, _)

\* net/http: the first final status goes out with the headers of that moment.
ConnWriteHeader(y, code) ==
    IF y.status # 0 \/ y.hijacked THEN y ELSE [y EXCEPT !.status = code, !.sent = y.hdr]

statusWriterWriteHeader(y, i, code) ==
    WriteHeader(IF y.lay[i].wrote THEN y ELSE [Mark(y, i) EXCEPT !.lay[i].status = code], i - 1, code)

commitWriterWriteHeader(y, i, code) == WriteHeader(Mark(y, i), i - 1, code)

forced429WriteHeader(y, i, code) ==
    IF y.lay[i].wrote THEN y ELSE WriteHeader(Mark(y, i), i - 1, Denied)

defaultStatusWriterWriteHeader(y, i, code) ==
    IF y.lay[i].wrote THEN y ELSE WriteHeader(Mark(y, i), i - 1, code)

\* http.Error on layer i.
Error(y, i, code, who) == Write(WriteHeader(y, i, code), i, who)

\* The commit adds the session cookie; a failure answers 500 by itself.
runCommit(y, i) ==
    IF y.lay[i].tried THEN y
    ELSE LET z == [y EXCEPT !.lay[i].tried = TRUE]
         IN IF commitErr
            THEN [Error(z, i - 1, 500, "commit") EXCEPT !.lay[i].wrote = TRUE, !.lay[i].failed = TRUE]
            ELSE [z EXCEPT !.hdr = @ \cup {"cookie"}]

committingWriterWriteHeader(y, i, code) ==
    IF y.lay[i].wrote THEN y
    ELSE LET z == runCommit(y, i)
         IN IF z.lay[i].wrote THEN z ELSE WriteHeader(Mark(z, i), i - 1, code)

WriteHeader(y, i, code) ==
    IF i = 0 THEN ConnWriteHeader(y, code)
    ELSE CASE stack[i] \in {"logger", "recover"} -> statusWriterWriteHeader(y, i, code)
           [] stack[i] = "session" -> committingWriterWriteHeader(y, i, code)
           [] stack[i] = "limited" -> forced429WriteHeader(y, i, code)
           [] stack[i] = "hook"    -> defaultStatusWriterWriteHeader(y, i, code)
           [] stack[i] = "adapter" -> commitWriterWriteHeader(y, i, code)

\* What each layer does before it lets a byte, a copy or a flush through.
statusWriterTouch(y, i) == Mark(y, i)
commitWriterTouch(y, i) == Mark(y, i)

defaultStatusWriterTouch(y, i) ==
    IF y.lay[i].wrote THEN y ELSE defaultStatusWriterWriteHeader(y, i, HookStatus)

forced429Touch(y, i) == forced429WriteHeader(y, i, Denied)

\* Mutant: the first byte leaves before the commit.
committingAfter(y, i) == Mark(y, i)
committingWriterTouch(y, i) == IF y.lay[i].wrote THEN y ELSE Mark(runCommit(y, i), i)

Touch(y, i) ==
    CASE stack[i] = "logger"  -> statusWriterTouch(y, i)
      [] stack[i] = "recover" -> statusWriterTouch(y, i)
      [] stack[i] = "session" -> committingWriterTouch(y, i)
      [] stack[i] = "limited" -> forced429Touch(y, i)
      [] stack[i] = "hook"    -> defaultStatusWriterTouch(y, i)
      [] stack[i] = "adapter" -> commitWriterTouch(y, i)

\* Bytes of who.  A copy (readFrom) passes the same way; after a failed commit
\* both are swallowed.
Write(y, i, who) ==
    IF i = 0
    THEN IF y.hijacked THEN y ELSE [ConnWriteHeader(y, 200) EXCEPT !.body = @ \cup {who}]
    ELSE LET z == Touch(y, i)
         IN IF z.lay[i].failed THEN z ELSE Write(z, i - 1, who)

Flush(y, i) ==
    IF i = 0 THEN ConnWriteHeader(y, 200) ELSE Flush(Touch(y, i), i - 1)

\* Only a hijack that succeeded is remembered.  The session commits first, and
\* refuses after a failed commit.  ok: the connection lets itself be taken over.
Hijack(y, i, ok) ==
    IF i = 0
    THEN IF ok /\ ~y.hijacked
         THEN [y |-> [y EXCEPT !.hijacked = TRUE], ok |-> TRUE]
         ELSE [y |-> [y EXCEPT !.badHijack = TRUE], ok |-> FALSE]
    ELSE LET z == IF stack[i] = "session" THEN runCommit(y, i) ELSE y
         IN IF z.lay[i].failed THEN [y |-> z, ok |-> FALSE]
            ELSE LET h == Hijack(z, i - 1, ok)
                 IN [h EXCEPT !.y = IF h.ok THEN Mark(@, i) ELSE @]

\* The wrappers offer what the writer below offers (FlushError counts as Flush);
\* forced429 embeds the bare interface and hides everything optional.
Offered == IF \E i \in 1..Top : stack[i] = "limited" THEN {} ELSE offers

(***************************************************************************)
(* The handler.                                                             *)
(***************************************************************************)
HasAdapter == Top > 0 /\ stack[Top] = "adapter"

\* A typed handler writes nothing: it returns a response, or an error that goes
\* to the error handler on the writer under the adapter's.
Wrap ==
    /\ pc = "fn"
    /\ \/ /\ pc' = "respond"
          /\ x' = IF HasAdapter THEN [x EXCEPT !.snapshot = @ \cup x.hdr, !.hdr = @ \cup {"recorded"}] ELSE x
          /\ UNCHANGED <<outcome, at>>
       \/ /\ HasAdapter
          /\ x' = Error(x, Top - 1, 500, "error")
          /\ pc' = "leave"
          /\ at' = Top - 1
          /\ outcome' = "return"
       \/ /\ HasAdapter
          /\ pc' = "leave"
          /\ at' = Top - 1
          /\ outcome' = "panic"
          /\ UNCHANGED x
    /\ UNCHANGED <<stack, commitErr, offers, ops>>

Call ==
    /\ pc = "respond"
    /\ ops < MaxOps
    /\ ops' = ops + 1
    /\ \/ x' = [x EXCEPT !.hdr = @ \cup {"response"}]
       \/ \E code \in Statuses :
              x' = WriteHeader([x EXCEPT !.asked = @ \cup {code}], Top, code)
       \/ x' = Write(x, Top, "handler")
       \/ "readFrom" \in Offered /\ x' = Write(x, Top, "handler")
       \/ "flush" \in Offered /\ x' = Flush(x, Top)
       \/ "hijack" \in Offered /\ \E ok \in BOOLEAN : x' = Hijack(x, Top, ok).y
    /\ UNCHANGED <<stack, commitErr, offers, pc, at, outcome>>

HandlerEnds ==
    /\ pc = "respond"
    /\ pc' = "leave"
    /\ outcome' \in {"return", "panic", "abort"} \cup (IF HasAdapter THEN {"error"} ELSE {})
    /\ UNCHANGED <<stack, commitErr, offers, x, at, ops>>

(***************************************************************************)
(* Each layer on the way out.                                               *)
(***************************************************************************)
Leaving(kind) ==
    /\ pc = "leave"
    /\ at > 0
    /\ stack[at] = kind
    /\ at' = at - 1
    /\ UNCHANGED <<stack, commitErr, offers, pc, ops>>

\* A response that failed before the commit gives way to the error handler, under
\* the headers from before it; one that failed later is only logged.
LeaveAdapter ==
    /\ Leaving("adapter")
    /\ outcome' = IF outcome = "error" THEN "return" ELSE outcome
    /\ x' = IF outcome = "error" /\ ~x.lay[at].wrote
            THEN Error([x EXCEPT !.hdr = x.snapshot], at, 500, "error")
            ELSE x

runErrorHandler ==
    /\ Leaving("hook")
    /\ x' = IF outcome = "return" THEN defaultStatusWriterWriteHeader(x, at, HookStatus) ELSE x
    /\ UNCHANGED outcome

LeaveLimited ==
    /\ Leaving("limited")
    /\ x' = IF outcome = "return" THEN forced429WriteHeader(x, at, Denied) ELSE x
    /\ UNCHANGED outcome

LeaveSession ==
    /\ Leaving("session")
    /\ x' = IF outcome = "return" THEN committingWriterWriteHeader(x, at, 200) ELSE x
    /\ UNCHANGED outcome

Recover ==
    /\ Leaving("recover")
    /\ LET fresh == outcome = "panic" /\ ~x.lay[at].wrote
       IN /\ x' = IF fresh THEN WriteHeader(x, at - 1, 500) ELSE x
          /\ outcome' = IF outcome # "panic" THEN outcome ELSE IF fresh THEN "return" ELSE "abort"

Logger ==
    /\ Leaving("logger")
    /\ x' = [x EXCEPT !.lay[at].logged = x.lay[at].status]
    /\ UNCHANGED outcome

\* net/http: a handler that returned ends the response, one that panicked
\* closes the connection.
Finish ==
    /\ pc = "leave"
    /\ at = 0
    /\ pc' = "done"
    /\ x' = IF outcome = "return" THEN ConnWriteHeader(x, 200)
            ELSE [x EXCEPT !.aborted = ~x.hijacked]
    /\ UNCHANGED <<stack, commitErr, offers, at, outcome, ops>>

Next ==
    \/ Wrap \/ Call \/ HandlerEnds
    \/ LeaveAdapter \/ runErrorHandler \/ LeaveLimited \/ LeaveSession \/ Recover \/ Logger
    \/ Finish

Spec == Init /\ [][Next]_writerVars

(***************************************************************************)
(* Properties.                                                              *)
(***************************************************************************)
Has(kind) == \E i \in 1..Top : stack[i] = kind
At(kind) == CHOOSE i \in 1..Top : stack[i] = kind
Answered == pc = "done" /\ ~x.hijacked /\ ~x.aborted

\* The status Logger logs is the one the client got, whatever the layers below
\* it did with the handler's status (statusWriter).
LoggedStatus ==
    Answered /\ Has("logger") => x.lay[At("logger")].logged = x.status

\* committingWriter: no header leaves before the session commit was tried (but
\* for the 500 that Recover writes outside it), a failed commit answers 500 and lets no byte of the handler through, and a
\* commit that succeeded has its cookie in the headers that left.  (A hijack that
\* failed under an adapter is the exception: its commit's cookie is dropped with
\* the response's headers.)
CommitFirst ==
    Has("session") /\ x.status # 0 =>
        LET l == x.lay[At("session")]
        IN /\ l.tried \/ x.status = 500
           /\ l.tried /\ commitErr => x.status = 500 /\ "handler" \notin x.body
           /\ l.tried /\ ~commitErr /\ ~x.badHijack => "cookie" \in x.sent

\* A handler that returned is committed: a request whose session changed never
\* ends without the commit.
ReturnCommits ==
    pc = "done" /\ Has("session") /\ outcome = "return" /\ x.status \notin {0, 500}
        => x.lay[At("session")].tried

\* A denial answers 429 and a body-only error hook its routing status, in every
\* stack, unless the session commit or a panic made it a 500.
StatusForced ==
    Answered =>
        /\ Has("limited") => x.status \in {Denied, 500}
        /\ Has("hook") => x.status \in {HookStatus, 500} \cup x.asked
        /\ Has("limited") /\ x.status = 500 => commitErr \/ Has("recover")

\* A panic never passes for a complete response: the client sees a 500 that
\* carries nothing of the handler, or a broken connection (Recover).
PanicNeverSucceeds ==
    (pc = "leave" /\ at > 0 /\ stack[at] = "recover" /\ outcome = "panic" /\ outcome' = "return")
     => x.status = 0 \/ (x.status = 500 /\ "handler" \notin x.body)

\* Adapter.Wrap: what the client reads is the response or the error page, never
\* both, and the error page never carries headers of the response that failed.
ErrorPageClean ==
    "error" \in x.body =>
        /\ "handler" \notin x.body
        /\ x.sent \cap {"recorded", "response"} = {}

(***************************************************************************)
(* The event stream.                                                       *)
(***************************************************************************)
streamVars == <<produced, closed, taken, gone, stalled, deadline, pc, frame, sent>>
source == <<produced, closed>>
client == <<gone, stalled>>

NoFrame == <<"none", 0>>

StreamInit ==
    /\ produced = 0 /\ closed = FALSE /\ taken = 0
    /\ gone = FALSE /\ stalled = FALSE /\ deadline = FALSE
    /\ pc = "handshake"
    /\ frame = <<"flush", 0>>
    /\ sent = <<>>

Produce ==
    /\ ~closed
    /\ \/ produced < MaxEvents /\ produced' = produced + 1 /\ UNCHANGED closed
       \/ closed' = TRUE /\ UNCHANGED produced
    /\ UNCHANGED <<taken, client, deadline, pc, frame, sent>>

\* A client that goes away ends the request context; one that stops reading does not.
Client ==
    /\ \/ ~gone /\ gone' = TRUE /\ UNCHANGED stalled
       \/ stalled' = ~stalled /\ UNCHANGED gone
    /\ UNCHANGED <<source, taken, deadline, pc, frame, sent>>

\* Every frame gets a fresh deadline.
Deadline ==
    /\ frame # NoFrame
    /\ ~deadline
    /\ deadline' = TRUE
    /\ UNCHANGED <<source, client, taken, pc, frame, sent>>

\* The deferred onClose runs.
Return == pc' = "done"

\* send succeeds when the client reads, and fails when it is gone or the deadline
\* passed while the write was blocked.
send ==
    /\ frame # NoFrame
    /\ ~stalled \/ gone \/ deadline
    /\ deadline' = FALSE
    /\ frame' = NoFrame
    /\ UNCHANGED <<source, client, taken>>
    /\ \/ /\ ~stalled
          /\ sent' = IF frame[1] \in {"flush", "beat"} THEN sent ELSE Append(sent, frame)
          /\ pc' = IF pc = "handshake" /\ Initial > 0 THEN "initial" ELSE "select"
       \/ /\ gone \/ deadline
          /\ Return
          /\ UNCHANGED sent

RespondInitial ==
    /\ pc = "initial"
    /\ frame = NoFrame
    /\ frame' = <<"initial", Initial>>
    /\ UNCHANGED <<source, client, taken, deadline, pc, sent>>

\* The select of the loop: any case that is ready.
RespondSelect ==
    /\ pc = "select"
    /\ frame = NoFrame
    /\ \/ gone /\ Return /\ UNCHANGED <<taken, frame>>
       \/ closed /\ taken = produced /\ Return /\ UNCHANGED <<taken, frame>>
       \/ /\ taken < produced
          /\ taken' = taken + 1
          /\ frame' = <<"event", taken + 1>>
          /\ UNCHANGED <<pc>>
       \/ frame' = <<"beat", 0>> /\ UNCHANGED <<pc, taken>>
    /\ UNCHANGED <<source, client, deadline, sent>>

Handler == send \/ RespondInitial \/ RespondSelect

StreamNext == Produce \/ Client \/ Deadline \/ Handler

StreamSpec == StreamInit /\ [][StreamNext]_streamVars

\* The client reads the initial events first and then the live ones in order,
\* none twice and none left out.
InOrder ==
    \A i \in 1..Len(sent) :
        sent[i] = IF Initial > 0 /\ i = 1 THEN <<"initial", Initial>>
                  ELSE <<"event", IF Initial > 0 THEN i - 1 ELSE i>>

Ending == gone \/ closed
Ended == pc = "done"
=============================================================================
