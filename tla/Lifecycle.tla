----------------------------- MODULE Lifecycle -----------------------------
(***************************************************************************)
(* How a process that serves HTTP and runs jobs starts and stops:           *)
(* httpserver.Server.Run, jobs.Run with its drain, and jobs.Runner.Run.     *)
(* The worker, the scheduler and the listener are goroutines that report    *)
(* their end once, on a channel of capacity one.                            *)
(***************************************************************************)
EXTENDS Naturals, FiniteSets

CONSTANTS
    Drainers,   \* goroutines that call the drain that Run returned
    None

VARIABLES
    ctx,        \* the context of the process is canceled
    chan,       \* what is in (or was taken from) each goroutine's channel
    left,       \* channels that still hold, or will hold, a value
    once,       \* sync.Once of the drain
    drain,      \* where each drainer is
    shutdown,   \* Shutdown was called on the HTTP server
    server      \* where Server.Run is

lifeVars == <<ctx, chan, left, once, drain, shutdown, server>>

Goroutines == {"worker", "scheduler"}
Errors == {"canceled", "failed"}

Init ==
    /\ ctx = FALSE
    /\ \E hosted \in {Goroutines, {"worker"}} :     \* RunScheduler or not
         /\ chan = [g \in hosted \cup {"listener"} |-> None]
         /\ left = hosted
    /\ once = [by |-> None, done |-> FALSE, first |-> "nil", waiting |-> {}, result |-> None]
    /\ drain = [d \in Drainers |-> [pc |-> "run", expired |-> FALSE, result |-> None]]
    /\ shutdown = FALSE
    /\ server = [pc |-> "select", result |-> None, asked |-> FALSE]

Hosted == DOMAIN chan \ {"listener"}

Cancel ==
    /\ ~ctx
    /\ ctx' = TRUE
    /\ UNCHANGED <<chan, left, once, drain, shutdown, server>>

\* Start and StartScheduler end once their context does, or fail before.
Ends(g) ==
    /\ g \in Hosted
    /\ chan[g] = None
    /\ \E r \in {"nil"} \cup Errors :
         /\ r # "failed" => ctx
         /\ chan' = [chan EXCEPT ![g] = r]
    /\ UNCHANGED <<ctx, left, once, drain, shutdown, server>>

(***************************************************************************)
(* drain                                                                    *)
(***************************************************************************)
Goto(d, p) == [drain EXCEPT ![d].pc = p]

\* Runner.Run waits for the cancellation, then drains with a deadline.
Drain(d) ==
    /\ drain[d].pc = "run"
    /\ ctx
    /\ drain' = Goto(d, "once")
    /\ UNCHANGED <<ctx, chan, left, once, shutdown, server>>

Deadline(d) ==
    /\ drain[d].pc \in {"once", "wait"}
    /\ ~drain[d].expired
    /\ drain' = [drain EXCEPT ![d].expired = TRUE]
    /\ UNCHANGED <<ctx, chan, left, once, shutdown, server>>

\* once.Do: the first caller waits for the goroutines, the others for it.
OnceDo(d) ==
    /\ drain[d].pc = "once"
    /\ once.by = None
    /\ once' = [once EXCEPT !.by = d, !.waiting = Hosted]
    /\ drain' = Goto(d, "wait")
    /\ UNCHANGED <<ctx, chan, left, shutdown, server>>

OnceDone(d) ==
    /\ drain[d].pc = "once"
    /\ once.done
    /\ drain' = [drain EXCEPT ![d].pc = "returned", ![d].result = once.result]
    /\ UNCHANGED <<ctx, chan, left, once, shutdown, server>>

\* Mutant: the last error counts.
keepLast(prev, err) == err
keepFirst(prev, err) == IF prev # "nil" \/ err \in {"nil", "canceled"} THEN prev ELSE err

\* One turn of the select loop.
waitRunnables(d) ==
    /\ drain[d].pc = "wait"
    /\ \E g \in once.waiting \cap left :
         /\ chan[g] # None
         /\ left' = left \ {g}
         /\ once' = [once EXCEPT !.waiting = @ \ {g}, !.first = keepFirst(@, chan[g])]
    /\ UNCHANGED <<ctx, chan, drain, shutdown, server>>

Returns(d, r) ==
    /\ once' = [once EXCEPT !.done = TRUE, !.result = r]
    /\ drain' = [drain EXCEPT ![d].pc = "returned", ![d].result = r]
    /\ UNCHANGED <<ctx, chan, left, shutdown, server>>

waitRunnablesDone(d) ==
    /\ drain[d].pc = "wait"
    /\ once.waiting = {}
    /\ Returns(d, once.first)

waitRunnablesExpires(d) ==
    /\ drain[d].pc = "wait"
    /\ once.waiting # {}
    /\ drain[d].expired
    /\ Returns(d, "deadline")

(***************************************************************************)
(* httpserver.Server.Run                                                    *)
(***************************************************************************)
\* ListenAndServe: fails, or ends when Shutdown was called (even before it).
ListenEnds ==
    /\ chan["listener"] = None
    /\ \E r \in {"closed", "failed"} :
         /\ r = "closed" => shutdown
         /\ chan' = [chan EXCEPT !["listener"] = r]
    /\ UNCHANGED <<ctx, left, once, drain, shutdown, server>>

RunListener ==
    /\ server.pc = "select"
    /\ chan["listener"] # None
    /\ server' = [server EXCEPT !.pc = "returned",
                                !.result = IF chan["listener"] = "closed" THEN "nil" ELSE chan["listener"]]
    /\ UNCHANGED <<ctx, chan, left, once, drain, shutdown>>

RunShutdown ==
    /\ server.pc = "select"
    /\ ctx
    /\ shutdown' = TRUE
    /\ server' = [server EXCEPT !.pc = "shutdown", !.asked = TRUE]
    /\ UNCHANGED <<ctx, chan, left, once, drain>>

\* Shutdown returns once the connections are idle, or when its 30 s are over.
RunReturns ==
    /\ server.pc = "shutdown"
    /\ \E r \in {"nil", "deadline"} : server' = [server EXCEPT !.pc = "returned", !.result = r]
    /\ UNCHANGED <<ctx, chan, left, once, drain, shutdown>>

DrainStep(d) ==
    \/ Drain(d) \/ OnceDo(d) \/ OnceDone(d)
    \/ waitRunnables(d) \/ waitRunnablesDone(d) \/ waitRunnablesExpires(d)

RunStep == RunListener \/ RunShutdown \/ RunReturns

Next ==
    \/ Cancel
    \/ \E g \in Goroutines : Ends(g)
    \/ \E d \in Drainers : DrainStep(d) \/ Deadline(d)
    \/ ListenEnds \/ RunStep

Spec == Init /\ [][Next]_lifeVars

(***************************************************************************)
(* Properties.                                                              *)
(***************************************************************************)
\* nil from the drain means that every goroutine ended and none failed; an error
\* of one is what it returns unless its deadline came first (waitRunnables,
\* keepFirst).
DrainTellsTruth ==
    \A d \in Drainers : drain[d].pc = "returned" =>
        /\ drain[d].result = "nil" => \A g \in Hosted : chan[g] \in {"nil", "canceled"}
        /\ drain[d].result = "failed" => \E g \in Hosted : chan[g] = "failed"
        /\ drain[d].result \in {"nil", "failed", "deadline"}

\* All callers of the drain are told the same (it "caches the result").
DrainsAgree ==
    \A d, e \in Drainers :
        drain[d].pc = "returned" /\ drain[e].pc = "returned" => drain[d].result = drain[e].result

\* What ends a drain and Server.Run, and that they have ended.
Draining(d) == drain[d].pc # "run"
Drained(d) == drain[d].pc = "returned"
Stopping == ctx \/ chan["listener"] = "failed"
Stopped == server.pc = "returned"
=============================================================================
