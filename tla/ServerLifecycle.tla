-------------------------- MODULE ServerLifecycle --------------------------
(***************************************************************************)
(* The service's HTTP server (router.py): one thread accepts connections,  *)
(* each connection has a handler thread, and three budgets bound what the  *)
(* handlers may hold: handler slots, chat requests with the bytes of their *)
(* bodies, and the bytes of provider responses retained until they are     *)
(* answered.  Nothing waits for a budget: without room the request is      *)
(* refused.  A signal stops the service.                                   *)
(*                                                                         *)
(* What a chat request does between its admission and its answer is module *)
(* AttemptLoop; here an attempt is the bytes it retains.                   *)
(***************************************************************************)
EXTENDS Naturals, FiniteSets

CONSTANTS
    Conns,       \* connections there may be at the same time
    NoConn,
    MaxSlots,    \* MAX_ACTIVE_HTTP_HANDLERS
    MaxStreams,  \* the slots of live request streams
    MaxActive,   \* MAX_ACTIVE_CHAT_REQUESTS
    MaxBytes,    \* MAX_AGGREGATE_CHAT_REQUEST_BYTES
    MaxOutput,   \* MAX_AGGREGATE_UPSTREAM_RESPONSE_BYTES
    Bodies       \* lengths a request may declare

ASSUME Limits == /\ IsFiniteSet(Conns) /\ NoConn \notin Conns /\ Bodies \subseteq Nat
                 /\ {MaxSlots, MaxStreams, MaxActive, MaxBytes, MaxOutput} \subseteq Nat \ {0}

VARIABLES
    phase,       \* of the serving thread
    stopping,    \* the signal was seen (server.stopping)
    asked,       \* the serving loop was asked to end
    expired,     \* the seconds a shutdown may wait are over
    accepting,   \* the connection the serving thread is handing over
    conn,        \* [Conns -> what its handler is doing]
    tracked,     \* handler threads the shutdown can wait for
    slots, streams, active, reserved, output,   \* the counters in use
    lease,       \* [Conns -> the bytes of its chat lease]
    spool, kept  \* [Conns -> bytes of the response being read; of those read before]

vars == <<phase, stopping, asked, expired, accepting, conn, tracked, slots, streams, active, reserved, output,
          lease, spool, kept>>
life == <<phase, stopping, asked, expired>>
chat == <<active, reserved, output, lease, spool, kept>>

Phases == {"serving", "closing", "draining", "exited"}
Doings == {"none", "handling", "watching", "admitted", "answering"}
Alive == phase # "exited"

------------------------------------------------------------------------------
(* Connections.                                                            *)

\* The serving thread takes a connection and a slot for its handler; without a slot it
\* answers 503 and closes.
Take(c) ==
    /\ phase = "serving" /\ ~asked /\ accepting = NoConn /\ conn[c] = "none" /\ slots < MaxSlots
    /\ accepting' = c /\ slots' = slots + 1
    /\ UNCHANGED <<life, conn, tracked, streams, chat>>

\* The library tracks handler threads for a later join, except daemon threads, and
\* http.server.ThreadingHTTPServer makes all of them daemons.
DaemonThreads == TRUE

Start(c) ==
    /\ Alive /\ accepting = c
    /\ accepting' = NoConn
    /\ conn' = [conn EXCEPT ![c] = "handling"]
    /\ tracked' = IF DaemonThreads THEN tracked ELSE tracked \cup {c}
    /\ UNCHANGED <<life, slots, streams, chat>>

\* Mutant: the slot of a handler that could not be started is lost.
StartFailsHolding(c) ==
    /\ Alive /\ accepting = c
    /\ accepting' = NoConn
    /\ UNCHANGED <<life, conn, tracked, slots, streams, chat>>

\* The thread cannot be started.
StartFails(c) ==
    /\ Alive /\ accepting = c
    /\ accepting' = NoConn /\ slots' = slots - 1
    /\ UNCHANGED <<life, conn, tracked, streams, chat>>

\* Between two requests of a connection: the client closes it or is quiet for too long.
Hangup(c) ==
    /\ Alive /\ conn[c] = "handling"
    /\ conn' = [conn EXCEPT ![c] = "none"] /\ tracked' = tracked \ {c}
    /\ slots' = slots - 1
    /\ UNCHANGED <<life, accepting, streams, chat>>

\* A live stream of the request log.
Watch(c) ==
    /\ Alive /\ conn[c] = "handling" /\ streams < MaxStreams
    /\ conn' = [conn EXCEPT ![c] = "watching"] /\ streams' = streams + 1
    /\ UNCHANGED <<life, accepting, tracked, slots, chat>>

\* It ends with its connection.
Unwatch(c) ==
    /\ Alive /\ conn[c] = "watching"
    /\ conn' = [conn EXCEPT ![c] = "none"] /\ tracked' = tracked \ {c}
    /\ streams' = streams - 1 /\ slots' = slots - 1
    /\ UNCHANGED <<life, accepting, chat>>

------------------------------------------------------------------------------
(* Chat requests.                                                          *)

Fits(bytes) == active < MaxActive /\ reserved + bytes <= MaxBytes

\* The declared length is reserved before the body is read.
Admit(c, bytes) ==
    /\ Alive /\ conn[c] = "handling" /\ Fits(bytes)
    /\ conn' = [conn EXCEPT ![c] = "admitted"]
    /\ lease' = [lease EXCEPT ![c] = bytes]
    /\ active' = active + 1 /\ reserved' = reserved + bytes
    /\ UNCHANGED <<life, accepting, tracked, slots, streams, output, spool, kept>>

\* A chunk of a response that is buffered.
Spool(c) ==
    /\ Alive /\ conn[c] = "admitted" /\ output < MaxOutput
    /\ output' = output + 1 /\ spool' = [spool EXCEPT ![c] = @ + 1]
    /\ UNCHANGED <<life, accepting, conn, tracked, slots, streams, active, reserved, lease, kept>>

\* The response is complete: its bytes stay reserved until the request ends.
Keep(c) ==
    /\ Alive /\ conn[c] = "admitted" /\ spool[c] > 0
    /\ spool' = [spool EXCEPT ![c] = 0] /\ kept' = [kept EXCEPT ![c] = @ + spool[c]]
    /\ UNCHANGED <<life, accepting, conn, tracked, slots, streams, active, reserved, output, lease>>

\* The read fails, or there is no room for the next chunk.
Drop(c) ==
    /\ Alive /\ conn[c] = "admitted" /\ spool[c] > 0
    /\ output' = output - spool[c] /\ spool' = [spool EXCEPT ![c] = 0]
    /\ UNCHANGED <<life, accepting, conn, tracked, slots, streams, active, reserved, lease, kept>>

\* The answer, a stream or a body, is on its way to the client.
Answer(c) ==
    /\ Alive /\ conn[c] = "admitted" /\ spool[c] = 0
    /\ conn' = [conn EXCEPT ![c] = "answering"]
    /\ UNCHANGED <<life, accepting, tracked, slots, streams, chat>>

\* The request ends, answered or not.
End(c) ==
    /\ Alive /\ conn[c] \in {"admitted", "answering"} /\ spool[c] = 0
    /\ conn' = [conn EXCEPT ![c] = "handling"]
    /\ active' = active - 1 /\ reserved' = reserved - lease[c] /\ output' = output - kept[c]
    /\ lease' = [lease EXCEPT ![c] = 0] /\ kept' = [kept EXCEPT ![c] = 0]
    /\ UNCHANGED <<life, accepting, tracked, slots, streams, spool>>

------------------------------------------------------------------------------
(* Shutdown.                                                               *)

\* SIGTERM or SIGINT; a second one changes nothing.
Signal ==
    /\ Alive /\ ~stopping /\ stopping' = TRUE
    /\ UNCHANGED <<phase, asked, expired, accepting, conn, tracked, slots, streams, chat>>

\* Mutant: the loop is asked to end by its own thread, which waits for the loop to end.
AskFromLoop ==
    /\ stopping /\ ~asked /\ phase = "closing" /\ asked' = TRUE
    /\ UNCHANGED <<phase, stopping, expired, accepting, conn, tracked, slots, streams, chat>>

\* The thread the signal started asks the loop to end.
Ask ==
    /\ stopping /\ ~asked /\ asked' = TRUE
    /\ UNCHANGED <<phase, stopping, expired, accepting, conn, tracked, slots, streams, chat>>

\* The loop ends between two connections.
LoopEnds ==
    /\ phase = "serving" /\ asked /\ accepting = NoConn /\ phase' = "closing"
    /\ UNCHANGED <<stopping, asked, expired, accepting, conn, tracked, slots, streams, chat>>

\* The listening socket is closed, joining nothing.
CloseServer ==
    /\ phase = "closing" /\ phase' = "draining"
    /\ UNCHANGED <<stopping, asked, expired, accepting, conn, tracked, slots, streams, chat>>

Expire ==
    /\ phase = "draining" /\ ~expired /\ expired' = TRUE
    /\ UNCHANGED <<phase, stopping, asked, accepting, conn, tracked, slots, streams, chat>>

\* The tracked threads are done, or the wait is over; the process ends, and with it every handler.
Exit ==
    /\ phase = "draining" /\ (tracked = {} \/ expired)
    /\ phase' = "exited"
    /\ UNCHANGED <<stopping, asked, expired, accepting, conn, tracked, slots, streams, chat>>

Init ==
    /\ phase = "serving" /\ stopping = FALSE /\ asked = FALSE /\ expired = FALSE
    /\ accepting = NoConn /\ conn = [c \in Conns |-> "none"] /\ tracked = {}
    /\ slots = 0 /\ streams = 0 /\ active = 0 /\ reserved = 0 /\ output = 0
    /\ lease = [c \in Conns |-> 0] /\ spool = [c \in Conns |-> 0] /\ kept = [c \in Conns |-> 0]

Next ==
    \/ \E c \in Conns :
        \/ Take(c) \/ Start(c) \/ StartFails(c) \/ Hangup(c) \/ Watch(c) \/ Unwatch(c)
        \/ \E bytes \in Bodies : Admit(c, bytes)
        \/ Spool(c) \/ Keep(c) \/ Drop(c) \/ Answer(c) \/ End(c)
    \/ Signal \/ Ask \/ LoopEnds \/ CloseServer \/ Expire \/ Exit

\* The serving thread runs; a thread is started or not; nobody has to close a connection.
Fair ==
    /\ WF_vars(Ask) /\ WF_vars(LoopEnds) /\ WF_vars(CloseServer) /\ WF_vars(Expire) /\ WF_vars(Exit)
    /\ \A c \in Conns : WF_vars(Start(c) \/ StartFails(c))

Spec == Init /\ [][Next]_vars
FairSpec == Spec /\ Fair

------------------------------------------------------------------------------
(* Properties.                                                             *)

\* A type invariant.
TypeOK ==
    /\ phase \in Phases /\ {stopping, asked, expired} \subseteq BOOLEAN
    /\ accepting \in Conns \cup {NoConn} /\ conn \in [Conns -> Doings] /\ tracked \subseteq Conns
    /\ {slots, streams, active, reserved, output} \subseteq Nat
    /\ lease \in [Conns -> Bodies \cup {0}]
    /\ spool \in [Conns -> Nat] /\ kept \in [Conns -> Nat]

\* The bytes of a table, each with its connection: to add them up is to count them.
BytesOf(f) == UNION {{c} \X (1..f[c]) : c \in Conns}
SumOver(f) == Cardinality(BytesOf(f))
Doing(D) == {c \in Conns : conn[c] \in D}

\* Every slot, lease and byte in use belongs to a connection that will give it back, whatever
\* failed, so that no budget ever shrinks for good; and no use exceeds its limit.
Accounted ==
    /\ slots = Cardinality(Doing(Doings \ {"none"})) + (IF accepting = NoConn THEN 0 ELSE 1)
    /\ streams = Cardinality(Doing({"watching"}))
    /\ active = Cardinality(Doing({"admitted", "answering"}))
    /\ reserved = SumOver(lease) /\ output = SumOver(spool) + SumOver(kept)
    /\ \A c \in Conns : conn[c] \notin {"admitted", "answering"} => lease[c] + spool[c] + kept[c] = 0
    /\ slots <= MaxSlots /\ streams <= MaxStreams
    /\ active <= MaxActive /\ reserved <= MaxBytes /\ output <= MaxOutput

\* A signal ends the process, whatever its handlers do.
SignalEnds == stopping ~> phase = "exited"

\* The process ends under no request that is still being answered, unless the wait is over.
DrainsFirst ==
    [][phase # "exited" /\ phase' = "exited" => expired \/ Doing({"admitted", "answering"}) = {}]_vars
==============================================================================
