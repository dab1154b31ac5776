---------------------------- MODULE AuthRedirect ----------------------------
(***************************************************************************)
(* How a connection obtains its authorization code: get_authorize_code and *)
(* handle_auth_redirect of oauth/oauth_token.c on top of the embedded HTTP *)
(* server of sandbird/sandbird.c.                                          *)
(*                                                                         *)
(* The calling thread runs the server: it polls it until the handler has   *)
(* set "stopped", which it does on the CLOSE event of any stream.  The     *)
(* application's callback, which opens the authorization page, runs in a   *)
(* thread of its own.  Browsers connect, send a request, stay silent or    *)
(* hang up, all at any time; a stream is a connection to the server.       *)
(***************************************************************************)
EXTENDS Naturals, Sequences, FiniteSets, SequencesExt

CONSTANT Stream     \* connections browsers may open during one wait

VARIABLES
    phase,      \* where the calling thread is
    streams,    \* srv->streams, newest first
    todo,       \* streams the running poll has still to look at
    ready,      \* the fd sets select() filled: read, write, accept
    state,      \* state of each stream
    inbox,      \* what the peer sent and the server did not read
    reply,      \* TRUE while send_buf holds the 200 status line
    idle,       \* TRUE when last_activity is more than 30 seconds ago
    closed,     \* observer: CLOSE events emitted for each stream
    handled,    \* observer: the requests that reached the handler
    stopped,    \* the flag that ends the wait
    code,       \* the code buffer: empty, a code, a truncated code
    hive_error, \* TRUE when the calling thread's error code is not 0
    thread,     \* the thread of request_auth_entry
    result      \* what get_authorize_code returned

serverVars == <<streams, todo, ready, state, reply, closed>>
handlerVars == <<handled, stopped, code, hive_error>>
vars == <<phase, serverVars, inbox, idle, handlerVars, thread, result>>

(* A request by what the handler makes of it; "empty_code" is "?code=".    *)
(* "malformed" has no valid request line and never reaches the handler; a  *)
(* "part" of a request leaves the stream waiting for the rest.             *)
Request == {"code", "long_code", "empty_code", "no_code", "wrong_path", "malformed"}

NoneReady == [read |-> {}, write |-> {}, accept |-> FALSE]

Init ==
    /\ phase = "start"
    /\ streams = <<>>
    /\ todo = <<>>
    /\ ready = NoneReady
    /\ state = [s \in Stream |-> "none"]
    /\ inbox = [s \in Stream |-> "nothing"]
    /\ reply = [s \in Stream |-> FALSE]
    /\ idle = [s \in Stream |-> FALSE]
    /\ closed = [s \in Stream |-> 0]
    /\ handled = {}
    /\ stopped = FALSE
    /\ code = "empty"
    /\ hive_error \in BOOLEAN
    /\ thread = "none"
    /\ result = "pending"

-----------------------------------------------------------------------------
(* get_authorize_code: start                                               *)

Return(r) == phase' = "returned" /\ result' = r

(* sb_new_server fails: no error is set.                                   *)
NoServer ==
    /\ phase = "start"
    /\ Return("null")
    /\ UNCHANGED <<serverVars, inbox, idle, handlerVars, thread>>

(* A URL that does not parse or a thread that cannot be created.           *)
NoThread ==
    /\ phase = "start"
    /\ hive_error' = TRUE
    /\ Return("null")
    /\ UNCHANGED <<serverVars, inbox, idle, handled, stopped, code, thread>>

Listen ==
    /\ phase = "start"
    /\ phase' = "select"
    /\ thread' = "running"
    /\ UNCHANGED <<serverVars, inbox, idle, handlerVars, result>>

-----------------------------------------------------------------------------
(* sb_poll_server                                                          *)

Readable == {s \in Range(streams) : state[s] = "receiving" /\ inbox[s] # "nothing"}
Writable == {s \in Range(streams) : state[s] = "sending"}
Waiting == {s \in Stream : state[s] = "queued"}

StartSweep(r) ==
    /\ phase' = "sweep"
    /\ todo' = streams
    /\ ready' = r
    /\ UNCHANGED <<streams, state, reply, closed, inbox, idle, handlerVars, thread, result>>

Select ==
    /\ phase = "select"
    /\ Readable \cup Writable \cup Waiting # {}
    /\ StartSweep([read |-> Readable, write |-> Writable, accept |-> Waiting # {}])

(* 300 seconds without an event.                                           *)
SelectTimesOut ==
    /\ phase = "select"
    /\ Readable \cup Writable \cup Waiting = {}
    /\ StartSweep(NoneReady)

Sweeping(s) == phase = "sweep" /\ todo # <<>> /\ s = Head(todo)

(* Variant of Destroy that leaves the stream in the list.                  *)
DestroyKeepsListed(s) ==
    /\ state' = [state EXCEPT ![s] = "gone"]
    /\ closed' = [closed EXCEPT ![s] = @ + 1]
    /\ stopped' = TRUE
    /\ UNCHANGED streams

(* sb_stream_destroy: the CLOSE event makes the handler stop the wait.     *)
Destroy(s) ==
    /\ state' = [state EXCEPT ![s] = "gone"]
    /\ \E i \in DOMAIN streams : streams[i] = s /\ streams' = RemoveAt(streams, i)
    /\ closed' = [closed EXCEPT ![s] = @ + 1]
    /\ stopped' = TRUE

Drop(s) ==
    /\ Destroy(s)
    /\ todo' = Tail(todo)
    /\ UNCHANGED <<phase, ready, reply, inbox, idle, handled, code, hive_error, thread, result>>

(* What sb_get_var leaves in the code buffer; a wrong path is not asked.   *)
CodeAfter(req) ==
    CASE req = "code" -> "whole"
      [] req = "long_code" -> "cut"
      [] req \in {"empty_code", "no_code"} -> "empty"
      [] req = "wrong_path" -> code

Accepted == {"code", "empty_code"}

(* Variant of Handle: a wrong path is ignored without an error.            *)
HandleQuietly(s, req) ==
    /\ handled' = handled \cup {req}
    /\ code' = CodeAfter(req)
    /\ hive_error' = (hive_error \/ req \in {"long_code", "no_code"})
    /\ reply' = [reply EXCEPT ![s] = req \in Accepted]

(* handle_auth_redirect on a request event: a parameter that decodes to    *)
(* the empty string is no error.                                           *)
Handle(s, req) ==
    /\ handled' = handled \cup {req}
    /\ code' = CodeAfter(req)
    /\ hive_error' = (hive_error \/ req \notin Accepted)
    /\ reply' = [reply EXCEPT ![s] = req \in Accepted]

(* sb_stream_recv gets the whole request and emits it.                     *)
ReceiveRequest(s) ==
    /\ Sweeping(s)
    /\ s \in ready.read
    /\ inbox[s] \in Request \ {"malformed"}
    /\ Handle(s, inbox[s])
    /\ inbox' = [inbox EXCEPT ![s] = "nothing"]
    /\ idle' = [idle EXCEPT ![s] = FALSE]
    /\ state' = [state EXCEPT ![s] = "sending"]
    /\ todo' = Tail(todo)
    /\ UNCHANGED <<phase, streams, ready, closed, stopped, thread, result>>

(* Some bytes of a request, not yet all of it.                             *)
ReceivePart(s) ==
    /\ Sweeping(s)
    /\ s \in ready.read
    /\ inbox[s] = "part"
    /\ inbox' = [inbox EXCEPT ![s] = "nothing"]
    /\ idle' = [idle EXCEPT ![s] = FALSE]
    /\ todo' = Tail(todo)
    /\ UNCHANGED <<phase, streams, ready, state, reply, closed, handlerVars, thread, result>>

(* The peer hung up, or its request line is invalid.                       *)
ReceiveEnd(s) ==
    /\ Sweeping(s)
    /\ s \in ready.read
    /\ inbox[s] \in {"end", "malformed"}
    /\ Drop(s)

(* sb_stream_send empties send_buf; the next poll finds nothing to send.   *)
SendReply(s) ==
    /\ Sweeping(s)
    /\ s \in ready.write
    /\ reply[s]
    /\ reply' = [reply EXCEPT ![s] = FALSE]
    /\ idle' = [idle EXCEPT ![s] = FALSE]
    /\ todo' = Tail(todo)
    /\ UNCHANGED <<phase, streams, ready, state, closed, inbox, handlerVars, thread, result>>

(* send() fails: the peer is gone.                                         *)
SendFails(s) ==
    /\ Sweeping(s)
    /\ s \in ready.write
    /\ reply[s]
    /\ Drop(s)

(* Variant of SendDone that keeps the stream open.                         *)
SendDoneKeepsAlive(s) ==
    /\ Sweeping(s)
    /\ s \in ready.write
    /\ ~reply[s]
    /\ todo' = Tail(todo)
    /\ UNCHANGED <<phase, streams, ready, state, reply, closed, inbox, idle, handlerVars,
                   thread, result>>

(* Nothing left to send.                                                   *)
SendDone(s) ==
    /\ Sweeping(s)
    /\ s \in ready.write
    /\ ~reply[s]
    /\ Drop(s)

(* Variant of NoEvent without the timeout.                                 *)
NoEventNoTimeout(s) ==
    /\ Sweeping(s)
    /\ s \notin ready.read \cup ready.write
    /\ todo' = Tail(todo)
    /\ UNCHANGED <<phase, streams, ready, state, reply, closed, inbox, idle, handlerVars,
                   thread, result>>

(* No event on the stream: it may have timed out.                          *)
NoEvent(s) ==
    /\ Sweeping(s)
    /\ s \notin ready.read \cup ready.write
    /\ IF idle[s] THEN Drop(s)
       ELSE /\ todo' = Tail(todo)
            /\ UNCHANGED <<phase, streams, ready, state, reply, closed, inbox, idle,
                           handlerVars, thread, result>>

Accept(s) ==
    /\ phase = "sweep"
    /\ todo = <<>>
    /\ ready.accept
    /\ state[s] = "queued"
    /\ state' = [state EXCEPT ![s] = "receiving"]
    /\ streams' = <<s>> \o streams
    /\ UNCHANGED <<phase, todo, ready, reply, closed, inbox, idle, handlerVars, thread, result>>

(* The poll returns and the wait loop tests "stopped".                     *)
PollReturns ==
    /\ phase = "sweep"
    /\ todo = <<>>
    /\ ready.accept => Waiting = {}
    /\ phase' = IF stopped THEN "join" ELSE "select"
    /\ ready' = NoneReady
    /\ UNCHANGED <<streams, todo, state, reply, closed, inbox, idle, handlerVars, thread, result>>

-----------------------------------------------------------------------------
(* get_authorize_code: end                                                 *)

Join ==
    /\ phase = "join"
    /\ thread = "done"
    /\ phase' = "close"
    /\ UNCHANGED <<serverVars, inbox, idle, handlerVars, thread, result>>

(* sb_close_server                                                         *)
CloseStream ==
    /\ phase = "close"
    /\ streams # <<>>
    /\ Destroy(Head(streams))
    /\ UNCHANGED <<phase, todo, ready, reply, inbox, idle, handled, code, hive_error,
                   thread, result>>

(* Variant of CloseServer that returns the buffer without a look at it.    *)
CloseServerUntested ==
    /\ phase = "close"
    /\ streams = <<>>
    /\ Return("code")
    /\ UNCHANGED <<serverVars, inbox, idle, handlerVars, thread>>

(* Variant of CloseServer that leaves open streams behind.                 *)
CloseServerAtOnce ==
    /\ phase = "close"
    /\ Return(IF code = "empty" THEN "null" ELSE "code")
    /\ UNCHANGED <<serverVars, inbox, idle, handlerVars, thread>>

CloseServer ==
    /\ phase = "close"
    /\ streams = <<>>
    /\ Return(IF code = "empty" THEN "null" ELSE "code")
    /\ UNCHANGED <<serverVars, inbox, idle, handlerVars, thread>>

-----------------------------------------------------------------------------
(* The application's callback and the browsers.                            *)

CallbackReturns ==
    /\ thread = "running"
    /\ thread' = "done"
    /\ UNCHANGED <<phase, serverVars, inbox, idle, handlerVars, result>>

BrowserConnects(s) ==
    /\ phase \notin {"start", "returned"}
    /\ state[s] = "none"
    /\ state' = [state EXCEPT ![s] = "queued"]
    /\ UNCHANGED <<phase, streams, todo, ready, reply, closed, inbox, idle, handlerVars,
                   thread, result>>

BrowserSends(s) ==
    /\ state[s] \in {"queued", "receiving"}
    /\ inbox[s] = "nothing"
    /\ \E m \in Request \cup {"part", "end"} : inbox' = [inbox EXCEPT ![s] = m]
    /\ UNCHANGED <<phase, serverVars, idle, handlerVars, thread, result>>

BecomesIdle(s) ==
    /\ state[s] \in {"receiving", "sending"}
    /\ ~idle[s]
    /\ idle' = [idle EXCEPT ![s] = TRUE]
    /\ UNCHANGED <<phase, serverVars, inbox, handlerVars, thread, result>>

StreamStep(s) ==
    \/ ReceiveRequest(s) \/ ReceivePart(s) \/ ReceiveEnd(s) \/ SendReply(s) \/ SendFails(s)
    \/ SendDone(s) \/ NoEvent(s) \/ Accept(s)

ServerStep ==
    \/ Select \/ SelectTimesOut \/ PollReturns \/ Join \/ CloseStream \/ CloseServer
    \/ \E s \in Stream : StreamStep(s)

Next ==
    \/ NoServer \/ NoThread \/ Listen
    \/ ServerStep
    \/ CallbackReturns
    \/ \E s \in Stream : BrowserConnects(s) \/ BrowserSends(s) \/ BecomesIdle(s)

(* The calling thread runs, and the application's callback returns.        *)
Fairness == WF_vars(ServerStep) /\ WF_vars(CallbackReturns)

Spec == Init /\ [][Next]_vars
FairSpec == Spec /\ Fairness

-----------------------------------------------------------------------------
(* Properties.                                                             *)

(* Types, and the place of a stream: it is in the server's list exactly    *)
(* while it receives or sends.                                             *)
TypeOK ==
    /\ phase \in {"start", "select", "sweep", "join", "close", "returned"}
    /\ streams \in Seq(Stream)
    /\ todo \in Seq(Stream)
    /\ ready \in [read : SUBSET Stream, write : SUBSET Stream, accept : BOOLEAN]
    /\ state \in [Stream -> {"none", "queued", "receiving", "sending", "gone"}]
    /\ inbox \in [Stream -> Request \cup {"nothing", "part", "end"}]
    /\ reply \in [Stream -> BOOLEAN]
    /\ idle \in [Stream -> BOOLEAN]
    /\ closed \in [Stream -> Nat]
    /\ handled \in SUBSET Request
    /\ stopped \in BOOLEAN
    /\ code \in {"empty", "whole", "cut"}
    /\ hive_error \in BOOLEAN
    /\ thread \in {"none", "running", "done"}
    /\ result \in {"pending", "code", "null"}
    /\ Range(streams) = {s \in Stream : state[s] \in {"receiving", "sending"}}

(* When get_authorize_code returns, every stream the server accepted got   *)
(* exactly one CLOSE event, and none is left open.                         *)
StreamsClosedOnce ==
    /\ \A s \in Stream : closed[s] = IF state[s] = "gone" THEN 1 ELSE 0
    /\ phase = "returned" => streams = <<>>

(* A wait that ends without a code and without an error, which             *)
(* oauth_token_request takes for success, saw no request at all or one     *)
(* whose code is empty; any other request leaves a code or an error, even  *)
(* when a later one overwrites the code.                                   *)
SilentOnlyWithoutRequest ==
    code = "empty" /\ ~hive_error => handled = {} \/ "empty_code" \in handled

(* The server keeps what oauth_token_request relies on: the wait ends once *)
(* and, after a request, certainly; it ends with a code only if a browser  *)
(* brought one, and with neither code nor error only if no browser asked   *)
(* for anything or one of them brought an empty code, which may have       *)
(* overwritten the code of another.                                        *)
Wait == INSTANCE AuthWait WITH requests <- handled

AuthWaitSpec == Wait!FairSpec

(* A browser that connects and then stays silent for 30 seconds ends the   *)
(* wait too: the poll after its timeout closes the stream.                 *)
SilentStreamEndsWait ==
    \A s \in Stream : state[s] = "receiving" /\ idle[s] ~> stopped \/ ~idle[s]
=============================================================================
