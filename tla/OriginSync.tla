----------------------------- MODULE OriginSync -----------------------------
(***************************************************************************)
(* The origin daemon (src/sqlitersync/origin/daemon.go) with the clients   *)
(* that pull databases from it (src/internal/sqlitersync/replica): one     *)
(* accept loop, a goroutine per connection, the two-message preamble of    *)
(* src/sqlitersync/label.go, then rounds of the sync protocol.  Stop, a    *)
(* reload of the configuration, a client that gives up or vanishes and a   *)
(* failing sync come between any two steps.                                *)
(*                                                                         *)
(* A connection is two queues of messages.  A side that closes with unread *)
(* bytes in its queue, or that is written to after it closed, resets the   *)
(* connection, as TCP does.  The sync library is external: what the daemon *)
(* needs of it is that it works in rounds and looks at its context at      *)
(* every message.                                                          *)
(***************************************************************************)
EXTENDS Integers, Sequences

CONSTANTS
    Conns,      \* the connections that are made, one client run each
    Labels,     \* the labels of databases
    Wants,      \* Wants[c]: the label the run on c asks for
    Sources,    \* paths of source databases
    NoPath,     \* the empty path, or no entry of that label
    Configs,    \* the configurations the box may hold: label to source path
    Rounds,     \* bound: hash messages of one sync
    Events,     \* the events the environment may inject
    MaxEvents   \* bound: how many of them happen in a behaviour

EventKinds == {"reload", "cancel", "vanish", "sync"}

ASSUME OriginAssumption ==
    /\ Wants \in [Conns -> Labels]
    /\ Configs # {} /\ Configs \subseteq [Labels -> Sources \cup {NoPath}]
    /\ NoPath \notin Sources
    /\ Rounds \in Nat \ {0} /\ MaxEvents \in Nat
    /\ Events \subseteq EventKinds

VARIABLES
    config,   \* the content of the config box
    stopped,  \* Stop has cancelled the context of the daemon
    open,     \* the listener accepts connections
    loop,     \* the accept goroutine; "done": ShutdownDone is closed
    srv,      \* srv[c]: the server's side of c
    cli,      \* cli[c]: the client's side of c
    up,       \* up[c]: what the client wrote and the server has not read
    down,     \* down[c]: the other direction
    meant,    \* meant[c]: what Wants[c] named since c was dialled (history)
    disturbed,  \* disturbed[c]: what the run on c is owed no answer for has
                \* happened to it since it was dialled (history)
    spent     \* injected events so far

wires == <<up, down>>
daemon == <<stopped, open, loop>>
history == <<meant, disturbed>>
vars == <<config, stopped, open, loop, srv, cli, up, down, meant, disturbed,
          spent>>

-----------------------------------------------------------------------------
Blocking == {"label", "serve"}          \* the handler waits for the client
Handling == {"check", "refuse", "resolve", "reject", "echo", "begin", "close"}
                \cup Blocking
ServerSide == [pc : {"none", "queued", "closed"} \cup Handling,
               armed : BOOLEAN,                  \* a deadline is set
               source : Sources \cup {NoPath},   \* the path of fileCfg
               rounds : 0 .. Rounds]             \* hash messages read

Asking == {"header", "text", "answer"}
Running == Asking \cup {"sync"}
ClientSide == [pc : {"idle", "ended", "gone"} \cup Running,
               result : {"none", "ok", "rejected", "failed"},
               source : Sources \cup {NoPath}]   \* what the replica now holds

UpMessage == {"header", "text", "hash"}
DownMessage == {"echo", "error", "begin", "pages", "end"}

TypeOK ==
    /\ config \in Configs
    /\ stopped \in BOOLEAN /\ open \in BOOLEAN
    /\ loop \in {"accept", "wait", "done"}
    /\ srv \in [Conns -> ServerSide]
    /\ \A c \in Conns : srv[c].pc \in {"echo", "begin", "serve"} =>
                            srv[c].source # NoPath
    /\ cli \in [Conns -> ClientSide]
    /\ up \in [Conns -> Seq(UpMessage)]
    /\ down \in [Conns -> Seq(DownMessage)]
    /\ meant \in [Conns -> SUBSET (Sources \cup {NoPath})]
    /\ disturbed \in [Conns -> BOOLEAN]
    /\ spent \in 0 .. MaxEvents

Init ==
    /\ config \in Configs
    /\ stopped = FALSE
    /\ open = TRUE
    /\ loop = "accept"
    /\ srv = [c \in Conns |-> [pc |-> "none", armed |-> FALSE,
                               source |-> NoPath, rounds |-> 0]]
    /\ cli = [c \in Conns |-> [pc |-> "idle", result |-> "none",
                               source |-> NoPath]]
    /\ up = [c \in Conns |-> <<>>]
    /\ down = [c \in Conns |-> <<>>]
    /\ meant = [c \in Conns |-> {}]
    /\ disturbed = [c \in Conns |-> FALSE]
    /\ spent = 0

Inject(kind) == kind \in Events /\ spent < MaxEvents /\ spent' = spent + 1
NoEvent == UNCHANGED spent
Disturb(c) == disturbed' = [disturbed EXCEPT ![c] = TRUE] /\ UNCHANGED meant

ServerAt(c, label) == srv[c].pc = label
ServerTo(c, label) == srv' = [srv EXCEPT ![c].pc = label]
ClientTo(c, label) == cli' = [cli EXCEPT ![c].pc = label]
EndRun(c, result) ==
    cli' = [cli EXCEPT ![c].pc = "ended", ![c].result = result]

\* Which end of the connection has been closed.
ServerClosed(c) == srv[c].pc = "closed"
ClientClosed(c) == cli[c].pc = "ended"

\* Mutant: an entry without a source path counts.
ServedUnfiltered == Labels

\* entries(): the labels with a source path.
Served == {l \in Labels : config[l] # NoPath}

-----------------------------------------------------------------------------
(* The accept loop.                                                        *)

\* Accept returns a connection: a goroutine of the group is its handler.
Accept(c) ==
    /\ loop = "accept" /\ open
    /\ ServerAt(c, "queued")
    /\ ServerTo(c, "check")
    /\ NoEvent /\ UNCHANGED <<config, daemon, cli, wires, history>>

\* The goroutine that waits for the context closes the listener; connections
\* that were not accepted yet are reset.
CloseListener ==
    /\ stopped /\ open
    /\ open' = FALSE
    /\ srv' = [c \in Conns |-> IF ServerAt(c, "queued")
                               THEN [srv[c] EXCEPT !.pc = "closed"]
                               ELSE srv[c]]
    /\ NoEvent /\ UNCHANGED <<config, stopped, loop, cli, wires, history>>

\* Accept returns net.ErrClosed, the loop breaks.
LeaveLoop ==
    /\ loop = "accept" /\ ~open
    /\ loop' = "wait"
    /\ NoEvent /\ UNCHANGED <<config, stopped, open, srv, cli, wires, history>>

\* Mutant: the group is not joined.
FinishShutdownUnjoined ==
    /\ loop = "wait"
    /\ loop' = "done"
    /\ NoEvent /\ UNCHANGED <<config, stopped, open, srv, cli, wires, history>>

\* group.Wait returns once every handler has, then ShutdownDone is closed.
FinishShutdown ==
    /\ loop = "wait"
    /\ \A c \in Conns : srv[c].pc \notin Handling
    /\ loop' = "done"
    /\ NoEvent /\ UNCHANGED <<config, stopped, open, srv, cli, wires, history>>

-----------------------------------------------------------------------------
(* handleConn.                                                             *)

\* Mutant: the preamble of a connection has no deadline.
CheckUnbounded(c) ==
    /\ ServerAt(c, "check")
    /\ ServerTo(c, IF Served = {} THEN "refuse" ELSE "label")
    /\ NoEvent /\ UNCHANGED <<config, daemon, cli, wires, history>>

\* hasFilesToServe, and the label deadline when it has.
Check(c) ==
    /\ ServerAt(c, "check")
    /\ IF Served = {} THEN ServerTo(c, "refuse")
       ELSE srv' = [srv EXCEPT ![c].pc = "label", ![c].armed = TRUE]
    /\ NoEvent /\ UNCHANGED <<config, daemon, cli, wires, history>>

\* A write to a client that has closed its end may fail.
Say(c, message, next) ==
    /\ \/ /\ down' = [down EXCEPT ![c] = Append(@, message)]
          /\ ServerTo(c, next)
       \/ /\ ClientClosed(c)
          /\ ServerTo(c, "close")
          /\ UNCHANGED down
    /\ NoEvent /\ UNCHANGED <<config, daemon, cli, up, history>>

\* "no files to serve" and "unknown database": the handler returns.
Refuse(c) == ServerAt(c, "refuse") /\ Say(c, "error", "close")

\* Mutant: the connection of an unknown label is closed without a word.
RejectSilently(c) ==
    /\ ServerAt(c, "reject")
    /\ ServerTo(c, "close")
    /\ NoEvent /\ UNCHANGED <<config, daemon, cli, wires, history>>

\* Mutant: the client may ask for another database on the same connection.
RejectAndAsk(c) == ServerAt(c, "reject") /\ Say(c, "error", "label")

Reject(c) == ServerAt(c, "reject") /\ Say(c, "error", "close")

\* Mutant: the label is taken as known once its header is there.
ReadLabelEarly(c) ==
    /\ ServerAt(c, "label")
    /\ Len(up[c]) >= 1
    /\ up' = [up EXCEPT ![c] = Tail(@)]
    /\ ServerTo(c, "resolve")
    /\ NoEvent /\ UNCHANGED <<config, daemon, cli, down, history>>

\* Read: both parts of the message have arrived.
ReadLabel(c) ==
    /\ ServerAt(c, "label")
    /\ Len(up[c]) >= 2
    /\ up' = [up EXCEPT ![c] = SubSeq(@, 3, Len(@))]
    /\ ServerTo(c, "resolve")
    /\ NoEvent /\ UNCHANGED <<config, daemon, cli, down, history>>

\* The label is looked up in the configuration of this moment.
Resolve(c) ==
    /\ ServerAt(c, "resolve")
    /\ IF Wants[c] \in Served
       THEN srv' = [srv EXCEPT ![c].pc = "echo",
                               ![c].source = config[Wants[c]]]
       ELSE ServerTo(c, "reject")
    /\ NoEvent /\ UNCHANGED <<config, daemon, cli, wires, history>>

\* The echo, then the sync deadline; Origin sends its first message.
Echo(c) == ServerAt(c, "echo") /\ Say(c, "echo", "begin")

\* At a message boundary a cancelled context ends the sync.
Begin(c) ==
    /\ ServerAt(c, "begin")
    /\ IF stopped
       THEN /\ ServerTo(c, "close")
            /\ NoEvent /\ UNCHANGED <<config, daemon, cli, wires, history>>
       ELSE Say(c, "begin", "serve")

\* One round: the hashes of the replica are answered with pages; the last
\* answer ends the sync on this side.
Serve(c) ==
    /\ ServerAt(c, "serve") /\ up[c] # <<>>
    /\ up' = [up EXCEPT ![c] = Tail(@)]
    /\ IF stopped THEN ServerTo(c, "close") /\ UNCHANGED down
       ELSE LET n == srv[c].rounds + 1
                last == n = Rounds
            IN  /\ srv' = [srv EXCEPT ![c].rounds = n,
                                      ![c].pc = IF last THEN "close" ELSE @]
                /\ down' = [down EXCEPT ![c] =
                                Append(@, IF last THEN "end" ELSE "pages")]
    /\ NoEvent /\ UNCHANGED <<config, daemon, cli, history>>

\* The sync fails or panics: both are caught here, handleConn returns.
FailSync(c) ==
    /\ srv[c].pc \in {"begin", "serve"}
    /\ Inject("sync") /\ Disturb(c)
    /\ ServerTo(c, "close")
    /\ UNCHANGED <<config, daemon, cli, wires>>

\* The deadline passes while the handler waits for the client.  (It bounds the
\* writes as well; here they only fill a buffer and never wait.)
Expire(c) ==
    /\ srv[c].pc \in Blocking /\ srv[c].armed
    /\ ServerTo(c, "close") /\ Disturb(c)
    /\ NoEvent /\ UNCHANGED <<config, daemon, cli, wires>>

\* A read after the client has closed: end of file, or a reset.
LoseClient(c) ==
    /\ srv[c].pc \in Blocking /\ ClientClosed(c)
    /\ ServerTo(c, "close")
    /\ NoEvent /\ UNCHANGED <<config, daemon, cli, wires, history>>

\* The deferred Close.
CloseConn(c) ==
    /\ ServerAt(c, "close")
    /\ ServerTo(c, "closed")
    /\ NoEvent /\ UNCHANGED <<config, daemon, cli, wires, history>>

-----------------------------------------------------------------------------
(* A client run.                                                           *)

\* The dial: refused when the listener is closed.
Dial(c) ==
    /\ cli[c].pc = "idle"
    /\ IF open THEN ClientTo(c, "header") /\ ServerTo(c, "queued")
               ELSE EndRun(c, "failed") /\ UNCHANGED srv
    /\ meant' = [meant EXCEPT ![c] = {config[Wants[c]]}]
    /\ disturbed' = [disturbed EXCEPT ![c] = @ \/ Served = {}]
    /\ NoEvent /\ UNCHANGED <<config, daemon, wires>>

\* Write of the label: first byte and length in a call of their own,
WriteHeader(c) ==
    /\ cli[c].pc = "header"
    /\ ClientTo(c, "text")
    /\ up' = [up EXCEPT ![c] = Append(@, "header")]
    /\ NoEvent /\ UNCHANGED <<config, daemon, srv, down, history>>

\* then the text.
WriteText(c) ==
    /\ cli[c].pc = "text"
    /\ ClientTo(c, "answer")
    /\ up' = [up EXCEPT ![c] = Append(@, "text")]
    /\ NoEvent /\ UNCHANGED <<config, daemon, srv, down, history>>

\* A write after a reset: the server closed with the header unread, or with the
\* listener before it accepted the connection.
FailWrite(c) ==
    /\ cli[c].pc \in {"header", "text"} /\ ServerClosed(c)
    /\ up[c] # <<>> \/ ~open
    /\ EndRun(c, "failed")
    /\ NoEvent /\ UNCHANGED <<config, daemon, srv, wires, history>>

\* Only an echo starts the sync; the text of an error ends the run.
ReadAnswer(c) ==
    /\ cli[c].pc = "answer" /\ down[c] # <<>>
    /\ IF Head(down[c]) = "echo" THEN ClientTo(c, "sync")
                                 ELSE EndRun(c, "rejected")
    /\ down' = [down EXCEPT ![c] = Tail(@)]
    /\ NoEvent /\ UNCHANGED <<config, daemon, srv, up, history>>

\* The replica answers every message with hashes, until the end of the sync
\* commits the pages to its file.
Replicate(c) ==
    /\ cli[c].pc = "sync" /\ down[c] # <<>>
    /\ IF Head(down[c]) = "end"
       THEN /\ cli' = [cli EXCEPT ![c].pc = "ended", ![c].result = "ok",
                                  ![c].source = srv[c].source]
            /\ UNCHANGED up
       ELSE up' = [up EXCEPT ![c] = Append(@, "hash")] /\ UNCHANGED cli
    /\ down' = [down EXCEPT ![c] = Tail(@)]
    /\ NoEvent /\ UNCHANGED <<config, daemon, srv, history>>

\* A read after the server has closed: end of file when all is read, a reset
\* when the server left bytes of the client unread.
LoseServer(c) ==
    /\ cli[c].pc \in {"answer", "sync"} /\ ServerClosed(c)
    /\ down[c] = <<>> \/ up[c] # <<>>
    /\ EndRun(c, "failed")
    /\ NoEvent /\ UNCHANGED <<config, daemon, srv, wires, history>>

\* The context of the run is done (sync_timeout, or the replica's Stop): its
\* callback closes the connection.
CancelRun(c) ==
    /\ cli[c].pc \in Running
    /\ Inject("cancel") /\ Disturb(c)
    /\ EndRun(c, "failed")
    /\ UNCHANGED <<config, daemon, srv, wires>>

\* The machine of the client disappears without closing anything.
Vanish(c) ==
    /\ cli[c].pc \in Running
    /\ Inject("vanish") /\ Disturb(c)
    /\ ClientTo(c, "gone")
    /\ UNCHANGED <<config, daemon, srv, wires>>

-----------------------------------------------------------------------------
Stop ==
    /\ ~stopped
    /\ stopped' = TRUE
    /\ NoEvent /\ UNCHANGED <<config, open, loop, srv, cli, wires, history>>

\* The application puts another configuration into the box.
Reload ==
    /\ Inject("reload")
    /\ config' \in Configs \ {config}
    /\ meant' = [c \in Conns |-> IF cli[c].pc = "idle" THEN {}
                                 ELSE meant[c] \cup {config'[Wants[c]]}]
    /\ disturbed' = [c \in Conns |-> disturbed[c] \/ (cli[c].pc # "idle" /\ Served' = {})]
    /\ UNCHANGED <<daemon, srv, cli, wires>>

LoopStep == CloseListener \/ LeaveLoop \/ FinishShutdown

Handle(c) ==
    \/ Check(c) \/ Refuse(c) \/ ReadLabel(c) \/ Resolve(c) \/ Reject(c)
    \/ Echo(c) \/ Begin(c) \/ Serve(c)
    \/ Expire(c) \/ LoseClient(c) \/ CloseConn(c)

Run(c) ==
    \/ WriteHeader(c) \/ WriteText(c) \/ FailWrite(c) \/ ReadAnswer(c)
    \/ Replicate(c) \/ LoseServer(c)

Next ==
    \/ LoopStep \/ Stop \/ Reload
    \/ \E c \in Conns : \/ Accept(c) \/ Handle(c) \/ FailSync(c)
                        \/ Dial(c) \/ Run(c) \/ CancelRun(c) \/ Vanish(c)

Spec == Init /\ [][Next]_vars

\* The goroutines of the daemon run; the clients may stay silent for ever.
FairSpec ==
    /\ Spec
    /\ WF_vars(LoopStep)
    /\ \A c \in Conns : WF_vars(Handle(c))

-----------------------------------------------------------------------------
(* What the daemon and its clients promise.                                *)

\* ShutdownDone is closed only after the last handler is over: no sync reads a
\* database that the rest of the shutdown closes (daemon.go, Run).
DoneMeansQuiet ==
    loop = "done" =>
        ~open /\ \A c \in Conns : srv[c].pc \in {"none", "closed"}

\* The two sides agree where the preamble ends: the origin reads only hashes
\* once it serves, the client reads only sync messages once it replicates, and
\* an echo or an error only as the answer to its label (label.go: the sync
\* protocol starts only after the preamble completes).
PreambleSeparated ==
    \A c \in Conns :
        /\ ServerAt(c, "serve") => \A i \in 1 .. Len(up[c]) : up[c][i] = "hash"
        /\ cli[c].pc = "sync" => \A i \in 1 .. Len(down[c]) :
                                    down[c][i] \in {"begin", "pages", "end"}
        /\ cli[c].pc \in Asking /\ down[c] # <<>> =>
                Head(down[c]) \in {"echo", "error"}

\* A run that succeeds has pulled a database its label named while it ran, and
\* a run is rejected only if its label named none for a while, whatever reloads
\* happen between the steps of the handler (daemon.go: the configuration is
\* read at every decision point).
AnswerMatchesConfig ==
    \A c \in Conns :
        /\ cli[c].result = "ok" => cli[c].source \in meant[c] \ {NoPath}
        /\ cli[c].result = "rejected" => NoPath \in meant[c]

\* A daemon that has databases to serve answers every client, whatever happens on
\* the other connections and to the entries it serves: a run ends in a sync or in
\* a rejection with its text, never in an error of the connection, unless the
\* daemon was stopped or this run itself was disturbed: its sync failed, its
\* deadline passed, its client was cancelled or vanished, or there was nothing to
\* serve while it ran (daemon.go, handleConn; client.go, runSync).  In the last
\* case the label is not read, and the reset may overtake the text of the
\* rejection.
UndisturbedIsAnswered ==
    \A c \in Conns : cli[c].result = "failed" => stopped \/ disturbed[c]

\* Where a handler stands, by the steps of its own that are left at most.
Left(c) ==
    LET ahead == CASE srv[c].pc = "check" -> 7
                   [] srv[c].pc = "label" -> 6
                   [] srv[c].pc = "resolve" -> 5
                   [] srv[c].pc = "echo" -> 4
                   [] srv[c].pc = "begin" -> 3
                   [] srv[c].pc \in {"serve", "refuse", "reject"} -> 2
                   [] srv[c].pc = "close" -> 1
                   [] OTHER -> 0
    IN  ahead + (Rounds - srv[c].rounds)

\* The shutdown waits for every handler, and no handler turns back: whatever its
\* client, the configuration and the other connections do, each of its steps
\* brings it nearer to its end, and where it waits for its client it has a
\* deadline (daemon.go, handleConn: "no I/O on this connection is ever
\* unbounded").
HandlersGetOn ==
    [][\A c \in Conns :
        /\ srv'[c].pc \in Blocking => srv'[c].armed
        /\ srv[c].pc \in Handling => srv'[c] = srv[c] \/ Left(c)' < Left(c)]_vars

\* After Stop the daemon comes to its end, however silent its clients are: every
\* wait of a handler ends by its deadline (daemon.go, handleConn).
StopEnds == stopped ~> loop = "done"
=============================================================================
