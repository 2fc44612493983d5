---------------------------- MODULE OriginProofs -----------------------------
(***************************************************************************)
(* The origin daemon with its clients, for any number of connections, any  *)
(* configurations and any length of a sync: types, the shutdown, the       *)
(* preamble, what a client is answered, and that no handler turns back.    *)
(*                                                                         *)
(* The argument is about one connection at a time, and about its two ends  *)
(* and two queues as values: s and k are the two sides, u and d the queues *)
(* up and down, m what its label has meant.  A connection is in one of     *)
(* six phases, and in each the queues hold one of a few short sequences,   *)
(* because both sides take turns.                                          *)
(***************************************************************************)
EXTENDS OriginSync, TLAPS, SequenceTheorems

Over == {"ended", "gone"}
Turns == {"begin", "pages", "end"}

\* What is in a queue: nothing, one message, two.
Empty(q) == Len(q) = 0
One(q, x) == Len(q) = 1 /\ q[1] = x
Two(q, x, y) == Len(q) = 2 /\ q[1] = x /\ q[2] = y

\* Not dialled yet, or refused.
NotDialled(s, k, u, d) ==
    /\ s.pc = "none" /\ k.pc \in {"idle", "ended"}
    /\ Empty(u) /\ Empty(d) /\ s.source = NoPath

\* The client has written a part of its label, or it has been read.
Asks(k, u) ==
    /\ k.pc \in Asking \cup Over
    /\ Empty(u) \/ One(u, "header") \/ Two(u, "header", "text")
    /\ k.pc = "header" => Empty(u)
    /\ k.pc = "text" => One(u, "header")

BeforeLabel(s, k, u, d) ==
    /\ s.pc \in {"queued", "check", "refuse", "label"}
    /\ Asks(k, u) /\ Empty(d)
    /\ k.pc = "answer" => Two(u, "header", "text")

Answering(s, k, u, d) ==
    /\ s.pc \in {"resolve", "reject", "echo"}
    /\ k.pc \in {"answer"} \cup Over
    /\ Empty(u) /\ Empty(d)

\* Closed without a sync.
TurnedAway(s, k, u, d) ==
    /\ s.pc \in {"close", "closed"}
    /\ Asks(k, u)
    /\ Empty(d) \/ One(d, "error")

\* One message of the sync is on the way, if any: behind the echo,
SyncAhead(s, k, u, d) ==
    /\ s.pc \in {"begin", "serve", "close", "closed"}
    /\ s.source # NoPath
    /\ k.pc \in {"answer"} \cup Over /\ Empty(u)
    /\ \/ One(d, "echo")
       \/ s.pc # "begin" /\ \E x \in Turns : Two(d, "echo", x)

\* alone, or back.
Syncing(s, k, u, d) ==
    /\ s.pc \in {"begin", "serve", "close", "closed"}
    /\ s.source # NoPath
    /\ k.pc \in {"sync"} \cup Over
    /\ \/ Empty(u) /\ Empty(d)
       \/ s.pc # "begin" /\ One(u, "hash") /\ Empty(d)
       \/ s.pc # "begin" /\ Empty(u) /\ \E x \in Turns : One(d, x)

Phases(s, k, u, d) ==
    \/ NotDialled(s, k, u, d) \/ BeforeLabel(s, k, u, d) \/ Answering(s, k, u, d)
    \/ TurnedAway(s, k, u, d) \/ SyncAhead(s, k, u, d) \/ Syncing(s, k, u, d)

Talk(s, k, u, d) ==
    /\ s.pc \in {"close", "closed"} \/ s.rounds < Rounds
    /\ Phases(s, k, u, d)

\* What the label has named, and who says so.
Meant(s, k, d, m, current) ==
    /\ k.pc # "idle" => current \in m
    /\ s.source # NoPath => s.source \in m
    /\ s.pc \in {"refuse", "reject"} \/ One(d, "error") => NoPath \in m
    /\ k.pc = "idle" => s.pc = "none" /\ k.result = "none"
    /\ k.result = "ok" => k.source \in m \ {NoPath}
    /\ k.result = "rejected" => NoPath \in m

\* A run that nothing disturbs goes from one turn to the next.
Smooth(s, k, u, d) ==
    /\ k.pc # "gone" /\ k.result # "failed"
    /\ s.pc = "none" => k.pc = "idle"
    /\ s.pc # "refuse"
    /\ s.pc \in {"queued", "check", "label", "resolve", "reject", "echo"} =>
            k.pc \in Asking
    /\ s.pc \in {"begin", "serve"} => k.pc \in {"answer", "sync"}
    /\ s.pc = "serve" =>
            \/ One(u, "hash")
            \/ \E x \in Turns \ {"end"} : One(d, x) \/ Two(d, "echo", x)
    /\ s.pc \in {"close", "closed"} =>
            \/ k.pc = "ended"
            \/ /\ k.pc \in {"answer", "sync"} /\ Empty(u)
               /\ One(d, "error") \/ One(d, "end") \/ Two(d, "echo", "end")

Conversation(c) ==
    /\ Talk(srv[c], cli[c], up[c], down[c])
    /\ Meant(srv[c], cli[c], down[c], meant[c], config[Wants[c]])
    /\ stopped \/ disturbed[c] \/ Smooth(srv[c], cli[c], up[c], down[c])
    /\ cli[c].pc # "idle" /\ Served = {} => disturbed[c]

\* The shutdown, from the inside out.
ShutdownInv ==
    /\ ~open => stopped /\ \A c \in Conns : srv[c].pc # "queued"
    /\ loop # "accept" => ~open
    /\ DoneMeansQuiet

\* The inductive invariant.
Inv == TypeOK /\ ShutdownInv /\ \A c \in Conns : Conversation(c)

(***************************************************************************)
(* Facts about queues and about steps of one connection.                   *)
(***************************************************************************)

\* What a side writes comes last, what the other reads comes first.
LEMMA ShortQueues ==
    ASSUME NEW S, NEW q \in Seq(S), NEW x \in S
    PROVE  /\ q = <<>> <=> Empty(q)
           /\ Append(q, x) \in Seq(S)
           /\ Empty(q) => One(Append(q, x), x)
           /\ \A y : One(q, y) => /\ Two(Append(q, x), y, x)
                                  /\ Head(q) = y /\ Tail(q) \in Seq(S) /\ Empty(Tail(q))
           /\ \A y, z : Two(q, y, z) => /\ Head(q) = y /\ Tail(q) \in Seq(S)
                                        /\ One(Tail(q), z)
           /\ Len(q) = 2 => SubSeq(q, 3, Len(q)) \in Seq(S) /\ Empty(SubSeq(q, 3, Len(q)))
<1>1. q = <<>> <=> Empty(q)
  BY EmptySeq DEF Empty
<1>2. Append(q, x) \in Seq(S) /\ (Empty(q) => One(Append(q, x), x))
  BY DEF Empty, One
<1>3. ASSUME NEW y, One(q, y)
      PROVE  /\ Two(Append(q, x), y, x)
             /\ Head(q) = y /\ Tail(q) \in Seq(S) /\ Empty(Tail(q))
  <2>1. /\ Append(q, x) \in Seq(S) /\ Len(Append(q, x)) = 2
        /\ Append(q, x)[1] = y /\ Append(q, x)[2] = x
    <3>1. Len(q) = 1 /\ 1 + 1 = 2
      BY <1>3 DEF One
    <3>2. /\ Len(Append(q, x)) = Len(q) + 1 /\ Append(q, x)[Len(q) + 1] = x
          /\ \A i \in 1 .. Len(q) : Append(q, x)[i] = q[i]
      BY AppendProperties
    <3>3. Append(q, x)[1] = q[1]
      BY <3>1, <3>2
    <3>. QED  BY <1>2, <1>3, <3>1, <3>2, <3>3, Zenon DEF One
  <2>2. q # <<>>
    BY <1>1, <1>3 DEF One, Empty
  <2>3. Head(q) = y /\ Tail(q) \in Seq(S) /\ Len(Tail(q)) = 0
    BY <1>3, <2>2, HeadTailProperties DEF One
  <2>. QED  BY <2>1, <2>3 DEF Empty, Two
<1>4. ASSUME NEW y, NEW z, Two(q, y, z)
      PROVE  Head(q) = y /\ Tail(q) \in Seq(S) /\ One(Tail(q), z)
  <2>1. q # <<>>
    BY <1>1, <1>4 DEF Two, Empty
  <2>2. Head(q) = y /\ Tail(q) \in Seq(S) /\ Len(Tail(q)) = 1
    BY <1>4, <2>1, HeadTailProperties DEF Two
  <2>3. \A i \in 1 .. Len(Tail(q)) : Tail(q)[i] = q[i+1]
    BY <2>1, HeadTailProperties
  <2>4. Tail(q)[1] = z
    <3>1. Tail(q)[1] = q[1+1]
      BY <2>2, <2>3
    <3>2. 1 + 1 = 2
      OBVIOUS
    <3>. QED  BY <1>4, <3>1, <3>2, Zenon DEF Two
  <2>. QED  BY <2>2, <2>4 DEF One
<1>5. Len(q) = 2 => SubSeq(q, 3, Len(q)) \in Seq(S) /\ Empty(SubSeq(q, 3, Len(q)))
  BY SubSeqEmpty, EmptySeq DEF Empty
<1>. QED  BY <1>1, <1>2, <1>3, <1>4, <1>5

\* Events are counted up to their bound, and what has disturbed a run stays on
\* its record.
Logged ==
    /\ spent' \in 0 .. MaxEvents
    /\ disturbed' \in [Conns -> BOOLEAN]
    /\ \A c \in Conns : disturbed[c] => disturbed'[c]

LEMMA Quiet ==
    ASSUME Inv, NoEvent, UNCHANGED history
    PROVE  Logged /\ UNCHANGED <<meant, disturbed, spent>>
BY DEF Inv, TypeOK, NoEvent, history, Logged

LEMMA Recorded ==
    ASSUME Inv, NEW c \in Conns, Disturb(c), spent' \in 0 .. MaxEvents
    PROVE  Logged /\ UNCHANGED meant /\ disturbed'[c]
BY DEF Inv, TypeOK, Disturb, Logged

\* A step of the connection c alone: its new sides, queues and meaning.
Move(c, s, k, u, d, m) ==
    /\ srv' = [srv EXCEPT ![c] = s] /\ cli' = [cli EXCEPT ![c] = k]
    /\ up' = [up EXCEPT ![c] = u] /\ down' = [down EXCEPT ![c] = d]
    /\ meant' = [meant EXCEPT ![c] = m]
    /\ UNCHANGED <<config, daemon>>
    /\ Logged

\* What they have to be for the invariant to be kept.
Typed(s, k, u, d, m) ==
    /\ s \in ServerSide /\ k \in ClientSide
    /\ u \in Seq(UpMessage) /\ d \in Seq(DownMessage)
    /\ m \in SUBSET (Sources \cup {NoPath})
    /\ s.pc \in {"echo", "begin", "serve"} => s.source # NoPath

Fits(c, s, k, u, d, m) ==
    /\ s.pc = "queued" => open
    /\ s.pc = srv[c].pc \/ srv[c].pc \notin {"none", "closed"} \/ open
    /\ Talk(s, k, u, d) /\ Meant(s, k, d, m, config[Wants[c]])
    /\ k.pc = cli[c].pc \/ cli[c].pc # "idle" \/ Served # {} \/ disturbed'[c]
    /\ stopped \/ disturbed'[c] \/ Smooth(s, k, u, d)

\* Such a step keeps the invariant.
LEMMA MoveKeeps ==
    ASSUME OriginAssumption, Inv, NEW c \in Conns, NEW s, NEW k, NEW u, NEW d, NEW m,
           Move(c, s, k, u, d, m), Typed(s, k, u, d, m), Fits(c, s, k, u, d, m)
    PROVE  Inv'
<1>1. srv'[c] = s /\ cli'[c] = k /\ up'[c] = u /\ down'[c] = d /\ meant'[c] = m
  BY DEF Inv, TypeOK, Move
<1>2. \A e \in Conns \ {c} :
         /\ srv'[e] = srv[e] /\ cli'[e] = cli[e] /\ up'[e] = up[e]
         /\ down'[e] = down[e] /\ meant'[e] = meant[e]
  BY DEF Inv, TypeOK, Move
<1>3. /\ config' = config /\ stopped' = stopped /\ open' = open /\ loop' = loop
      /\ Logged /\ Served' = Served
  BY DEF Move, daemon, Served
<1>4. /\ srv' \in [Conns -> ServerSide] /\ cli' \in [Conns -> ClientSide]
      /\ up' \in [Conns -> Seq(UpMessage)] /\ down' \in [Conns -> Seq(DownMessage)]
      /\ meant' \in [Conns -> SUBSET (Sources \cup {NoPath})]
  BY DEF Inv, TypeOK, Move, Typed
<1>5. TypeOK'
  <2>1. \A e \in Conns : srv'[e].pc \in {"echo", "begin", "serve"} =>
                            srv'[e].source # NoPath
    BY <1>1, <1>2 DEF Inv, TypeOK, Typed
  <2>2. config \in Configs /\ stopped \in BOOLEAN /\ open \in BOOLEAN
        /\ loop \in {"accept", "wait", "done"}
    BY DEF Inv, TypeOK
  <2>. QED  BY <1>3, <1>4, <2>1, <2>2 DEF TypeOK, Logged
<1>6. ShutdownInv'
  BY <1>1, <1>2, <1>3 DEF Inv, ShutdownInv, DoneMeansQuiet, Fits
<1>7. ASSUME NEW e \in Conns PROVE Conversation(e)'
  <2>1. CASE e = c
    <3>1. cli[c].pc # "idle" /\ Served = {} => disturbed[c]
      BY DEF Inv, Conversation
    <3>2. k.pc # "idle" /\ Served = {} => disturbed'[c]
      BY <1>3, <3>1 DEF Fits, Logged
    <3>. QED  BY <1>1, <1>3, <2>1, <3>2 DEF Conversation, Fits
  <2>2. CASE e # c
    BY <1>2, <1>3, <2>2 DEF Conversation, Inv, Logged
  <2>. QED  BY <2>1, <2>2
<1>. QED  BY <1>5, <1>6, <1>7 DEF Inv

\* The types of the connection c,
LEMMA HereTyped ==
    ASSUME Inv, NEW c \in Conns
    PROVE  Typed(srv[c], cli[c], up[c], down[c], meant[c]) /\ srv[c] \in ServerSide
BY DEF Inv, TypeOK, Typed

\* and what the invariant says of it.
LEMMA Here ==
    ASSUME OriginAssumption, Inv, NEW c \in Conns
    PROVE  /\ Typed(srv[c], cli[c], up[c], down[c], meant[c])
           /\ Talk(srv[c], cli[c], up[c], down[c])
           /\ Meant(srv[c], cli[c], down[c], meant[c], config[Wants[c]])
           /\ \/ stopped \/ disturbed[c]
              \/ Smooth(srv[c], cli[c], up[c], down[c])
           /\ cli[c].pc # "idle" /\ Served = {} => disturbed[c]
           /\ srv[c].pc = "queued" => open
           /\ config[Wants[c]] \in Sources \cup {NoPath}
<1>1. Typed(srv[c], cli[c], up[c], down[c], meant[c])
  BY DEF Inv, TypeOK, Typed
<1>2. config[Wants[c]] \in Sources \cup {NoPath}
  BY DEF Inv, TypeOK, OriginAssumption
<1>3. srv[c].pc = "queued" => open
  BY DEF Inv, ShutdownInv
<1>. QED  BY <1>1, <1>2, <1>3 DEF Inv, Conversation

\* A step of the handler that neither reads nor writes.
LEMMA ServerMoves ==
    ASSUME OriginAssumption, Inv, NEW c \in Conns, NEW s \in ServerSide,
           srv' = [srv EXCEPT ![c] = s], UNCHANGED <<config, daemon, cli, wires, meant>>,
           Logged,
           s.pc \in {"echo", "begin", "serve"} => s.source # NoPath,
           Fits(c, s, cli[c], up[c], down[c], meant[c])
    PROVE  Inv'
<1>1. Move(c, s, cli[c], up[c], down[c], meant[c])
  BY DEF Inv, TypeOK, Move, wires
<1>2. Typed(s, cli[c], up[c], down[c], meant[c])
  BY Here DEF Typed
<1>. QED  BY <1>1, <1>2, MoveKeeps

\* A step of the client that neither reads nor writes.
LEMMA ClientMoves ==
    ASSUME OriginAssumption, Inv, NEW c \in Conns, NEW k \in ClientSide,
           cli' = [cli EXCEPT ![c] = k], UNCHANGED <<config, daemon, srv, wires, meant>>,
           Logged,
           Fits(c, srv[c], k, up[c], down[c], meant[c])
    PROVE  Inv'
<1>1. Move(c, srv[c], k, up[c], down[c], meant[c])
  BY DEF Inv, TypeOK, Move, wires
<1>2. Typed(srv[c], k, up[c], down[c], meant[c])
  BY Here DEF Typed
<1>. QED  BY <1>1, <1>2, MoveKeeps

LEMMA AcceptStep ==
    ASSUME OriginAssumption, Inv, NEW c \in Conns, Accept(c)
    PROVE  Inv'
<1>. DEFINE s == [srv[c] EXCEPT !.pc = "check"]
<1>1. /\ s \in ServerSide /\ s.pc = "check" /\ s.source = srv[c].source
      /\ s.rounds = srv[c].rounds
      /\ srv[c].pc = "queued"
  BY Here DEF Typed, ServerSide, Handling, Accept, ServerAt
<1>2. Fits(c, s, cli[c], up[c], down[c], meant[c])
  <2>1. Talk(s, cli[c], up[c], down[c])
    BY <1>1, Here DEF Talk, Phases, NotDialled, BeforeLabel, Answering, TurnedAway,
       SyncAhead, Syncing
  <2>2. Meant(s, cli[c], down[c], meant[c], config[Wants[c]])
    BY <1>1, Here DEF Meant
  <2>3. stopped \/ disturbed'[c]
                \/ Smooth(s, cli[c], up[c], down[c])
    BY <1>1, Quiet, Here DEF Smooth, Accept
  <2>. QED  BY <1>1, <2>1, <2>2, <2>3 DEF Fits
<1>3. Logged /\ UNCHANGED meant /\ srv' = [srv EXCEPT ![c] = s]
  BY Quiet DEF Accept, ServerTo
<1>. QED  BY <1>1, <1>2, <1>3, ServerMoves DEF Accept

LEMMA CheckStep ==
    ASSUME OriginAssumption, Inv, NEW c \in Conns, Check(c)
    PROVE  Inv'
<1>. DEFINE a == [srv[c] EXCEPT !.pc = "refuse"]
            b == [srv[c] EXCEPT !.pc = "label", !.armed = TRUE]
            s == IF Served = {} THEN a ELSE b
<1>1. /\ s \in ServerSide /\ s.pc \in {"refuse", "label"} /\ s.source = srv[c].source
      /\ s.rounds = srv[c].rounds
      /\ (s.pc = "refuse" => Served = {})
  BY HereTyped DEF ServerSide, Handling, Blocking
<1>2. srv' = [srv EXCEPT ![c] = s]
  BY DEF Check, ServerTo
<1>3. srv[c].pc = "check" /\ Logged /\ UNCHANGED <<meant, disturbed>>
  BY Quiet DEF Check, ServerAt
<1>. HIDE DEF s
<1>4. Talk(s, cli[c], up[c], down[c])
  BY <1>1, <1>3, Here DEF Talk, Phases, NotDialled, BeforeLabel, Answering,
     TurnedAway, SyncAhead, Syncing
<1>5. Meant(s, cli[c], down[c], meant[c], config[Wants[c]])
  <2>1. cli[c].pc # "idle"
    BY <1>3, Here DEF Meant
  <2>2. Served = {} => config[Wants[c]] = NoPath
    BY DEF Served, OriginAssumption
  <2>. QED  BY <1>1, <1>3, <2>1, <2>2, Here DEF Meant
<1>6. stopped \/ disturbed'[c]
              \/ Smooth(s, cli[c], up[c], down[c])
  <2>1. cli[c].pc # "idle"
    BY <1>3, Here DEF Meant
  <2>. QED  BY <1>1, <1>3, <2>1, Here DEF Smooth
<1>7. Fits(c, s, cli[c], up[c], down[c], meant[c])
  BY <1>1, <1>3, <1>4, <1>5, <1>6 DEF Fits
<1>8. Logged /\ UNCHANGED <<config, daemon, cli, wires, meant>>
  BY <1>3 DEF Check
<1>. QED  BY <1>1, <1>2, <1>7, <1>8, ServerMoves

\* The handler gives up.
LEMMA Closes ==
    ASSUME OriginAssumption, Inv, NEW c \in Conns, NEW s \in ServerSide,
           srv[c].pc \in Handling, s.pc = "close", s.source = srv[c].source,
           srv' = [srv EXCEPT ![c] = s], UNCHANGED <<config, daemon, cli, wires, meant>>,
           Logged,
           \/ stopped \/ disturbed'[c]
           \/ ClientClosed(c)
    PROVE  Inv'
<1>1. srv[c].pc \notin {"none", "queued", "closed"}
  BY DEF Handling, Blocking
<1>2. Talk(s, cli[c], up[c], down[c])
  BY <1>1, Here DEF Talk, Phases, NotDialled, BeforeLabel, Asks, Answering,
     TurnedAway, SyncAhead,
     Syncing, Asking, Over
<1>3. Meant(s, cli[c], down[c], meant[c], config[Wants[c]])
  BY <1>1, Here DEF Meant
<1>4. stopped \/ disturbed'[c]
              \/ Smooth(s, cli[c], up[c], down[c])
  BY Here DEF Smooth, ClientClosed, Logged
<1>5. Fits(c, s, cli[c], up[c], down[c], meant[c])
  BY <1>1, <1>2, <1>3, <1>4 DEF Fits
<1>. QED  BY <1>5, ServerMoves

\* The handler writes, or fails to because the client has gone.
LEMMA Says ==
    ASSUME OriginAssumption, Inv, NEW c \in Conns, NEW message \in DownMessage,
           NEW next \in {"begin", "serve", "close"}, Say(c, message, next),
           srv[c].pc \in Handling, next # "close" => srv[c].source # NoPath,
           Fits(c, [srv[c] EXCEPT !.pc = next], cli[c], up[c],
                Append(down[c], message), meant[c])
    PROVE  Inv'
<1>. DEFINE s == [srv[c] EXCEPT !.pc = next]
            z == [srv[c] EXCEPT !.pc = "close"]
<1>1. /\ UNCHANGED <<config, daemon, cli, up, meant>>
      /\ Logged
  BY Quiet DEF Say
<1>2. CASE /\ down' = [down EXCEPT ![c] = Append(down[c], message)]
           /\ srv' = [srv EXCEPT ![c] = s]
  <2>1. Move(c, s, cli[c], up[c], Append(down[c], message), meant[c])
    BY <1>1, <1>2 DEF Inv, TypeOK, Move
  <2>2. s \in ServerSide /\ s.pc = next /\ s.source = srv[c].source
                         /\ s.rounds = srv[c].rounds
    BY HereTyped DEF ServerSide, Handling, Blocking
  <2>3. Append(down[c], message) \in Seq(DownMessage)
    BY Here, AppendProperties DEF Typed
  <2>4. Typed(s, cli[c], up[c], Append(down[c], message), meant[c])
    BY <2>2, <2>3, Here DEF Typed
  <2>. QED  BY <2>1, <2>4, MoveKeeps
<1>3. CASE ClientClosed(c) /\ srv' = [srv EXCEPT ![c] = z] /\ UNCHANGED down
  <2>1. z \in ServerSide /\ z.pc = "close" /\ z.source = srv[c].source
    BY HereTyped DEF ServerSide, Handling, Blocking
  <2>. QED  BY <1>1, <1>3, <2>1, Closes DEF wires
<1>. QED  BY <1>2, <1>3 DEF Say, ServerTo

\* Refuse and Reject: the text of the error, and the handler is over.
LEMMA RejectionStep ==
    ASSUME OriginAssumption, Inv, NEW c \in Conns, Refuse(c) \/ Reject(c)
    PROVE  Inv'
<1>. DEFINE s == [srv[c] EXCEPT !.pc = "close"]
            d == Append(down[c], "error")
<1>1. srv[c].pc \in {"refuse", "reject"} /\ Say(c, "error", "close")
  BY DEF Refuse, Reject, ServerAt
<1>2. /\ s.pc = "close" /\ s.source = srv[c].source
      /\ s.rounds = srv[c].rounds
      /\ UNCHANGED disturbed
  BY <1>1, Quiet, Here DEF Typed, ServerSide, Say
<1>3. Empty(down[c]) /\ One(d, "error")
  <2>1. Empty(down[c])
    BY <1>1, Here DEF Talk, Phases, NotDialled, BeforeLabel, Answering, TurnedAway,
       SyncAhead, Syncing
  <2>. QED  BY <2>1, Here, ShortQueues DEF Typed, DownMessage
<1>. HIDE DEF s, d
<1>4. Talk(s, cli[c], up[c], d)
  BY <1>1, <1>2, <1>3, Here DEF Talk, Phases, NotDialled, BeforeLabel, Asks,
     Answering, TurnedAway,
     SyncAhead, Syncing, Asking, Over
<1>5. Meant(s, cli[c], d, meant[c], config[Wants[c]])
  BY <1>1, <1>2, Here DEF Meant
<1>6. stopped \/ disturbed'[c]
              \/ Smooth(s, cli[c], up[c], d)
  <2>1. srv[c].pc = "reject" => Empty(up[c]) /\ cli[c].pc \in {"answer"} \cup Over
    BY <1>1, Here DEF Talk, Phases, NotDialled, BeforeLabel, Answering, TurnedAway,
       SyncAhead, Syncing
  <2>. QED  BY <1>1, <1>2, <1>3, <2>1, Here DEF Smooth, Asking, Over
<1>7. Fits(c, s, cli[c], up[c], d, meant[c])
  BY <1>1, <1>2, <1>4, <1>5, <1>6 DEF Fits
<1>. QED  BY <1>1, <1>7, Says DEF s, d, Handling, Blocking, DownMessage

\* Expire, LoseClient and FailSync: the handler is over.
LEMMA GiveUpStep ==
    ASSUME OriginAssumption, Inv, NEW c \in Conns, Expire(c) \/ LoseClient(c) \/ FailSync(c)
    PROVE  Inv'
<1>. DEFINE a == [srv[c] EXCEPT !.pc = "close"]
<1>1. a \in ServerSide /\ a.pc = "close" /\ a.source = srv[c].source
  BY HereTyped DEF ServerSide, Handling, Blocking
<1>2. CASE Expire(c)
  <2>1. srv' = [srv EXCEPT ![c] = a] /\ srv[c].pc \in Handling
    BY <1>2 DEF Expire, ServerTo, Handling
  <2>2. spent' \in 0 .. MaxEvents
    BY <1>2 DEF Expire, NoEvent, Inv, TypeOK
  <2>3. Logged /\ UNCHANGED <<config, daemon, cli, wires, meant>> /\ disturbed'[c]
    BY <1>2, <2>2, Recorded DEF Expire
  <2>. HIDE DEF a
  <2>. QED  BY <1>1, <2>1, <2>3, Closes
<1>3. CASE LoseClient(c)
  <2>1. srv' = [srv EXCEPT ![c] = a] /\ srv[c].pc \in Handling
    BY <1>3 DEF LoseClient, ServerTo, Handling
  <2>2. Logged /\ UNCHANGED <<config, daemon, cli, wires, meant>>
    BY <1>3, Quiet DEF LoseClient
  <2>. HIDE DEF a
  <2>. QED  BY <1>1, <1>3, <2>1, <2>2, Closes DEF LoseClient
<1>4. CASE FailSync(c)
  <2>1. srv' = [srv EXCEPT ![c] = a] /\ srv[c].pc \in Handling
    BY <1>4 DEF FailSync, ServerTo, Handling, Blocking
  <2>2. spent' \in 0 .. MaxEvents
    BY <1>4, OriginAssumption DEF FailSync, Inject, Inv, TypeOK
  <2>3. Logged /\ UNCHANGED <<config, daemon, cli, wires, meant>> /\ disturbed'[c]
    BY <1>4, <2>2, Recorded DEF FailSync
  <2>. HIDE DEF a
  <2>. QED  BY <1>1, <2>1, <2>3, Closes
<1>. QED  BY <1>2, <1>3, <1>4

LEMMA CloseStep ==
    ASSUME OriginAssumption, Inv, NEW c \in Conns, CloseConn(c)
    PROVE  Inv'
<1>. DEFINE s == [srv[c] EXCEPT !.pc = "closed"]
<1>1. /\ s \in ServerSide /\ s.pc = "closed" /\ s.source = srv[c].source
      /\ s.rounds = srv[c].rounds
      /\ srv[c].pc = "close"
  BY Here DEF Typed, ServerSide, Handling, Blocking, CloseConn, ServerAt
<1>2. Logged /\ UNCHANGED <<meant, disturbed>> /\ srv' = [srv EXCEPT ![c] = s]
  BY Quiet DEF CloseConn, ServerTo
<1>. HIDE DEF s
<1>3. Talk(s, cli[c], up[c], down[c])
  BY <1>1, Here DEF Talk, Phases, NotDialled, BeforeLabel, Answering, TurnedAway,
     SyncAhead, Syncing
<1>4. Meant(s, cli[c], down[c], meant[c], config[Wants[c]])
  BY <1>1, Here DEF Meant
<1>5. stopped \/ disturbed'[c]
              \/ Smooth(s, cli[c], up[c], down[c])
  BY <1>1, <1>2, Here DEF Smooth
<1>6. Fits(c, s, cli[c], up[c], down[c], meant[c])
  BY <1>1, <1>3, <1>4, <1>5 DEF Fits
<1>. QED  BY <1>1, <1>2, <1>6, ServerMoves DEF CloseConn

\* Both parts of the label are there: its client waits for the answer.
LEMMA ReadLabelStep ==
    ASSUME OriginAssumption, Inv, NEW c \in Conns, ReadLabel(c)
    PROVE  Inv'
<1>. DEFINE s == [srv[c] EXCEPT !.pc = "resolve"]
            u == SubSeq(up[c], 3, Len(up[c]))
<1>1. /\ srv[c].pc = "label" /\ Len(up[c]) >= 2
      /\ Logged /\ UNCHANGED <<meant, disturbed>>
  BY Quiet DEF ReadLabel, ServerAt
<1>2. /\ s \in ServerSide /\ s.pc = "resolve" /\ s.source = srv[c].source
      /\ s.rounds = srv[c].rounds
  BY HereTyped DEF ServerSide, Handling, Blocking
<1>3. BeforeLabel(srv[c], cli[c], up[c], down[c])
  BY <1>1, Here DEF Talk, Phases, NotDialled, Answering, TurnedAway, SyncAhead,
     Syncing
<1>4. Len(up[c]) = 2 /\ cli[c].pc \in {"answer"} \cup Over
  <2>1. ~Empty(up[c]) /\ ~One(up[c], "header")
    <3>1. Len(up[c]) \in Nat
      BY Here DEF Typed
    <3>2. \A n \in Nat : n >= 2 => n # 0 /\ n # 1
      OBVIOUS
    <3>3. Len(up[c]) # 0 /\ Len(up[c]) # 1
      BY <1>1, <3>1, <3>2, Zenon
    <3>. QED  BY <3>3, Zenon DEF Empty, One
  <2>2. Len(up[c]) = 2
    BY <1>3, <2>1 DEF BeforeLabel, Asks, Two
  <2>. QED  BY <1>3, <2>1, <2>2 DEF BeforeLabel, Asks, Asking
<1>5. u \in Seq(UpMessage) /\ Empty(u)
  <2>1. "hash" \in UpMessage
    BY DEF UpMessage
  <2>. QED  BY <1>4, <2>1, Here, ShortQueues DEF Typed
<1>6. Move(c, s, cli[c], u, down[c], meant[c])
  BY <1>1 DEF ReadLabel, ServerTo, Inv, TypeOK, Move
<1>. HIDE DEF s, u
<1>7. Typed(s, cli[c], u, down[c], meant[c])
  BY <1>2, <1>5, Here DEF Typed
<1>8. Talk(s, cli[c], u, down[c])
  <2>1. srv[c].rounds < Rounds
    BY <1>1, Here DEF Talk
  <2>. QED  BY <1>2, <1>3, <1>4, <1>5, <2>1 DEF Talk, Phases, Answering, BeforeLabel
<1>9. Meant(s, cli[c], down[c], meant[c], config[Wants[c]])
  BY <1>1, <1>2, Here DEF Meant
<1>10. stopped \/ disturbed'[c]
               \/ Smooth(s, cli[c], u, down[c])
  BY <1>1, <1>2, Here DEF Smooth
<1>11. Fits(c, s, cli[c], u, down[c], meant[c])
  BY <1>1, <1>2, <1>8, <1>9, <1>10 DEF Fits
<1>. QED  BY <1>6, <1>7, <1>11, MoveKeeps

\* The label is looked up: what it names now is among what it has meant.
LEMMA ResolveStep ==
    ASSUME OriginAssumption, Inv, NEW c \in Conns, Resolve(c)
    PROVE  Inv'
<1>. DEFINE a == [srv[c] EXCEPT !.pc = "echo", !.source = config[Wants[c]]]
            b == [srv[c] EXCEPT !.pc = "reject"]
            s == IF Wants[c] \in Served THEN a ELSE b
<1>1. Wants[c] \in Served <=> config[Wants[c]] # NoPath
  BY DEF Served, OriginAssumption
<1>2. /\ s \in ServerSide /\ s.pc \in {"echo", "reject"}
      /\ s.rounds = srv[c].rounds
      /\ s.pc = "echo" => s.source = config[Wants[c]] /\ config[Wants[c]] # NoPath
      /\ s.pc = "reject" => s.source = srv[c].source /\ config[Wants[c]] = NoPath
  BY <1>1, Here DEF Typed, ServerSide, Handling, Blocking
<1>3. srv' = [srv EXCEPT ![c] = s] /\ srv[c].pc = "resolve"
      /\ Logged /\ UNCHANGED <<meant, disturbed>>
  <2>1. srv' = [srv EXCEPT ![c] = s]
    BY Zenon DEF Resolve, ServerTo
  <2>. QED  BY <2>1, Quiet DEF Resolve, ServerAt
<1>. HIDE DEF s
<1>4. Talk(s, cli[c], up[c], down[c])
  BY <1>2, <1>3, Here DEF Talk, Phases, NotDialled, BeforeLabel, Answering,
     TurnedAway, SyncAhead, Syncing
<1>5. Meant(s, cli[c], down[c], meant[c], config[Wants[c]])
  BY <1>2, <1>3, Here DEF Meant
<1>6. stopped \/ disturbed'[c]
              \/ Smooth(s, cli[c], up[c], down[c])
  BY <1>2, <1>3, Here DEF Smooth
<1>7. Fits(c, s, cli[c], up[c], down[c], meant[c])
  BY <1>2, <1>3, <1>4, <1>5, <1>6 DEF Fits
<1>. QED  BY <1>2, <1>3, <1>7, ServerMoves DEF Resolve

\* The echo ends the preamble.
LEMMA EchoStep ==
    ASSUME OriginAssumption, Inv, NEW c \in Conns, Echo(c)
    PROVE  Inv'
<1>. DEFINE s == [srv[c] EXCEPT !.pc = "begin"]
            d == Append(down[c], "echo")
<1>1. srv[c].pc = "echo" /\ Say(c, "echo", "begin")
  BY DEF Echo, ServerAt
<1>2. /\ s.pc = "begin" /\ s.source = srv[c].source
      /\ s.rounds = srv[c].rounds
      /\ s.source # NoPath /\ UNCHANGED disturbed
  BY <1>1, Quiet, Here DEF Typed, ServerSide, Say
<1>3. Answering(srv[c], cli[c], up[c], down[c])
  BY <1>1, Here DEF Talk, Phases, NotDialled, BeforeLabel, TurnedAway, SyncAhead,
     Syncing
<1>4. One(d, "echo")
  BY <1>3, Here, ShortQueues DEF Typed, DownMessage, Answering
<1>5. ~One(d, "error")
  BY <1>4 DEF One
<1>. HIDE DEF s, d
<1>6. Talk(s, cli[c], up[c], d)
  <2>1. srv[c].rounds < Rounds
    BY <1>1, Here DEF Talk
  <2>. QED  BY <1>2, <1>3, <1>4, <2>1 DEF Talk, Phases, Answering, SyncAhead
<1>7. Meant(s, cli[c], d, meant[c], config[Wants[c]])
  BY <1>1, <1>2, <1>5, Here DEF Meant
<1>8. stopped \/ disturbed'[c]
              \/ Smooth(s, cli[c], up[c], d)
  BY <1>1, <1>2, <1>3, Here DEF Smooth, Answering, Asking, Over
<1>9. Fits(c, s, cli[c], up[c], d, meant[c])
  BY <1>1, <1>2, <1>6, <1>7, <1>8 DEF Fits
<1>. QED  BY <1>1, <1>2, <1>9, Says DEF s, d, Handling, Blocking, DownMessage

\* The first message of the sync follows the echo, read or not.
LEMMA BeginStep ==
    ASSUME OriginAssumption, Inv, NEW c \in Conns, Begin(c)
    PROVE  Inv'
<1>. DEFINE s == [srv[c] EXCEPT !.pc = "serve"]
            d == Append(down[c], "begin")
            z == [srv[c] EXCEPT !.pc = "close"]
<1>1. srv[c].pc = "begin" /\ srv[c].source # NoPath /\ srv[c].rounds < Rounds
  BY Here DEF Typed, Begin, ServerAt, Talk
<1>2. CASE stopped
  <2>1. z \in ServerSide /\ z.pc = "close" /\ z.source = srv[c].source
    BY HereTyped DEF ServerSide, Handling, Blocking
  <2>2. /\ srv' = [srv EXCEPT ![c] = z] /\ UNCHANGED <<config, daemon, cli, wires, meant>>
        /\ Logged /\ srv[c].pc \in Handling
    BY <1>1, <1>2, Quiet DEF Begin, ServerTo, Handling
  <2>. HIDE DEF z
  <2>. QED  BY <1>2, <2>1, <2>2, Closes
<1>3. CASE ~stopped
  <2>1. Say(c, "begin", "serve")
    BY <1>3 DEF Begin
  <2>2. /\ s.pc = "serve" /\ s.source = srv[c].source
        /\ s.rounds = srv[c].rounds
        /\ UNCHANGED disturbed
    BY <2>1, Quiet, Here DEF Typed, ServerSide, Say
  <2>3. CASE SyncAhead(srv[c], cli[c], up[c], down[c])
    <3>1. One(down[c], "echo")
      BY <1>1, <2>3 DEF SyncAhead
    <3>2. Two(d, "echo", "begin") /\ ~One(d, "error")
      <4>1. Two(d, "echo", "begin")
        BY <3>1, Here, ShortQueues DEF Typed, DownMessage
      <4>. QED  BY <4>1 DEF Two, One
    <3>. HIDE DEF s, d
    <3>3. Talk(s, cli[c], up[c], d)
      BY <1>1, <2>2, <2>3, <3>2 DEF Talk, Phases, SyncAhead, Turns
    <3>4. Meant(s, cli[c], d, meant[c], config[Wants[c]])
      BY <1>1, <2>2, <3>2, Here DEF Meant
    <3>5. stopped \/ disturbed'[c]
                  \/ Smooth(s, cli[c], up[c], d)
      BY <1>1, <2>2, <3>2, Here DEF Smooth, Turns
    <3>6. Fits(c, s, cli[c], up[c], d, meant[c])
      BY <1>1, <2>2, <3>3, <3>4, <3>5 DEF Fits
    <3>. QED  BY <1>1, <2>1, <2>2, <3>6, Says DEF s, d, Handling, Blocking,
                 DownMessage
  <2>4. CASE Syncing(srv[c], cli[c], up[c], down[c])
    <3>1. Empty(down[c])
      BY <1>1, <2>4 DEF Syncing
    <3>2. One(d, "begin") /\ ~One(d, "error")
      <4>1. One(d, "begin")
        BY <3>1, Here, ShortQueues DEF Typed, DownMessage
      <4>. QED  BY <4>1 DEF One
    <3>. HIDE DEF s, d
    <3>3. Talk(s, cli[c], up[c], d)
      BY <1>1, <2>2, <2>4, <3>2 DEF Talk, Phases, Syncing, Turns
    <3>4. Meant(s, cli[c], d, meant[c], config[Wants[c]])
      BY <1>1, <2>2, <3>2, Here DEF Meant
    <3>5. stopped \/ disturbed'[c]
                  \/ Smooth(s, cli[c], up[c], d)
      BY <1>1, <2>2, <3>2, Here DEF Smooth, Turns
    <3>6. Fits(c, s, cli[c], up[c], d, meant[c])
      BY <1>1, <2>2, <3>3, <3>4, <3>5 DEF Fits
    <3>. QED  BY <1>1, <2>1, <2>2, <3>6, Says DEF s, d, Handling, Blocking,
                 DownMessage
  <2>. QED  BY <1>1, <2>3, <2>4, Here DEF Talk, Phases, NotDialled, BeforeLabel,
               Answering, TurnedAway
<1>. QED  BY <1>2, <1>3

\* A round: the hashes are read, the answer is alone on the way.
LEMMA ServeStep ==
    ASSUME OriginAssumption, Inv, NEW c \in Conns, Serve(c)
    PROVE  Inv'
<1>. DEFINE n == srv[c].rounds + 1
            u == Tail(up[c])
<1>1. srv[c].pc = "serve" /\ up[c] # <<>> /\ srv[c].source # NoPath
  BY Here DEF Typed, Serve, ServerAt
<1>2. Syncing(srv[c], cli[c], up[c], down[c]) /\ One(up[c], "hash") /\ Empty(down[c])
  <2>1. ~Empty(up[c])
    BY <1>1, Here, EmptySeq DEF Typed, Empty
  <2>. QED  BY <1>1, <2>1, Here DEF Talk, Phases, NotDialled, BeforeLabel,
               Answering, TurnedAway,
            SyncAhead, Syncing
<1>3. u \in Seq(UpMessage) /\ Empty(u)
  <2>1. "hash" \in UpMessage
    BY DEF UpMessage
  <2>. QED  BY <1>2, <2>1, Here, ShortQueues DEF Typed
<1>4. Logged /\ UNCHANGED <<config, daemon, cli, meant, disturbed>>
  BY Quiet DEF Serve
<1>5. up' = [up EXCEPT ![c] = u]
  BY DEF Serve
<1>6. CASE stopped
  <2>. DEFINE s == [srv[c] EXCEPT !.pc = "close"]
  <2>1. /\ s \in ServerSide /\ s.pc = "close" /\ s.source = srv[c].source
        /\ s.rounds = srv[c].rounds
        /\ srv' = [srv EXCEPT ![c] = s] /\ UNCHANGED down
    BY <1>6, HereTyped DEF ServerSide, Handling, Blocking, Serve, ServerTo
  <2>. HIDE DEF s, u
  <2>2. Move(c, s, cli[c], u, down[c], meant[c])
    BY <1>4, <1>5, <2>1 DEF Inv, TypeOK, Move
  <2>3. Typed(s, cli[c], u, down[c], meant[c])
    BY <1>3, <2>1, Here DEF Typed
  <2>4. Talk(s, cli[c], u, down[c])
    BY <1>2, <1>3, <2>1 DEF Talk, Phases, Syncing
  <2>5. Meant(s, cli[c], down[c], meant[c], config[Wants[c]])
    BY <1>1, <2>1, Here DEF Meant
  <2>6. Fits(c, s, cli[c], u, down[c], meant[c])
    BY <1>1, <1>6, <2>1, <2>4, <2>5 DEF Fits
  <2>. QED  BY <2>2, <2>3, <2>6, MoveKeeps
<1>7. CASE ~stopped
  <2>. DEFINE a == [srv[c] EXCEPT !.rounds = n, !.pc = "close"]
              b == [srv[c] EXCEPT !.rounds = n]
              s == IF n = Rounds THEN a ELSE b
              x == IF n = Rounds THEN "end" ELSE "pages"
              d == Append(down[c], x)
  <2>1. srv' = [srv EXCEPT ![c] = s] /\ down' = [down EXCEPT ![c] = d]
    <3>1. CASE n = Rounds
      BY <1>7, <3>1 DEF Serve
    <3>2. CASE n # Rounds
      BY <1>7, <3>2 DEF Serve
    <3>. QED  BY <3>1, <3>2
  <2>2. n \in 0 .. Rounds
    BY <1>1, Here, OriginAssumption DEF Typed, ServerSide, Talk
  <2>3. /\ s \in ServerSide /\ s.source = srv[c].source
        /\ \/ s.pc = "close" /\ x = "end"
           \/ s.pc = "serve" /\ x = "pages" /\ s.rounds < Rounds
    <3>1. /\ a \in ServerSide /\ a.source = srv[c].source /\ a.pc = "close"
          /\ b \in ServerSide /\ b.source = srv[c].source
          /\ b.pc = "serve" /\ b.rounds = n
      BY <1>1, <2>2, Here DEF Typed, ServerSide, Handling, Blocking
    <3>2. n # Rounds => n < Rounds
      BY <2>2, OriginAssumption
    <3>. HIDE DEF a, b, n
    <3>. QED  BY <3>1, <3>2
  <2>. HIDE DEF s, x, u
  <2>4. x \in {"end", "pages"}
    BY <2>3
  <2>5. d \in Seq(DownMessage) /\ One(d, x)
    BY <1>2, <2>4, Here, ShortQueues DEF Typed, DownMessage
  <2>6. ~One(d, "error")
    BY <2>4, <2>5 DEF One
  <2>. HIDE DEF d
  <2>7. Move(c, s, cli[c], u, d, meant[c])
    BY <1>4, <1>5, <2>1 DEF Inv, TypeOK, Move
  <2>8. Typed(s, cli[c], u, d, meant[c])
    BY <1>1, <1>3, <2>3, <2>5, Here DEF Typed
  <2>9. Talk(s, cli[c], u, d)
    BY <1>2, <1>3, <2>3, <2>5 DEF Talk, Phases, Syncing, Turns
  <2>10. Meant(s, cli[c], d, meant[c], config[Wants[c]])
    BY <1>1, <2>3, <2>6, Here DEF Meant
  <2>11. stopped \/ disturbed'[c]
                 \/ Smooth(s, cli[c], u, d)
    BY <1>1, <1>3, <1>4, <2>3, <2>5, Here DEF Smooth, Turns
  <2>12. Fits(c, s, cli[c], u, d, meant[c])
    BY <1>1, <2>3, <2>9, <2>10, <2>11 DEF Fits
  <2>. QED  BY <2>7, <2>8, <2>12, MoveKeeps
<1>. QED  BY <1>6, <1>7

-----------------------------------------------------------------------------
\* A dial: the label means what it names at this moment.
LEMMA DialStep ==
    ASSUME OriginAssumption, Inv, NEW c \in Conns, Dial(c)
    PROVE  Inv'
<1>. DEFINE s == IF open THEN [srv[c] EXCEPT !.pc = "queued"] ELSE srv[c]
            k == IF open THEN [cli[c] EXCEPT !.pc = "header"]
                         ELSE [cli[c] EXCEPT !.pc = "ended", !.result = "failed"]
            m == {config[Wants[c]]}
<1>1. cli[c].pc = "idle" /\ srv[c].pc = "none" /\ cli[c].result = "none"
  BY Here DEF Dial, Meant
<1>2. NotDialled(srv[c], cli[c], up[c], down[c]) /\ srv[c].rounds < Rounds
  BY <1>1, Here DEF Talk, Phases, BeforeLabel, Answering, TurnedAway, SyncAhead,
     Syncing
<1>3. ~open => stopped
  BY DEF Inv, ShutdownInv
<1>4. /\ s \in ServerSide /\ s.source = NoPath /\ s.rounds = srv[c].rounds
      /\ IF open THEN s.pc = "queued" ELSE s.pc = "none"
  BY <1>1, <1>2, Here DEF Typed, ServerSide, NotDialled
<1>5. /\ k \in ClientSide /\ k.result \in {"none", "failed"}
      /\ IF open THEN k.pc = "header" /\ k.result = "none" ELSE k.pc = "ended"
  BY <1>1, Here DEF Typed, ClientSide, Running, Asking
<1>6. Move(c, s, k, up[c], down[c], m)
  <2>1. srv' = [srv EXCEPT ![c] = s] /\ cli' = [cli EXCEPT ![c] = k]
    <3>1. CASE open
      BY <3>1 DEF Dial, ClientTo, ServerTo
    <3>2. CASE ~open
      BY <3>2 DEF Dial, EndRun, Inv, TypeOK
    <3>. QED  BY <3>1, <3>2
  <2>. HIDE DEF s, k
  <2>2. Logged
    BY DEF Dial, NoEvent, Logged, Inv, TypeOK
  <2>. QED  BY <2>1, <2>2 DEF Dial, wires, Inv, TypeOK, Move
<1>. HIDE DEF s, k
<1>7. Typed(s, k, up[c], down[c], m)
  BY <1>4, <1>5, Here DEF Typed
<1>8. Talk(s, k, up[c], down[c])
  BY <1>2, <1>4, <1>5 DEF Talk, Phases, NotDialled, BeforeLabel, Asks, Asking
<1>9. Meant(s, k, down[c], m, config[Wants[c]])
  <2>1. ~One(down[c], "error")
    BY <1>2 DEF NotDialled, Empty, One
  <2>. QED  BY <1>4, <1>5, <2>1 DEF Meant
<1>10. stopped \/ Smooth(s, k, up[c], down[c])
  BY <1>3, <1>4, <1>5 DEF Smooth, Asking
<1>11. Served # {} \/ disturbed'[c]
  BY DEF Dial, Inv, TypeOK
<1>12. Fits(c, s, k, up[c], down[c], m)
  BY <1>1, <1>4, <1>8, <1>9, <1>10, <1>11 DEF Fits
<1>. QED  BY <1>6, <1>7, <1>12, MoveKeeps

\* The two writes of the label.
LEMMA WriteStep ==
    ASSUME OriginAssumption, Inv, NEW c \in Conns, WriteHeader(c) \/ WriteText(c)
    PROVE  Inv'
<1>. DEFINE x == IF cli[c].pc = "header" THEN "header" ELSE "text"
            u == Append(up[c], x)
            k == [cli[c] EXCEPT !.pc = IF x = "header" THEN "text" ELSE "answer"]
<1>1. /\ cli[c].pc \in {"header", "text"} /\ x = cli[c].pc /\ x \in UpMessage
      /\ Logged /\ UNCHANGED <<meant, disturbed>>
  BY Quiet DEF WriteHeader, WriteText, UpMessage
<1>2. /\ k \in ClientSide /\ k.pc = (IF x = "header" THEN "text" ELSE "answer")
      /\ k.result = cli[c].result /\ k.source = cli[c].source
  BY Here DEF Typed, ClientSide, Running, Asking
<1>3. cli' = [cli EXCEPT ![c] = k] /\ up' = [up EXCEPT ![c] = u]
  BY DEF WriteHeader, WriteText, ClientTo
<1>. HIDE DEF k
<1>4. Move(c, srv[c], k, u, down[c], meant[c])
  BY <1>1, <1>3 DEF WriteHeader, WriteText, Inv, TypeOK, Move
<1>5. /\ BeforeLabel(srv[c], cli[c], up[c], down[c])
         \/ TurnedAway(srv[c], cli[c], up[c], down[c])
      /\ Asks(cli[c], up[c])
  BY <1>1, Here DEF Talk, Phases, NotDialled, BeforeLabel, Answering, TurnedAway,
     SyncAhead,
     Syncing, Over
<1>6. /\ u \in Seq(UpMessage)
      /\ x = "header" => One(u, "header")
      /\ x = "text" => Two(u, "header", "text")
  BY <1>1, <1>5, Here, ShortQueues DEF Typed, Asks
<1>. HIDE DEF x, u
<1>7. Typed(srv[c], k, u, down[c], meant[c])
  BY <1>2, <1>6, Here DEF Typed
<1>8. Asks(k, u)
  BY <1>1, <1>2, <1>6 DEF Asks, Asking
<1>9. Talk(srv[c], k, u, down[c])
  BY <1>1, <1>2, <1>5, <1>6, <1>8, Here DEF Talk, Phases, BeforeLabel, TurnedAway
<1>10. Meant(srv[c], k, down[c], meant[c], config[Wants[c]])
  BY <1>1, <1>2, Here DEF Meant
<1>11. stopped \/ disturbed'[c]
               \/ Smooth(srv[c], k, u, down[c])
  <2>1. srv[c].pc \in {"close", "closed"} => ~Smooth(srv[c], cli[c], up[c], down[c])
    BY <1>1 DEF Smooth
  <2>. QED  BY <1>1, <1>2, <1>5, <2>1, Here DEF Smooth, Asking
<1>12. Fits(c, srv[c], k, u, down[c], meant[c])
  BY <1>1, <1>9, <1>10, <1>11, Here DEF Fits
<1>. QED  BY <1>4, <1>7, <1>12, MoveKeeps

\* A run that ends without an answer was disturbed, or there was nothing to serve.
LEMMA LosesStep ==
    ASSUME OriginAssumption, Inv, NEW c \in Conns, FailWrite(c) \/ LoseServer(c)
    PROVE  Inv'
<1>. DEFINE k == [cli[c] EXCEPT !.pc = "ended", !.result = "failed"]
<1>1. /\ cli[c].pc \in {"header", "text", "answer", "sync"} /\ srv[c].pc = "closed"
      /\ Logged /\ UNCHANGED <<meant, disturbed>> /\ cli' = [cli EXCEPT ![c] = k]
      /\ cli[c].pc \in {"answer", "sync"} => down[c] = <<>> \/ up[c] # <<>>
  BY Quiet DEF FailWrite, LoseServer, EndRun, ServerClosed
<1>2. k \in ClientSide /\ k.pc = "ended" /\ k.result = "failed"
  BY Here DEF Typed, ClientSide, Running, Asking
<1>. HIDE DEF k
<1>3. Talk(srv[c], k, up[c], down[c])
  BY <1>1, <1>2, Here DEF Talk, Phases, NotDialled, BeforeLabel, Asks, Answering,
     TurnedAway,
     SyncAhead, Syncing, Asking, Over
<1>4. Meant(srv[c], k, down[c], meant[c], config[Wants[c]])
  BY <1>1, <1>2, Here DEF Meant
<1>5. ~Smooth(srv[c], cli[c], up[c], down[c])
  <2>1. ~Empty(up[c]) \/ Empty(down[c]) \/ cli[c].pc \in {"header", "text"}
    BY <1>1, Here, EmptySeq DEF Typed, Empty
  <2>2. Empty(down[c]) => ~One(down[c], "error") /\ ~One(down[c], "end")
                            /\ ~Two(down[c], "echo", "end")
    BY DEF Empty, One, Two
  <2>. QED  BY <1>1, <2>1, <2>2 DEF Smooth
<1>6. Fits(c, srv[c], k, up[c], down[c], meant[c])
  BY <1>1, <1>3, <1>4, <1>5, Here DEF Fits
<1>7. UNCHANGED <<config, daemon, srv, wires, meant>> /\ Logged
  BY <1>1 DEF FailWrite, LoseServer
<1>. QED  BY <1>1, <1>2, <1>6, <1>7, ClientMoves

\* CancelRun and Vanish: an event.
LEMMA LeavesStep ==
    ASSUME OriginAssumption, Inv, NEW c \in Conns, CancelRun(c) \/ Vanish(c)
    PROVE  Inv'
<1>. DEFINE a == [cli[c] EXCEPT !.pc = "ended", !.result = "failed"]
            b == [cli[c] EXCEPT !.pc = "gone"]
<1>1. /\ cli[c].pc \in Running /\ Logged /\ disturbed'[c]
      /\ UNCHANGED <<config, daemon, srv, wires, meant>>
  <2>1. spent' \in 0 .. MaxEvents
    BY OriginAssumption DEF CancelRun, Vanish, Inject, Inv, TypeOK
  <2>. QED  BY <2>1, Recorded DEF CancelRun, Vanish
<1>2. \E k \in ClientSide : /\ cli' = [cli EXCEPT ![c] = k] /\ k.pc \in Over
                            /\ k.result \in {"failed", cli[c].result}
                            /\ k.source = cli[c].source
  <2>1. /\ a \in ClientSide /\ a.pc \in Over /\ a.result = "failed"
        /\ a.source = cli[c].source
        /\ b \in ClientSide /\ b.pc \in Over /\ b.result = cli[c].result
        /\ b.source = cli[c].source
    BY Here DEF Typed, ClientSide, Over, Running, Asking
  <2>2. cli' = [cli EXCEPT ![c] = a] \/ cli' = [cli EXCEPT ![c] = b]
    BY DEF CancelRun, Vanish, EndRun, ClientTo
  <2>. HIDE DEF a, b
  <2>. QED  BY <2>1, <2>2
<1>3. PICK k \in ClientSide : /\ cli' = [cli EXCEPT ![c] = k] /\ k.pc \in Over
                             /\ k.result \in {"failed", cli[c].result}
                             /\ k.source = cli[c].source
  BY <1>2
<1>4. Talk(srv[c], k, up[c], down[c])
  BY <1>1, <1>3, Here DEF Talk, Phases, NotDialled, BeforeLabel, Asks, Answering,
     TurnedAway,
     SyncAhead, Syncing, Asking, Running, Over
<1>5. Meant(srv[c], k, down[c], meant[c], config[Wants[c]])
  BY <1>1, <1>3, Here DEF Meant, Running, Asking, Over
<1>6. Fits(c, srv[c], k, up[c], down[c], meant[c])
  BY <1>1, <1>4, <1>5, Here DEF Fits
<1>. QED  BY <1>1, <1>3, <1>6, ClientMoves

\* The answer to the label is an echo or the text of an error.
LEMMA ReadAnswerStep ==
    ASSUME OriginAssumption, Inv, NEW c \in Conns, ReadAnswer(c)
    PROVE  Inv'
<1>. DEFINE a == [cli[c] EXCEPT !.pc = "sync"]
            b == [cli[c] EXCEPT !.pc = "ended", !.result = "rejected"]
            k == IF Head(down[c]) = "echo" THEN a ELSE b
            d == Tail(down[c])
<1>1. /\ cli[c].pc = "answer" /\ down[c] # <<>>
      /\ Logged /\ UNCHANGED <<meant, disturbed>>
  BY Quiet DEF ReadAnswer
<1>2. ~Empty(down[c])
  BY <1>1, Here, EmptySeq DEF Typed, Empty
<1>3. \/ TurnedAway(srv[c], cli[c], up[c], down[c]) /\ One(down[c], "error")
      \/ SyncAhead(srv[c], cli[c], up[c], down[c])
  BY <1>1, <1>2, Here DEF Talk, Phases, NotDialled, BeforeLabel, Answering,
     TurnedAway, Syncing,
     Over
<1>4. /\ Head(down[c]) \in {"echo", "error"}
      /\ Head(down[c]) = "error" => One(down[c], "error")
                                      /\ TurnedAway(srv[c], cli[c], up[c], down[c])
      /\ Head(down[c]) = "echo" => SyncAhead(srv[c], cli[c], up[c], down[c])
      /\ d \in Seq(DownMessage)
      /\ One(down[c], "error") \/ One(down[c], "echo") => Empty(d)
      /\ \A x : Two(down[c], "echo", x) => One(d, x)
  <2>1. "echo" \in DownMessage
    BY DEF DownMessage
  <2>. QED  BY <1>3, <2>1, Here, ShortQueues DEF Typed, SyncAhead
<1>5. /\ k \in ClientSide
      /\ Head(down[c]) = "echo" => k.pc = "sync" /\ k.result = cli[c].result
                                      /\ k.source = cli[c].source
      /\ Head(down[c]) = "error" => k.pc = "ended" /\ k.result = "rejected"
  BY Here DEF Typed, ClientSide, Running
<1>6. Move(c, srv[c], k, up[c], d, meant[c])
  <2>1. cli' = [cli EXCEPT ![c] = k]
    BY Zenon DEF ReadAnswer, ClientTo, EndRun
  <2>. HIDE DEF k
  <2>. QED  BY <1>1, <2>1 DEF ReadAnswer, Inv, TypeOK, Move
<1>. HIDE DEF k, d
<1>7. Typed(srv[c], k, up[c], d, meant[c])
  BY <1>4, <1>5, Here DEF Typed
<1>8. Talk(srv[c], k, up[c], d)
  <2>1. CASE Head(down[c]) = "error"
    BY <1>1, <1>4, <1>5, <2>1, Here DEF Talk, Phases, TurnedAway, Asks, Asking, Over
  <2>2. CASE Head(down[c]) = "echo"
    BY <1>1, <1>4, <1>5, <2>2, Here DEF Talk, Phases, SyncAhead, Syncing
  <2>. QED  BY <1>4, <2>1, <2>2
<1>9. Meant(srv[c], k, d, meant[c], config[Wants[c]])
  <2>1. ~One(d, "error")
    BY <1>4 DEF SyncAhead, Empty, One, Turns
  <2>. QED  BY <1>1, <1>4, <1>5, <2>1, Here DEF Meant
<1>10. stopped \/ disturbed'[c]
               \/ Smooth(srv[c], k, up[c], d)
  <2>1. CASE Head(down[c]) = "error"
    BY <1>1, <1>4, <1>5, <2>1, Here DEF Smooth, TurnedAway
  <2>2. CASE Head(down[c]) = "echo"
    <3>1. Empty(up[c]) /\ srv[c].pc \in {"begin", "serve", "close", "closed"}
      BY <1>4, <2>2 DEF SyncAhead
    <3>2. \A x \in Turns \cup {"error"} : ~One(down[c], x) /\ ~One(up[c], "hash")
      BY <1>4, <2>2, <3>1 DEF SyncAhead, Empty, One, Two, Turns
    <3>. QED  BY <1>1, <1>4, <1>5, <2>2, <3>1, <3>2, Here DEF Smooth, Turns
  <2>. QED  BY <1>4, <2>1, <2>2
<1>11. Fits(c, srv[c], k, up[c], d, meant[c])
  BY <1>1, <1>8, <1>9, <1>10, Here DEF Fits
<1>. QED  BY <1>6, <1>7, <1>11, MoveKeeps

\* A message of the sync is answered; the end of the sync ends the run.
LEMMA ReplicateStep ==
    ASSUME OriginAssumption, Inv, NEW c \in Conns, Replicate(c)
    PROVE  Inv'
<1>. DEFINE d == Tail(down[c])
            z == [cli[c] EXCEPT !.pc = "ended", !.result = "ok", !.source = srv[c].source]
            w == Append(up[c], "hash")
<1>1. /\ cli[c].pc = "sync" /\ down[c] # <<>>
      /\ Logged /\ UNCHANGED <<meant, disturbed>>
  BY Quiet DEF Replicate
<1>2. /\ Syncing(srv[c], cli[c], up[c], down[c]) /\ Empty(up[c]) /\ srv[c].pc # "begin"
      /\ \E x \in Turns : One(down[c], x)
  <2>1. ~Empty(down[c])
    BY <1>1, Here, EmptySeq DEF Typed, Empty
  <2>. QED  BY <1>1, <2>1, Here DEF Talk, Phases, NotDialled, BeforeLabel, Asks,
               Answering,
            TurnedAway, SyncAhead, Syncing, Asking, Over
<1>3. PICK x \in Turns : One(down[c], x)
  BY <1>2
<1>4. Head(down[c]) = x /\ d \in Seq(DownMessage) /\ Empty(d)
  <2>1. "echo" \in DownMessage
    BY DEF DownMessage
  <2>. QED  BY <1>3, <2>1, Here, ShortQueues DEF Typed
<1>5. w \in Seq(UpMessage) /\ One(w, "hash")
  BY <1>2, Here, ShortQueues DEF Typed, UpMessage
<1>6. /\ down' = [down EXCEPT ![c] = d] /\ UNCHANGED <<config, daemon, srv, meant>>
      /\ x = "end" => cli' = [cli EXCEPT ![c] = z] /\ UNCHANGED up
      /\ x # "end" => up' = [up EXCEPT ![c] = w] /\ UNCHANGED cli
  BY <1>1, <1>4 DEF Replicate
<1>7. /\ z \in ClientSide /\ z.pc = "ended" /\ z.result = "ok"
      /\ z.source = srv[c].source /\ z.source \in meant[c] \ {NoPath}
  BY <1>2, Here DEF Typed, ServerSide, ClientSide, Syncing, Meant
<1>8. ~One(d, "error")
  BY <1>4 DEF Empty, One
<1>. HIDE DEF z, w, d
<1>9. CASE x = "end"
  <2>1. Move(c, srv[c], z, up[c], d, meant[c])
    BY <1>1, <1>6, <1>9 DEF Inv, TypeOK, Move
  <2>2. Typed(srv[c], z, up[c], d, meant[c])
    BY <1>4, <1>7, Here DEF Typed
  <2>3. Talk(srv[c], z, up[c], d)
    BY <1>2, <1>4, <1>7, Here DEF Talk, Phases, Syncing, Over
  <2>4. Meant(srv[c], z, d, meant[c], config[Wants[c]])
    BY <1>1, <1>7, <1>8, Here DEF Meant
  <2>5. stopped \/ disturbed'[c]
                \/ Smooth(srv[c], z, up[c], d)
    <3>1. srv[c].pc \in {"close", "closed"} \/ ~Smooth(srv[c], cli[c], up[c], down[c])
      BY <1>2, <1>3, <1>9 DEF Syncing, Smooth, One, Two, Empty, Turns
    <3>. QED  BY <1>1, <1>7, <3>1, Here DEF Smooth
  <2>6. Fits(c, srv[c], z, up[c], d, meant[c])
    BY <1>1, <2>3, <2>4, <2>5, Here DEF Fits
  <2>. QED  BY <2>1, <2>2, <2>6, MoveKeeps
<1>10. CASE x # "end"
  <2>1. Move(c, srv[c], cli[c], w, d, meant[c])
    BY <1>1, <1>6, <1>10 DEF Inv, TypeOK, Move
  <2>2. Typed(srv[c], cli[c], w, d, meant[c])
    BY <1>4, <1>5, Here DEF Typed
  <2>3. Talk(srv[c], cli[c], w, d)
    BY <1>2, <1>4, <1>5, Here DEF Talk, Phases, Syncing
  <2>4. Meant(srv[c], cli[c], d, meant[c], config[Wants[c]])
    BY <1>1, <1>8, Here DEF Meant
  <2>5. stopped \/ disturbed'[c]
                \/ Smooth(srv[c], cli[c], w, d)
    <3>1. srv[c].pc \in {"close", "closed"} => ~Smooth(srv[c], cli[c], up[c], down[c])
      BY <1>1, <1>3, <1>10 DEF Smooth, One, Two, Turns
    <3>. QED  BY <1>1, <1>2, <1>5, <3>1, Here DEF Smooth, Syncing
  <2>6. Fits(c, srv[c], cli[c], w, d, meant[c])
    BY <1>1, <2>3, <2>4, <2>5, Here DEF Fits
  <2>. QED  BY <2>1, <2>2, <2>6, MoveKeeps
<1>. QED  BY <1>9, <1>10

-----------------------------------------------------------------------------
\* A step of a stopped daemon keeps the invariant when every connection keeps its
\* phase: no run is owed an answer any more.
LEMMA StoppedKeeps ==
    ASSUME OriginAssumption, Inv, TypeOK', ShutdownInv', stopped', Logged,
           UNCHANGED <<config, cli, up, down>>,
           \A c \in Conns : /\ Talk(srv'[c], cli[c], up[c], down[c])
                            /\ Meant(srv'[c], cli[c], down[c], meant'[c], config[Wants[c]])
    PROVE  Inv'
<1>1. Served' = Served
  BY DEF Served
<1>. QED  BY <1>1 DEF Inv, Conversation, Logged

LEMMA StopStep ==
    ASSUME OriginAssumption, Inv, Stop
    PROVE  Inv'
<1>1. TypeOK' /\ Logged /\ UNCHANGED meant
  BY Quiet DEF Inv, TypeOK, Stop, wires
<1>2. ShutdownInv'
  BY DEF Inv, ShutdownInv, DoneMeansQuiet, Stop
<1>. QED  BY <1>1, <1>2, Here, StoppedKeeps DEF Stop, wires

LEMMA ReloadStep ==
    ASSUME OriginAssumption, Inv, Reload
    PROVE  Inv'
<1>1. \A c \in Conns : config'[Wants[c]] \in Sources \cup {NoPath}
  BY DEF Reload, OriginAssumption
<1>2. spent' \in 0 .. MaxEvents
  BY OriginAssumption DEF Inv, TypeOK, Reload, Inject
<1>3. /\ meant' \in [Conns -> SUBSET (Sources \cup {NoPath})]
      /\ disturbed' \in [Conns -> BOOLEAN]
  BY <1>1 DEF Inv, TypeOK, Reload
<1>4. TypeOK'
  BY <1>2, <1>3 DEF Inv, TypeOK, Reload, daemon, wires
<1>5. ShutdownInv'
  BY DEF Inv, ShutdownInv, DoneMeansQuiet, Reload, daemon
<1>6. ASSUME NEW c \in Conns
      PROVE  Meant(srv[c], cli[c], down[c], meant'[c], config'[Wants[c]])
  <2>1. cli[c].pc # "idle" => meant'[c] = meant[c] \cup {config'[Wants[c]]}
    BY DEF Reload
  <2>2. cli[c].pc = "idle" => /\ srv[c].source = NoPath /\ srv[c].pc = "none"
                              /\ cli[c].result = "none" /\ ~One(down[c], "error")
    BY Here DEF Meant, Talk, Phases, NotDialled, BeforeLabel, Answering,
       TurnedAway, SyncAhead,
       Syncing, Empty, One
  <2>. QED  BY <2>1, <2>2, Here DEF Meant
<1>7. ASSUME NEW c \in Conns
      PROVE  /\ disturbed[c] => disturbed'[c]
             /\ cli[c].pc # "idle" /\ Served' = {} => disturbed'[c]
  BY DEF Reload
<1>8. UNCHANGED <<stopped, srv, cli, up, down>>
  BY DEF Reload, daemon, wires
<1>9. ASSUME NEW c \in Conns
      PROVE  Conversation(c)'
  BY <1>6, <1>7, <1>8, Here DEF Conversation
<1>. QED  BY <1>4, <1>5, <1>9 DEF Inv

\* The queued connections are reset: their runs get no answer, but Stop has
\* disturbed them.
LEMMA CloseListenerStep ==
    ASSUME OriginAssumption, Inv, CloseListener
    PROVE  Inv'
<1>1. ASSUME NEW c \in Conns
      PROVE  /\ srv'[c] \in ServerSide
             /\ IF srv[c].pc = "queued" THEN srv'[c].pc = "closed" ELSE srv'[c].pc = srv[c].pc
             /\ srv'[c].source = srv[c].source /\ srv'[c].rounds = srv[c].rounds
  <2>. DEFINE z == [srv[c] EXCEPT !.pc = "closed"]
  <2>1. /\ z \in ServerSide /\ z.pc = "closed" /\ z.source = srv[c].source
        /\ z.rounds = srv[c].rounds /\ srv[c] \in ServerSide
    BY Here DEF Typed, ServerSide
  <2>2. srv'[c] = IF srv[c].pc = "queued" THEN z ELSE srv[c]
    BY DEF CloseListener, ServerAt
  <2>. HIDE DEF z
  <2>. QED  BY <2>1, <2>2
<1>2. srv' \in [Conns -> ServerSide]
  <2>1. srv' = [c \in Conns |-> srv'[c]]
    BY DEF CloseListener
  <2>. QED  BY <1>1, <2>1
<1>3. TypeOK' /\ Logged /\ UNCHANGED meant
  BY <1>1, <1>2, Quiet DEF Inv, TypeOK, CloseListener, wires
<1>4. ShutdownInv'
  BY <1>1 DEF Inv, ShutdownInv, DoneMeansQuiet, CloseListener
<1>5. ASSUME NEW c \in Conns
      PROVE  /\ Talk(srv'[c], cli[c], up[c], down[c])
             /\ Meant(srv'[c], cli[c], down[c], meant[c], config[Wants[c]])
  <2>1. Meant(srv'[c], cli[c], down[c], meant[c], config[Wants[c]])
    BY <1>1, Here DEF Meant
  <2>2. CASE srv[c].pc = "queued"
    <3>1. BeforeLabel(srv[c], cli[c], up[c], down[c])
      BY <2>2, Here DEF Talk, Phases, NotDialled, Answering, TurnedAway, SyncAhead,
         Syncing
    <3>. QED  BY <1>1, <2>1, <2>2, <3>1 DEF BeforeLabel, TurnedAway, Talk, Phases
  <2>3. CASE srv[c].pc # "queued"
    BY <1>1, <2>1, <2>3, Here DEF Talk, Phases, NotDialled, BeforeLabel, Answering,
       TurnedAway,
       SyncAhead, Syncing
  <2>. QED  BY <2>2, <2>3
<1>6. UNCHANGED <<config, cli, up, down, meant>> /\ stopped'
  BY <1>3 DEF CloseListener, wires
<1>. QED  BY <1>3, <1>4, <1>5, <1>6, StoppedKeeps

\* LeaveLoop and FinishShutdown: no handler is left when the loop is done.
LEMMA LoopEndsStep ==
    ASSUME OriginAssumption, Inv, LeaveLoop \/ FinishShutdown
    PROVE  Inv'
<1>1. /\ UNCHANGED <<config, stopped, open, srv, cli, wires, meant, disturbed, spent>>
      /\ loop' \in {"wait", "done"} /\ ~open /\ stopped /\ Logged
  BY Quiet DEF LeaveLoop, FinishShutdown, Inv, ShutdownInv
<1>2. TypeOK'
  BY <1>1 DEF Inv, TypeOK, wires
<1>3. loop' = "done" => \A c \in Conns : srv[c].pc \in {"none", "closed"}
  <2>1. ASSUME NEW c \in Conns
        PROVE  srv[c].pc \in {"none", "queued", "closed"} \cup Handling
    BY Here DEF Typed, ServerSide
  <2>2. loop' = "done" => \A c \in Conns : srv[c].pc \notin Handling
    BY DEF LeaveLoop, FinishShutdown
  <2>. QED  BY <1>1, <2>1, <2>2 DEF Inv, ShutdownInv
<1>4. ShutdownInv'
  BY <1>1, <1>3 DEF Inv, ShutdownInv, DoneMeansQuiet
<1>. QED  BY <1>1, <1>2, <1>4, Here, StoppedKeeps DEF wires

-----------------------------------------------------------------------------
LEMMA InvInit ==
    ASSUME OriginAssumption, Init
    PROVE  Inv
<1>1. ASSUME NEW c \in Conns
      PROVE  /\ srv[c] \in ServerSide /\ cli[c] \in ClientSide
             /\ srv[c].pc = "none" /\ srv[c].source = NoPath /\ srv[c].rounds = 0
             /\ cli[c].pc = "idle" /\ cli[c].result = "none"
             /\ up[c] = <<>> /\ down[c] = <<>> /\ meant[c] = {}
  BY OriginAssumption DEF Init, ServerSide, ClientSide, Handling, Blocking
<1>2. TypeOK
  <2>1. srv \in [Conns -> ServerSide] /\ cli \in [Conns -> ClientSide]
    BY <1>1 DEF Init
  <2>2. up \in [Conns -> Seq(UpMessage)] /\ down \in [Conns -> Seq(DownMessage)]
    BY <1>1 DEF Init
  <2>3. /\ meant \in [Conns -> SUBSET (Sources \cup {NoPath})]
        /\ disturbed \in [Conns -> BOOLEAN] /\ spent \in 0 .. MaxEvents
    BY OriginAssumption DEF Init
  <2>4. config \in Configs /\ stopped \in BOOLEAN /\ open \in BOOLEAN
        /\ loop \in {"accept", "wait", "done"}
    BY DEF Init
  <2>5. \A c \in Conns : srv[c].pc \in {"echo", "begin", "serve"} => srv[c].source # NoPath
    BY <1>1
  <2>. QED  BY <2>1, <2>2, <2>3, <2>4, <2>5 DEF TypeOK
<1>3. ShutdownInv
  BY DEF Init, ShutdownInv, DoneMeansQuiet
<1>4. ASSUME NEW c \in Conns
      PROVE  Conversation(c)
  <2>1. Empty(up[c]) /\ Empty(down[c]) /\ ~One(down[c], "error")
    BY <1>1 DEF Empty, One
  <2>2. Talk(srv[c], cli[c], up[c], down[c])
    BY <1>1, <2>1, OriginAssumption DEF Talk, Phases, NotDialled
  <2>3. Meant(srv[c], cli[c], down[c], meant[c], config[Wants[c]])
    BY <1>1, <2>1 DEF Meant
  <2>4. Smooth(srv[c], cli[c], up[c], down[c])
    BY <1>1 DEF Smooth
  <2>. QED  BY <1>1, <2>2, <2>3, <2>4 DEF Conversation
<1>. QED  BY <1>2, <1>3, <1>4 DEF Inv

LEMMA InvStep ==
    ASSUME OriginAssumption, Inv, [Next]_vars
    PROVE  Inv'
<1>1. CASE LoopStep
  BY <1>1, CloseListenerStep, LoopEndsStep DEF LoopStep
<1>2. CASE Stop
  BY <1>2, StopStep
<1>3. CASE Reload
  BY <1>3, ReloadStep
<1>4. ASSUME NEW c \in Conns, Handle(c)
      PROVE  Inv'
  <2>1. CASE Check(c) \/ ReadLabel(c) \/ Resolve(c)
    BY <2>1, CheckStep, ReadLabelStep, ResolveStep
  <2>2. CASE Refuse(c) \/ Reject(c) \/ Echo(c) \/ Begin(c) \/ Serve(c)
    BY <2>2, RejectionStep, EchoStep, BeginStep, ServeStep
  <2>3. CASE Expire(c) \/ LoseClient(c) \/ CloseConn(c)
    BY <2>3, GiveUpStep, CloseStep
  <2>. QED  BY <1>4, <2>1, <2>2, <2>3 DEF Handle
<1>5. ASSUME NEW c \in Conns, Run(c)
      PROVE  Inv'
  BY <1>5, WriteStep, LosesStep, ReadAnswerStep, ReplicateStep DEF Run
<1>6. ASSUME NEW c \in Conns,
             Accept(c) \/ FailSync(c) \/ Dial(c) \/ CancelRun(c) \/ Vanish(c)
      PROVE  Inv'
  BY <1>6, AcceptStep, GiveUpStep, DialStep, LeavesStep
<1>7. CASE UNCHANGED vars
  <2>1. UNCHANGED <<config, stopped, open, loop, srv, cli, up, down, meant,
                  disturbed, spent>>
    BY <1>7 DEF vars
  <2>2. TypeOK' /\ ShutdownInv'
    BY <2>1 DEF Inv, TypeOK, ShutdownInv, DoneMeansQuiet
  <2>3. \A c \in Conns : Conversation(c)'
    BY <2>1 DEF Inv, Conversation, Served
  <2>. QED  BY <2>2, <2>3 DEF Inv
<1>. QED  BY <1>1, <1>2, <1>3, <1>4, <1>5, <1>6, <1>7 DEF Next

\* Every reachable state satisfies the inductive invariant.
THEOREM Inductive == Spec => []Inv
<1>1. Init => Inv
  BY InvInit, OriginAssumption
<1>2. Inv /\ [Next]_vars => Inv'
  BY InvStep, OriginAssumption
<1>. QED  BY <1>1, <1>2, PTL DEF Spec

\* Both sides, the queues and the loop keep their types, and a handler that has
\* echoed a label has a source.
THEOREM TypeCorrect == Spec => []TypeOK
<1>1. Inv => TypeOK
  BY DEF Inv
<1>. QED  BY <1>1, Inductive, PTL

\* When the daemon reports its end, the listener is closed and every handler is
\* over, for any number of connections.
THEOREM ShutdownJoins == Spec => []DoneMeansQuiet
<1>1. Inv => DoneMeansQuiet
  BY DEF Inv, ShutdownInv
<1>. QED  BY <1>1, Inductive, PTL

\* The phases of a connection say what each side may still read.
LEMMA InvSeparates ==
    ASSUME OriginAssumption, Inv
    PROVE  PreambleSeparated
<1>. SUFFICES ASSUME NEW c \in Conns
     PROVE  /\ ServerAt(c, "serve") => \A i \in 1 .. Len(up[c]) : up[c][i] = "hash"
            /\ cli[c].pc = "sync" => \A i \in 1 .. Len(down[c]) : down[c][i] \in Turns
            /\ cli[c].pc \in Asking /\ down[c] # <<>> => Head(down[c]) \in {"echo", "error"}
  BY DEF PreambleSeparated, Turns
<1>1. \A i \in 1 .. 0 : FALSE
  OBVIOUS
<1>2. \A i \in 1 .. 1 : i = 1
  OBVIOUS
<1>3. ServerAt(c, "serve") => Empty(up[c]) \/ One(up[c], "hash")
  BY Here DEF ServerAt, Talk, Phases, NotDialled, BeforeLabel, Answering,
     TurnedAway,
     SyncAhead, Syncing
<1>4. cli[c].pc = "sync" => Empty(down[c]) \/ \E x \in Turns : One(down[c], x)
  BY Here DEF Talk, Phases, NotDialled, BeforeLabel, Asks, Answering, TurnedAway,
     SyncAhead,
     Syncing, Asking, Over
<1>5. cli[c].pc \in Asking => \/ Empty(down[c]) \/ One(down[c], "error") \/ One(down[c], "echo")
                              \/ \E x \in Turns : Two(down[c], "echo", x)
  BY Here DEF Talk, Phases, NotDialled, BeforeLabel, Answering, TurnedAway,
     SyncAhead, Syncing,
     Asking, Over
<1>6. ServerAt(c, "serve") => \A i \in 1 .. Len(up[c]) : up[c][i] = "hash"
  BY <1>1, <1>2, <1>3, Zenon DEF Empty, One
<1>7. cli[c].pc = "sync" => \A i \in 1 .. Len(down[c]) : down[c][i] \in Turns
  BY <1>1, <1>2, <1>4, Zenon DEF Empty, One
<1>8. cli[c].pc \in Asking /\ down[c] # <<>> => Head(down[c]) \in {"echo", "error"}
  <2>1. "echo" \in DownMessage /\ down[c] \in Seq(DownMessage)
    BY Here DEF Typed, DownMessage
  <2>. QED  BY <1>5, <2>1, ShortQueues
<1>. QED  BY <1>6, <1>7, <1>8

\* Neither side ever reads a message of the preamble as one of the sync, or the
\* other way round.
THEOREM Separated == Spec => []PreambleSeparated
<1>1. Inv => PreambleSeparated
  BY InvSeparates, OriginAssumption
<1>. QED  BY <1>1, Inductive, PTL

\* However often the configuration is reloaded, a run ends with a database its
\* label named while it ran, or is rejected because it named none for a while.
THEOREM AnswerFollowsConfig == Spec => []AnswerMatchesConfig
<1>1. Inv => AnswerMatchesConfig
  BY Here, OriginAssumption DEF AnswerMatchesConfig, Meant
<1>. QED  BY <1>1, Inductive, PTL

\* A run that fails was itself disturbed, or the daemon was stopped: an event on
\* another connection, or a reload that leaves something to serve, is no excuse.
THEOREM EveryRunAnswered == Spec => []UndisturbedIsAnswered
<1>1. Inv => UndisturbedIsAnswered
  BY DEF Inv, Conversation, Smooth, UndisturbedIsAnswered
<1>. QED  BY <1>1, Inductive, PTL
-----------------------------------------------------------------------------
(* Handlers get on: the variant that the end of a shutdown rests on.       *)

\* A handler that has read, or waits to read, from its client has a deadline.
Bounded(s) == s.pc \in {"label", "resolve", "echo", "begin", "serve"} => s.armed

BoundedInv == \A c \in Conns : Bounded(srv[c])

\* How the server's side of a connection may change in a step: there is a loop
\* only where the sync counts its rounds.
Forward(s, t) ==
    /\ s.armed => t.armed
    /\ \/ t.rounds = s.rounds
       \/ t.rounds = s.rounds + 1 /\ t.pc \in {"serve", "close"}
    /\ \/ s.pc \in {"none", "queued"} /\ t.pc \in {"queued", "check", "closed"}
       \/ s.pc = "check" /\ t.pc = "refuse"
       \/ s.pc = "check" /\ t.pc = "label" /\ t.armed
       \/ s.pc = "label" /\ t.pc = "resolve"
       \/ s.pc = "resolve" /\ t.pc \in {"reject", "echo"}
       \/ s.pc = "echo" /\ t.pc = "begin"
       \/ s.pc = "begin" /\ t.pc = "serve" /\ t.rounds = s.rounds
       \/ s.pc = "serve" /\ t.pc = "serve" /\ t.rounds = s.rounds + 1
       \/ s.pc \in Handling \ {"close"} /\ t.pc = "close"
       \/ s.pc = "close" /\ t.pc = "closed"

\* A step of one connection leaves the server's side of the others alone,
LEMMA OthersStay ==
    ASSUME Inv, NEW c \in Conns, NEW e \in Conns, e # c,
           Accept(e) \/ Handle(e) \/ FailSync(e) \/ Dial(e)
    PROVE  srv'[c] = srv[c]
<1>1. srv \in [Conns -> ServerSide]
  BY DEF Inv, TypeOK
<1>2. ASSUME NEW next, ServerTo(e, next)
      PROVE  srv'[c] = srv[c]
  BY <1>1, <1>2 DEF ServerTo
<1>3. CASE Accept(e) \/ Dial(e) \/ FailSync(e)
  BY <1>2, <1>3 DEF Accept, Dial, FailSync
<1>4. CASE Check(e) \/ Resolve(e) \/ ReadLabel(e)
  BY <1>1, <1>2, <1>4 DEF Check, Resolve, ReadLabel
<1>5. CASE Refuse(e) \/ Reject(e) \/ Echo(e) \/ Begin(e)
  BY <1>2, <1>5 DEF Refuse, Reject, Echo, Begin, Say
<1>6. CASE Serve(e) \/ Expire(e)
  BY <1>1, <1>2, <1>6 DEF Serve, Expire
<1>7. CASE LoseClient(e) \/ CloseConn(e)
  BY <1>2, <1>7 DEF LoseClient, CloseConn
<1>. QED  BY <1>3, <1>4, <1>5, <1>6, <1>7 DEF Handle

\* and moves its own forward.
LEMMA OwnForward ==
    ASSUME OriginAssumption, Inv, NEW c \in Conns,
           Accept(c) \/ Handle(c) \/ FailSync(c) \/ Dial(c)
    PROVE  srv'[c] = srv[c] \/ Forward(srv[c], srv'[c])
<1>. DEFINE s == srv[c]
            t == srv'[c]
<1>1. srv \in [Conns -> ServerSide] /\ s \in ServerSide
  BY DEF Inv, TypeOK
<1>2. ASSUME NEW next, ServerTo(c, next)
      PROVE  t.pc = next /\ t.armed = s.armed /\ t.rounds = s.rounds
  BY <1>1, <1>2 DEF ServerTo, ServerSide
<1>3. CASE Accept(c)
  <2>1. s.pc = "queued" /\ ServerTo(c, "check")
    BY <1>3 DEF Accept, ServerAt
  <2>2. t.pc = "check" /\ t.armed = s.armed /\ t.rounds = s.rounds
    BY <1>2, <2>1
  <2>. HIDE DEF s, t
  <2>. QED  BY <2>1, <2>2 DEF Forward, s, t
<1>4. CASE Dial(c)
  <2>1. s.pc = "none"
    BY <1>4, Here DEF Dial, Meant
  <2>2. CASE open
    <3>1. ServerTo(c, "queued")
      BY <1>4, <2>2 DEF Dial
    <3>. QED  BY <1>2, <2>1, <3>1 DEF Forward
  <2>3. CASE ~open
    BY <1>4, <2>3 DEF Dial
  <2>. QED  BY <2>2, <2>3
<1>5. CASE Check(c)
  <2>1. s.pc = "check"
    BY <1>5 DEF Check, ServerAt
  <2>2. CASE Served = {}
    <3>1. ServerTo(c, "refuse")
      BY <1>5, <2>2 DEF Check
    <3>. QED  BY <1>2, <2>1, <3>1 DEF Forward
  <2>3. CASE Served # {}
    <3>1. t.pc = "label" /\ t.armed /\ t.rounds = s.rounds
      BY <1>1, <1>5, <2>3 DEF Check, ServerSide
    <3>. QED  BY <2>1, <3>1 DEF Forward
  <2>. QED  BY <2>2, <2>3
<1>6. CASE ReadLabel(c)
  <2>1. s.pc = "label" /\ ServerTo(c, "resolve")
    BY <1>6 DEF ReadLabel, ServerAt
  <2>. QED  BY <1>2, <2>1 DEF Forward
<1>7. CASE Resolve(c)
  <2>1. s.pc = "resolve"
    BY <1>7 DEF Resolve, ServerAt
  <2>2. CASE Wants[c] \in Served
    <3>1. t.pc = "echo" /\ t.armed = s.armed /\ t.rounds = s.rounds
      BY <1>1, <1>7, <2>2 DEF Resolve, ServerSide
    <3>. QED  BY <2>1, <3>1 DEF Forward
  <2>3. CASE Wants[c] \notin Served
    <3>1. ServerTo(c, "reject")
      BY <1>7, <2>3 DEF Resolve
    <3>. QED  BY <1>2, <2>1, <3>1 DEF Forward
  <2>. QED  BY <2>2, <2>3
<1>8. ASSUME s.pc \in Handling \ {"close"}, ServerTo(c, "close")
      PROVE  Forward(s, t)
  BY <1>2, <1>8 DEF Forward
<1>9. CASE Refuse(c) \/ Reject(c)
  <2>1. s.pc \in Handling \ {"close"} /\ ServerTo(c, "close")
    BY <1>9 DEF Refuse, Reject, Say, ServerAt, Handling
  <2>. QED  BY <1>8, <2>1
<1>10. CASE Echo(c)
  <2>1. s.pc = "echo" /\ (ServerTo(c, "begin") \/ ServerTo(c, "close"))
    BY <1>10 DEF Echo, Say, ServerAt
  <2>2. ServerTo(c, "begin") => Forward(s, t)
    BY <1>2, <2>1 DEF Forward
  <2>. QED  BY <1>8, <2>1, <2>2 DEF Handling
<1>11. CASE Begin(c)
  <2>1. s.pc = "begin" /\ (ServerTo(c, "serve") \/ ServerTo(c, "close"))
    BY <1>11 DEF Begin, Say, ServerAt
  <2>2. ServerTo(c, "serve") => Forward(s, t)
    BY <1>2, <2>1 DEF Forward
  <2>. QED  BY <1>8, <2>1, <2>2 DEF Handling
<1>12. CASE Serve(c)
  <2>1. s.pc = "serve" /\ s.pc \in Handling \ {"close"}
    BY <1>12 DEF Serve, ServerAt, Handling, Blocking
  <2>2. CASE stopped
    <3>1. ServerTo(c, "close")
      BY <1>12, <2>2 DEF Serve
    <3>. QED  BY <1>8, <2>1, <3>1
  <2>3. CASE ~stopped
    <3>1. t.pc \in {"serve", "close"} /\ t.armed = s.armed /\ t.rounds = s.rounds + 1
      BY <1>1, <1>12, <2>1, <2>3 DEF Serve, ServerSide
    <3>. QED  BY <2>1, <3>1 DEF Forward
  <2>. QED  BY <2>2, <2>3
<1>13. CASE Expire(c)
  <2>1. s.pc \in Handling \ {"close"}
    BY <1>13 DEF Expire, Handling, Blocking
  <2>2. t.pc = "close" /\ t.armed = s.armed /\ t.rounds = s.rounds
    BY <1>2, <1>13 DEF Expire
  <2>. QED  BY <2>1, <2>2 DEF Forward
<1>14. CASE LoseClient(c) \/ FailSync(c)
  <2>1. s.pc \in Handling \ {"close"} /\ ServerTo(c, "close")
    BY <1>14 DEF LoseClient, FailSync, Handling, Blocking
  <2>. QED  BY <1>8, <2>1
<1>15. CASE CloseConn(c)
  <2>1. s.pc = "close" /\ ServerTo(c, "closed")
    BY <1>15 DEF CloseConn, ServerAt
  <2>. QED  BY <1>2, <2>1 DEF Forward
<1>. QED  BY <1>3, <1>4, <1>5, <1>6, <1>7, <1>9, <1>10, <1>11, <1>12, <1>13, <1>14, <1>15
          DEF Handle

\* Every step of the system moves every handler forward or leaves it alone.
LEMMA StepsForward ==
    ASSUME OriginAssumption, Inv, [Next]_vars, NEW c \in Conns
    PROVE  srv'[c] = srv[c] \/ Forward(srv[c], srv'[c])
<1>1. srv \in [Conns -> ServerSide]
  BY DEF Inv, TypeOK
<1>2. CASE CloseListener
  <2>1. CASE srv[c].pc = "queued"
    <3>1. /\ srv'[c].pc = "closed" /\ srv'[c].armed = srv[c].armed
          /\ srv'[c].rounds = srv[c].rounds
      BY <1>1, <1>2, <2>1 DEF CloseListener, ServerAt, ServerSide
    <3>. QED  BY <2>1, <3>1 DEF Forward
  <2>2. CASE srv[c].pc # "queued"
    BY <1>2, <2>2 DEF CloseListener, ServerAt
  <2>. QED  BY <2>1, <2>2
<1>3. CASE LeaveLoop \/ FinishShutdown \/ Stop \/ Reload \/ UNCHANGED vars
  BY <1>3 DEF LeaveLoop, FinishShutdown, Stop, Reload, vars
<1>4. ASSUME NEW e \in Conns, Accept(e) \/ Handle(e) \/ FailSync(e) \/ Dial(e)
      PROVE  srv'[c] = srv[c] \/ Forward(srv[c], srv'[c])
  BY <1>4, OthersStay, OwnForward
<1>5. ASSUME NEW e \in Conns, Run(e) \/ CancelRun(e) \/ Vanish(e)
      PROVE  srv'[c] = srv[c]
  BY <1>5 DEF Run, WriteHeader, WriteText, FailWrite, ReadAnswer, Replicate,
     LoseServer, CancelRun, Vanish
<1>. QED  BY <1>2, <1>3, <1>4, <1>5 DEF Next, LoopStep

\* Forward is nearer to the end, and into no wait without a deadline.
LEMMA ForwardGains ==
    ASSUME OriginAssumption, NEW c \in Conns, srv[c] \in ServerSide,
           srv'[c] \in ServerSide, Forward(srv[c], srv'[c]), Bounded(srv[c])
    PROVE  /\ Bounded(srv'[c])
           /\ srv[c].pc \in Handling => Left(c)' < Left(c)
<1>1. /\ srv[c].rounds \in Int /\ srv'[c].rounds \in Int /\ Rounds \in Int
      /\ srv[c].armed \in BOOLEAN /\ srv'[c].armed \in BOOLEAN
  BY OriginAssumption DEF ServerSide
<1>2. Bounded(srv'[c])
  BY DEF Bounded, Forward, Handling, Blocking
<1>3. srv[c].pc \in Handling => Left(c)' < Left(c)
  BY <1>1 DEF Left, Forward, Handling, Blocking
<1>. QED  BY <1>2, <1>3

\* No handler ever waits for its client without a deadline, and none turns back:
\* every step it takes, or that is taken for it, leaves it fewer.  So a handler
\* is over after at most as many steps as Left counts when it starts, whatever
\* the clients, the configuration and the other connections do: what StopEnds
\* rests on, for any number of connections and any length of a sync.
THEOREM EveryHandlerGetsOn == Spec => HandlersGetOn
<1>1. Init => BoundedInv
  BY DEF Init, BoundedInv, Bounded
<1>2. ASSUME Inv, Inv', BoundedInv, [Next]_vars
      PROVE  /\ BoundedInv'
             /\ \A c \in Conns :
                    /\ srv'[c].pc \in Blocking => srv'[c].armed
                    /\ srv[c].pc \in Handling =>
                            srv'[c] = srv[c] \/ Left(c)' < Left(c)
  <2>1. ASSUME NEW c \in Conns
        PROVE  /\ Bounded(srv'[c])
               /\ srv[c].pc \in Handling => srv'[c] = srv[c] \/ Left(c)' < Left(c)
    <3>1. srv[c] \in ServerSide /\ srv'[c] \in ServerSide /\ Bounded(srv[c])
      BY <1>2 DEF Inv, TypeOK, BoundedInv
    <3>2. srv'[c] = srv[c] \/ Forward(srv[c], srv'[c])
      BY <1>2, StepsForward, OriginAssumption
    <3>. QED  BY <3>1, <3>2, ForwardGains, OriginAssumption
  <2>. QED  BY <2>1 DEF BoundedInv, Bounded, Blocking
<1>3. Inv /\ Inv' /\ BoundedInv /\ [Next]_vars => BoundedInv'
  BY <1>2
<1>4. Inv /\ Inv' /\ BoundedInv /\ [Next]_vars =>
        [\A c \in Conns :
            /\ srv'[c].pc \in Blocking => srv'[c].armed
            /\ srv[c].pc \in Handling => srv'[c] = srv[c] \/ Left(c)' < Left(c)]_vars
  BY <1>2
<1>. QED  BY <1>1, <1>3, <1>4, Inductive, PTL DEF Spec, HandlersGetOn
=============================================================================
