---------------------------- MODULE RedisClients ----------------------------
(* The clients of one server (networking.c, pubsub.c, ae.c): their output   *)
(* buffers and the limits on them, the lists of subscribers and monitors    *)
(* that commands walk, and the events of the loop that calls the handlers.  *)
(*                                                                          *)
(* A client is the file descriptor of its connection, which the next one    *)
(* may get.  Replies are numbered per client, one number for a unit of      *)
(* output.                                                                  *)
EXTENDS Naturals, Sequences, FiniteSets, SequencesExt, FiniteSetsExt

CONSTANTS
  Fds,                          \* the file descriptors accept() may return
  StaticSize, ChunkSize,        \* REDIS_REPLY_CHUNK_BYTES: c->buf, a node of c->reply
  NodeSize,                     \* what a node of c->reply counts for
  HardLimit, SoftLimit, SoftSeconds,  \* client-output-buffer-limit
  MaxTime, MaxReplies,          \* bounds
  NetChances                    \* bounds: how often each kind of event may happen

NetChance == {"accept", "publish", "subscribe", "monitor", "kill", "quit", "deferred", "close", "idle"}

ASSUME ClientsAssumption ==
  /\ Fds \subseteq Nat \ {0} /\ {StaticSize, ChunkSize, NodeSize, HardLimit, SoftLimit, SoftSeconds} \subseteq Nat
  /\ NetChances \subseteq [NetChance -> Nat]

VARIABLES
  net,   \* the clients and the lists of clients
  loop   \* the event loop
clientsVars == <<net, loop>>

(* createClient(): "reply" is the list of nodes, each a sequence of units;  *)
(* a node whose length is set later is empty and open.                      *)
Node(units, open) == [units |-> units, open |-> open]
Closed ==
  [alive |-> FALSE, flags |-> {}, buf |-> <<>>, reply |-> <<>>, sent |-> 0, handler |-> FALSE,
   over |-> 0, told |-> 0, wire |-> <<>>, steady |-> 0]
NewClient == [Closed EXCEPT !.alive = TRUE]

ClientsInit ==
  /\ net \in {[client |-> [f \in Fds |-> Closed], subscribers |-> <<>>, patterns |-> <<>>,
               monitors |-> <<>>, closing |-> <<>>, clock |-> 1, left |-> left,
               softClosed |-> FALSE] : left \in NetChances}
  /\ loop = [phase |-> "poll", fired |-> {}]

NetCan(s, kind) == s.left[kind] > 0
NetSpent(s, kind) == [s EXCEPT !.left[kind] = @ - 1]
Has(s, c, flag) == flag \in s.client[c].flags

----------------------------------------------------------------------------
(* Output buffers                                                           *)

UnitsOf(list) ==
  LET upTo[i \in 0 .. Len(list)] == IF i = 0 THEN <<>> ELSE upTo[i - 1] \o list[i].units
  IN  upTo[Len(list)]
NodeBytes(node) == IF node.open THEN 0 ELSE Len(node.units)
BytesOf(list) ==
  LET upTo[i \in 0 .. Len(list)] == IF i = 0 THEN 0 ELSE upTo[i - 1] + NodeBytes(list[i])
  IN  upTo[Len(list)]
Units(k) == UnitsOf(k.reply)
Bytes(k) == BytesOf(k.reply)
UsedMemory(k) == Bytes(k) + NodeSize * Len(k.reply)
Pending(k) == k.buf # <<>> \/ k.reply # <<>>

(* checkClientOutputBufferLimits() and its caller: the client is closed     *)
(* later, as the caller is still writing to it. A limit of 0 is none.       *)
SoftStart(k, clock) ==
  IF SoftLimit = 0 \/ UsedMemory(k) < SoftLimit THEN 0 ELSE IF k.over = 0 THEN clock ELSE k.over
OverHardMore(k) == HardLimit # 0 /\ UsedMemory(k) > HardLimit
OverHard(k) == HardLimit # 0 /\ UsedMemory(k) >= HardLimit
OverSoft(k, clock) ==
  SoftLimit # 0 /\ UsedMemory(k) >= SoftLimit /\ k.over # 0 /\ clock - k.over > SoftSeconds
FreeClientAsync(s, c) ==
  [s EXCEPT !.client[c].flags = @ \cup {"closing"}, !.closing = Append(@, c)]
Limited(s, c) ==
  LET k == s.client[c]
      t == [s EXCEPT !.client[c].over = SoftStart(k, s.clock)]
  IN  IF Bytes(k) = 0 \/ "closing" \in k.flags THEN s
      ELSE IF OverHard(k) THEN FreeClientAsync(t, c)
      ELSE IF OverSoft(k, s.clock)
           THEN [FreeClientAsync(t, c) EXCEPT !.softClosed = @ \/ s.clock - k.steady <= SoftSeconds]
      ELSE t

(* Whether the buffer was over the soft limit ever since "steady", which    *)
(* the code does not know.                                                  *)
Steady(k, clock) ==
  [k EXCEPT !.steady = IF SoftLimit = 0 \/ UsedMemory(k) < SoftLimit THEN 0 ELSE IF @ = 0 THEN clock ELSE @]

(* addReply(): prepareClientToWrite(), the static buffer as long as the     *)
(* list is empty, the last node, or a new one.                              *)
Prepared(k) == [k EXCEPT !.handler = @ \/ ~Pending(k)]
FitsAnyway(k, n) == Len(k.buf) + n <= StaticSize
Fits(k, n) == k.reply = <<>> /\ Len(k.buf) + n <= StaticSize
NewUnits(k, n) == [i \in 1 .. n |-> k.told + i]
ToBuffer(k, n) == [k EXCEPT !.buf = @ \o NewUnits(k, n)]
ToList(k, n) ==
  LET last == k.reply[Len(k.reply)]
  IN  IF k.reply # <<>> /\ ~last.open /\ Len(last.units) + n <= ChunkSize
      THEN [k EXCEPT !.reply[Len(k.reply)].units = @ \o NewUnits(k, n)]
      ELSE [k EXCEPT !.reply = Append(@, Node(NewUnits(k, n), FALSE))]
Told(k, n) == [k EXCEPT !.told = @ + n]
AddReply(s, c, n) ==
  LET k == Prepared(s.client[c])
      u == IF Fits(k, n) THEN ToBuffer(k, n) ELSE ToList(k, n)
  IN  IF "quit" \in k.flags THEN [s EXCEPT !.client[c] = k]
      ELSE IF Fits(k, n) THEN [s EXCEPT !.client[c] = Told(u, n)]
      ELSE Limited([s EXCEPT !.client[c] = Steady(Told(u, n), s.clock)], c)

(* A multi bulk whose length comes last: the place of its header in the     *)
(* list, which is glued to the next node once it is known.                  *)
AddDeferred(s, c) ==
  LET k == Prepared(s.client[c])
  IN  [s EXCEPT !.client[c] = Told([k EXCEPT !.reply = Append(@, Node(<<k.told + 1>>, TRUE))], 1)]
SetDeferred(s, c) ==
  LET k == s.client[c]
      i == CHOOSE i \in DOMAIN k.reply : k.reply[i].open
      glued == IF i = Len(k.reply) THEN [k.reply EXCEPT ![i].open = FALSE]
               ELSE SubSeq(k.reply, 1, i - 1)
                      \o <<Node(k.reply[i].units \o k.reply[i + 1].units, FALSE)>>
                      \o SubSeq(k.reply, i + 2, Len(k.reply))
  IN  Limited([s EXCEPT !.client[c] = Steady([k EXCEPT !.reply = glued], s.clock)], c)

(* sendReplyToClient(): what the socket takes, the static buffer first; the *)
(* handler goes when nothing is left, and the client after its last reply.  *)
Written(k) ==
  IF k.buf # <<>>
  THEN LET u == [k EXCEPT !.wire = Append(@, k.buf[k.sent + 1]), !.sent = @ + 1]
       IN  IF u.sent = Len(k.buf) THEN [u EXCEPT !.buf = <<>>, !.sent = 0] ELSE u
  ELSE LET u == [k EXCEPT !.wire = Append(@, k.reply[1].units[k.sent + 1]), !.sent = @ + 1]
       IN  IF u.sent = Len(k.reply[1].units) THEN [u EXCEPT !.reply = Tail(@), !.sent = 0] ELSE u
WrittenUnits(k, n) ==
  LET after[i \in 0 .. n] == IF i = 0 THEN k ELSE Written(after[i - 1]) IN after[n]
AllSent(k) == ~Pending(k)

(* freeClient(): every list the client is in forgets it.                    *)
Without(list, c) ==
  LET i == CHOOSE i \in DOMAIN list : list[i] = c
  IN  IF c \notin ToSet(list) THEN list ELSE SubSeq(list, 1, i - 1) \o SubSeq(list, i + 1, Len(list))
FreeClient(s, c) ==
  [s EXCEPT !.client[c] = Closed,
            !.subscribers = Without(@, c), !.patterns = Without(@, c), !.monitors = Without(@, c),
            !.closing = IF Has(s, c, "closing") THEN Without(@, c) ELSE @]

SendReply(s, c) ==
  LET k    == s.client[c]
      left == Len(k.buf) + Len(Units(k)) - k.sent
      sent == {[s EXCEPT !.client[c] = Steady(WrittenUnits(k, n), s.clock)] : n \in 0 .. left}
      done(t) == [t EXCEPT !.client[c].handler = FALSE]
  IN  {IF ~AllSent(t.client[c]) THEN t
       ELSE IF Has(t, c, "quit") THEN FreeClient(done(t), c) ELSE done(t) : t \in sent}
      \cup (IF NetCan(s, "close") THEN {FreeClient(NetSpent(s, "close"), c)} ELSE {})

----------------------------------------------------------------------------
(* Commands: what reading from a client may do                              *)

ReplyTo(s, list, n) ==
  LET after[i \in 0 .. Len(list)] == IF i = 0 THEN s ELSE AddReply(after[i - 1], list[i], n)
  IN  after[Len(list)]
Monitored(s) == ReplyTo(s, s.monitors, 1)
Subscribed(k) == {"channel", "pattern"} \cap k.flags # {}
WithFlag(s, c, flag) == [s EXCEPT !.client[c].flags = @ \cup {flag}]

Subscribe(s, c, flag) ==
  LET t == IF Has(s, c, flag) THEN s
           ELSE IF flag = "channel" THEN [s EXCEPT !.subscribers = Append(@, c)]
           ELSE [s EXCEPT !.patterns = Append(@, c)]
  IN  AddReply(WithFlag(t, c, flag), c, 1)
Unsubscribe(s, c, flag) ==
  LET t == IF flag = "channel" THEN [s EXCEPT !.subscribers = Without(@, c)]
           ELSE [s EXCEPT !.patterns = Without(@, c)]
  IN  AddReply([t EXCEPT !.client[c].flags = @ \ {flag}], c, 1)
Publish(s, c, n) ==
  AddReply(ReplyTo(ReplyTo(s, s.subscribers, n), s.patterns, n), c, 1)
MonitorCommand(s, c) ==
  IF Has(s, c, "monitor") THEN s
  ELSE AddReply([WithFlag(s, c, "monitor") EXCEPT !.monitors = Append(@, c)], c, 1)
Kill(s, c, other) ==
  IF other = c THEN WithFlag(AddReply(s, c, 1), c, "quit")
  ELSE AddReply(FreeClient(s, other), c, 1)
KeysReply(s, c) == SetDeferred(AddReply(AddDeferred(s, c), c, 2), c)

(* One command; only those of Pub/Sub for a client that is subscribed.      *)
SubscriptionCommands(s, c) ==
  IF NetCan(s, "subscribe")
  THEN UNION {{Subscribe(Monitored(NetSpent(s, "subscribe")), c, flag),
               Unsubscribe(Monitored(NetSpent(s, "subscribe")), c, flag)} : flag \in {"channel", "pattern"}}
  ELSE {}
OtherCommands(s, c) ==
  (IF NetCan(s, "publish") THEN {Publish(Monitored(NetSpent(s, "publish")), c, n) : n \in 1 .. 2} ELSE {})
  \cup (IF NetCan(s, "monitor") THEN {MonitorCommand(NetSpent(s, "monitor"), c)} ELSE {})
  \cup (IF NetCan(s, "kill") THEN {Kill(Monitored(NetSpent(s, "kill")), c, d) :
                                    d \in {d \in Fds : s.client[d].alive}} ELSE {})
  \cup (IF NetCan(s, "deferred") THEN {KeysReply(Monitored(NetSpent(s, "deferred")), c)} ELSE {})
Commands(s, c) ==
  IF Has(s, c, "quit") THEN {s}
  ELSE SubscriptionCommands(s, c)
         \cup (IF Subscribed(s.client[c]) THEN {} ELSE OtherCommands(s, c))
         \cup (IF NetCan(s, "quit") THEN {WithFlag(AddReply(NetSpent(s, "quit"), c, 1), c, "quit")} ELSE {})

(* readQueryFromClient(): nothing, the end of the connection, or a command. *)
ReadFrom(s, c) ==
  {s} \cup Commands(s, c)
      \cup (IF NetCan(s, "close") THEN {FreeClient(NetSpent(s, "close"), c)} ELSE {})

----------------------------------------------------------------------------
(* The event loop                                                           *)

(* aeApiPoll(): the events to come, of those that are registered now; 0 is  *)
(* the descriptor that listens.                                             *)
Listening == 0
Event(fd, mask) == [fd |-> fd, mask |-> mask]
Readable == "r"
Writable == "w"
Masks(fd) ==
  IF fd = Listening THEN {{}, {Readable}}
  ELSE IF ~net.client[fd].alive THEN {{}}
  ELSE IF net.client[fd].handler THEN {{}, {Readable}, {Writable}, {Readable, Writable}}
  ELSE {{}, {Readable}}
Poll ==
  /\ loop.phase = "poll"
  /\ \E mask \in [Fds \cup {Listening} -> SUBSET {Readable, Writable}] :
       /\ \A fd \in DOMAIN mask : mask[fd] \in Masks(fd)
       /\ mask[Listening] # {} => NetCan(net, "accept")
       /\ loop' = [phase |-> "events",
                   fired |-> {Event(fd, mask[fd]) : fd \in {f \in DOMAIN mask : mask[f] # {}}}]
  /\ UNCHANGED net

(* aeProcessEvents(): a handler that ran before may have deleted the event, *)
(* and the descriptor may be that of another client since.                  *)
Registered(s, fd, kind) ==
  s.client[fd].alive /\ (kind = Writable => s.client[fd].handler)
Handled(s, event, kind, Handler(_, _)) ==
  IF kind \in event.mask /\ Registered(s, event.fd, kind) THEN Handler(s, event.fd) ELSE {s}
ProcessEvent(event) ==
  /\ loop.phase = "events" /\ event.fd # Listening
  /\ net' \in UNION {Handled(s, event, Writable, SendReply) : s \in Handled(net, event, Readable, ReadFrom)}
  /\ \A c \in Fds : net'.client[c].told <= MaxReplies
  /\ loop' = [loop EXCEPT !.fired = @ \ {event}]

(* acceptTcpHandler()                                                       *)
FreeFds == {c \in Fds : ~net.client[c].alive}
Accept(event) ==
  /\ loop.phase = "events" /\ event.fd = Listening
  /\ net' = IF FreeFds = {} THEN net
            ELSE [NetSpent(net, "accept") EXCEPT !.client[Min(FreeFds)] = NewClient]
  /\ loop' = [loop EXCEPT !.fired = @ \ {event}]

(* serverCron(), when every event has been processed: the time, idle        *)
(* clients, and those that were closed by a limit.                          *)
Idled(s) ==
  {s} \cup (IF NetCan(s, "idle")
            THEN {FreeClient(NetSpent(s, "idle"), c) :
                    c \in {c \in Fds : s.client[c].alive /\ ~Subscribed(s.client[c]) /\ ~Has(s, c, "monitor")}}
            ELSE {})
FreeClientsInAsyncFreeQueue(s) ==
  LET after[i \in 0 .. Len(s.closing)] == IF i = 0 THEN s ELSE FreeClient(after[i - 1], s.closing[i])
  IN  after[Len(s.closing)]
ServerCronOfClients ==
  /\ loop.phase = "events" /\ loop.fired = {}
  /\ \E clock \in {net.clock, net.clock + 1} :
       /\ clock <= MaxTime
       /\ net' \in {FreeClientsInAsyncFreeQueue(s) : s \in Idled([net EXCEPT !.clock = clock])}
  /\ loop' = [loop EXCEPT !.phase = "poll"]

ClientsNext ==
  \/ Poll
  \/ \E event \in loop.fired : ProcessEvent(event) \/ Accept(event)
  \/ ServerCronOfClients

ClientsSpec == ClientsInit /\ [][ClientsNext]_clientsVars

----------------------------------------------------------------------------
(* What the peer received, followed by what is still buffered, are the      *)
(* replies in the order they were made, none missing or repeated, whether   *)
(* they went through the static buffer, the last node, a new one or a       *)
(* length that was added later, and however much a write took (addReply(),  *)
(* sendReplyToClient()).                                                    *)
OutputIsStream ==
  \A c \in Fds :
    LET k == net.client[c]
        all == k.buf \o Units(k)
    IN  k.wire \o SubSeq(all, k.sent + 1, Len(all)) = [i \in 1 .. k.told |-> i]

(* The lists of subscribers, patterns, monitors and clients to close hold   *)
(* the clients that know they are in them, once, and never one that is gone *)
(* or another that got its descriptor (freeClient(), aeProcessEvents()).    *)
RegistriesAgree ==
  /\ \A r \in {<<"channel", net.subscribers>>, <<"pattern", net.patterns>>,
               <<"monitor", net.monitors>>, <<"closing", net.closing>>} :
       /\ IsInjective(r[2])
       /\ \A c \in Fds : (c \in ToSet(r[2])) = Has(net, c, r[1])
  /\ \A c \in Fds : ~net.client[c].alive => net.client[c] = Closed

(* A client with output pending has a write handler: nothing else would     *)
(* ever send it (prepareClientToWrite(), sendReplyToClient()).              *)
PendingHasHandler ==
  \A c \in Fds : Pending(net.client[c]) => net.client[c].handler

(* A client whose output reached the hard limit is waiting to be closed.    *)
OverLimitIsClosing ==
  \A c \in Fds : HardLimit # 0 /\ UsedMemory(net.client[c]) >= HardLimit => Has(net, c, "closing")

(* What a client is sent is what it was answered.                           *)
ClientsGetTheirReplies == OutputIsStream

(* A client is registered where its flags say, as long as it lives; what is *)
(* buffered for it is being sent; and over its limit it is about to go.     *)
ClientsAreTracked == RegistriesAgree /\ PendingHasHandler /\ OverLimitIsClosing

(* networking.c:1574: for the soft limit a client is closed when it "is     *)
(* reached continuously for the specified amount of seconds".               *)
SoftLimitIsContinuous == ~net.softClosed
=============================================================================
