--------------------------- MODULE RedisProtocol ---------------------------
(***************************************************************************)
(* How a query is read (networking.c): the bytes of a client arrive in     *)
(* reads of any length, are gathered in its query buffer and parsed, as    *)
(* inline or as multi bulk requests, as far as they go; parsing starts     *)
(* again where it stopped. A blocked client's bytes are gathered only.     *)
(***************************************************************************)
EXTENDS Integers, Sequences, FiniteSets, SequencesExt

CONSTANTS Conversations, \* what a client may send: sequences of Requests
          IobufLen, InlineMaxSize, BigArg, MaxQuerybufLen,
          MaxBulk,       \* the greatest length of an argument (512 MB)
          MaxBlocks      \* the bound: how often a command may block

CR == "\r"
LF == "\n"
Digit == [d \in {"0", "1", "2", "3", "4", "5", "6", "7", "8", "9"} |->
            CHOOSE n \in 0..9 : ToString(n) = d]
\* A request: its bytes, and the command it is; <<>> for none and a Refused one
Refused == <<"!">>

VARIABLES unread,   \* what the client sent and the server did not read
          conn,     \* the client: redisClient's fields
          executed, \* the commands processCommand() was called with
          wanted,   \* those the client sent
          blocks
protocolVars == <<unread, conn, executed, wanted, blocks>>

NewClient == [querybuf |-> <<>>, reqtype |-> "none", multibulklen |-> 0, bulklen |-> -1,
              argv |-> <<>>, blocked |-> FALSE, close |-> FALSE, freed |-> FALSE]

---------------------------------------------------------------------------
(* Searching and cutting the buffer.                                       *)

Find(char, s) == LET at == {i \in DOMAIN s : s[i] = char}
                 IN IF at = {} THEN 0 ELSE CHOOSE i \in at : \A j \in at : i <= j
From(s, i) == SubSeq(s, i, Len(s))
\* string2ll(), of the numbers of one digit
String2ll(s) == CASE Len(s) = 1 /\ s[1] \in DOMAIN Digit -> [ok |-> TRUE, n |-> Digit[s[1]]]
                  [] Len(s) = 2 /\ s[1] = "-" /\ s[2] \in DOMAIN Digit \ {"0"} -> [ok |-> TRUE, n |-> -Digit[s[2]]]
                  [] OTHER -> [ok |-> FALSE, n |-> 0]
RECURSIVE SplitArgs(_)
SplitArgs(line) ==
  LET at == Find(" ", line)
      word(w) == IF w = <<>> THEN <<>> ELSE <<w>>
  IN IF at = 0 THEN word(line) ELSE word(SubSeq(line, 1, at - 1)) \o SplitArgs(From(line, at + 1))
Unbalanced(line) == Len(SelectSeq(line, LAMBDA b : b = "'")) % 2 = 1

\* What a parser returns: the client, and whether there is a request
Parsed(client) == [client |-> client, ok |-> TRUE]
Waits(client) == [client |-> client, ok |-> FALSE]
ProtocolError(client) == Waits([client EXCEPT !.close = TRUE])

---------------------------------------------------------------------------
(* The two kinds of requests.                                              *)

InlineBuffer(cl) ==
  LET lf == Find(LF, cl.querybuf)
      length == IF lf > 1 /\ cl.querybuf[lf - 1] = CR THEN lf - 2 ELSE lf - 1
      line == SubSeq(cl.querybuf, 1, length)
  IN CASE lf = 0 /\ Len(cl.querybuf) > InlineMaxSize -> ProtocolError(cl)
       [] lf = 0 /\ Len(cl.querybuf) <= InlineMaxSize -> Waits(cl)
       [] lf # 0 /\ Unbalanced(line) -> ProtocolError(cl)
       [] OTHER -> Parsed([cl EXCEPT !.querybuf = From(@, length + 3), !.argv = SplitArgs(line)])

EnoughData(cl, pos) == Len(cl.querybuf) - pos >= cl.bulklen
EnoughBytes(cl, pos) == Len(cl.querybuf) - pos >= cl.bulklen + 2
Consumed(cl, pos) == [cl EXCEPT !.querybuf = From(@, pos + 1)]
\* The loop over the arguments; pos bytes of the buffer have been used
RECURSIVE Arguments(_, _)
Arguments(cl, pos) ==
  LET rest == From(cl.querybuf, pos + 1)
      cr == Find(CR, rest)
      number == String2ll(SubSeq(rest, 2, cr - 1))
      next == pos + cr + 1
      known == [cl EXCEPT !.bulklen = number.n]
  IN CASE cl.multibulklen = 0 -> Parsed(Consumed(cl, pos))
       [] cl.multibulklen > 0 /\ cl.bulklen = -1 ->
           (CASE cr = 0 /\ Len(cl.querybuf) > InlineMaxSize -> ProtocolError(cl)
              [] cr = 0 /\ Len(cl.querybuf) <= InlineMaxSize -> Waits(Consumed(cl, pos))
              [] cr # 0 /\ pos + cr > Len(cl.querybuf) - 1 -> Waits(Consumed(cl, pos))
              [] cr # 0 /\ pos + cr <= Len(cl.querybuf) - 1 ->
                   IF rest[1] # "$" \/ ~number.ok \/ number.n < 0 \/ number.n > MaxBulk
                   THEN ProtocolError(Consumed(cl, pos))
                   ELSE IF number.n >= BigArg THEN Arguments(Consumed(known, next), 0)
                        ELSE Arguments(known, next))
       [] OTHER -> IF ~EnoughBytes(cl, pos) THEN Waits(Consumed(cl, pos))
                   ELSE Arguments([cl EXCEPT !.argv = Append(@, SubSeq(cl.querybuf, pos + 1, pos + cl.bulklen)),
                                             !.bulklen = -1, !.multibulklen = @ - 1],
                                  pos + cl.bulklen + 2)

MultibulkBuffer(cl) ==
  LET cr == Find(CR, cl.querybuf)
      number == String2ll(SubSeq(cl.querybuf, 2, cr - 1))
  IN CASE cl.multibulklen > 0 -> Arguments(cl, 0)
       [] cl.multibulklen = 0 /\ cr = 0 ->
            IF Len(cl.querybuf) > InlineMaxSize THEN ProtocolError(cl) ELSE Waits(cl)
       [] cl.multibulklen = 0 /\ cr # 0 /\ cr > Len(cl.querybuf) - 1 -> Waits(cl)
       [] OTHER -> CASE ~number.ok -> ProtocolError(cl)
                     [] number.ok /\ number.n <= 0 -> Parsed(Consumed(cl, cr + 1))
                     [] OTHER -> Arguments([cl EXCEPT !.multibulklen = number.n], cr + 1)

ResetClient(cl) == [cl EXCEPT !.argv = <<>>, !.reqtype = "none", !.multibulklen = 0, !.bulklen = -1]

Typed(cl) ==
  IF cl.reqtype # "none" THEN cl
  ELSE [cl EXCEPT !.reqtype = IF cl.querybuf[1] = "*" THEN "multibulk" ELSE "inline"]
Parse(cl) == IF cl.reqtype = "inline" THEN InlineBuffer(cl) ELSE MultibulkBuffer(cl)
\* Every request of the buffer; the block-th command from here, if it comes to
\* that, blocks the client
RECURSIVE InputBuffer(_, _, _)
AfterParse(parse, done, block) ==
  IF ~parse.ok THEN [client |-> parse.client, done |-> done]
  ELSE IF parse.client.argv = <<>> THEN InputBuffer(ResetClient(parse.client), done, block)
  ELSE InputBuffer([ResetClient(parse.client) EXCEPT !.blocked = (block = 1)],
                   Append(done, parse.client.argv), block - 1)
InputBuffer(cl, done, block) ==
  IF cl.querybuf = <<>> \/ cl.blocked \/ cl.close THEN [client |-> cl, done |-> done]
  ELSE AfterParse(Parse(Typed(cl)), done, block)
\* processInputBuffer()
Processed(cl) ==
  \E block \in 0..2 : \E result \in {InputBuffer(cl, executed, block)} :
    /\ block > 0 => blocks > 0
    /\ conn' = result.client
    /\ executed' = result.done
    /\ blocks' = IF result.client.blocked /\ ~cl.blocked THEN blocks - 1 ELSE blocks

---------------------------------------------------------------------------
(* Reading.                                                                *)

\* The commands of a conversation, up to the first request that is refused
RECURSIVE Commands(_)
Commands(requests) ==
  IF requests = <<>> \/ requests[1].command = Refused THEN <<>>
  ELSE (IF requests[1].command = <<>> THEN <<>> ELSE <<requests[1].command>>) \o Commands(Tail(requests))

ProtocolInit ==
  /\ \E talk \in Conversations :
       /\ unread = FlattenSeq([i \in DOMAIN talk |-> talk[i].bytes])
       /\ wanted = Commands(talk)
  /\ conn = NewClient /\ executed = <<>>
  /\ blocks = MaxBlocks

\* A big argument is read up to its end and no further
ReadLen == IF conn.reqtype = "multibulk" /\ conn.multibulklen > 0 /\ conn.bulklen >= BigArg
           THEN LET remaining == conn.bulklen + 2 - Len(conn.querybuf)
                IN IF remaining < IobufLen THEN remaining ELSE IobufLen
           ELSE IobufLen
ReadQueryFromClient(n) ==
  /\ ~conn.freed
  /\ n <= ReadLen /\ n <= Len(unread)
  /\ unread' = From(unread, n + 1)
  /\ LET read == [conn EXCEPT !.querybuf = @ \o SubSeq(unread, 1, n)] IN
     IF Len(read.querybuf) > MaxQuerybufLen
     THEN conn' = [read EXCEPT !.freed = TRUE] /\ UNCHANGED <<executed, blocks>>
     ELSE Processed(read)
  /\ UNCHANGED wanted

\* unblockClient(), then processUnblockedClients()
UnblockClient ==
  /\ conn.blocked /\ ~conn.freed
  /\ Processed([conn EXCEPT !.blocked = FALSE])
  /\ UNCHANGED <<unread, wanted>>

ProtocolNext == UnblockClient \/ \E n \in 1..IobufLen : ReadQueryFromClient(n)
ProtocolSpec == ProtocolInit /\ [][ProtocolNext]_protocolVars

---------------------------------------------------------------------------
(* However its bytes are cut into reads, and whenever it was blocked, a    *)
(* client's commands are executed as it sent them: in their order, with    *)
(* their arguments, all those before a request that is refused and none    *)
(* behind it.                                                              *)
CommandsAreThoseSent ==
  /\ IsPrefix(executed, wanted)
  /\ unread = <<>> /\ ~conn.blocked /\ ~conn.freed => executed = wanted
=============================================================================
