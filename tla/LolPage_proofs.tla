--------------------------- MODULE LolPage_proofs ---------------------------
(* Proofs about the page: for any streamers, any contents of the key        *)
(* 'streams', any number of events, whatever the order in which the calls   *)
(* are answered, heard or fail.                                             *)
EXTENDS LolPage, TLAPS

----------------------------------------------------------------------------
(* The inductive invariant.  The answers are tables of streams.             *)
IsTable(f) == f = [x \in DOMAIN f |-> f[x]]
IsCall(c) ==
  /\ IsTable(c) /\ DOMAIN c = {"what", "name", "answered", "reply"}
  /\ c.what \in Kinds /\ IsTable(c.reply)

CallsTyped ==
  /\ IsTable(calls)
  /\ \A c \in DOMAIN calls : IsCall(c) /\ calls[c] \in Nat \ {0}

(* The first query is asked once, and nothing makes filters before its      *)
(* answer.                                                                  *)
FirstPending == {c \in DOMAIN calls : c.what = "first"}
FirstIsFirst ==
  /\ \A c, d \in FirstPending : c = d
  /\ \A c \in FirstPending : calls[c] = 1 /\ page.filter = Undefined

Filter(f, streams) ==
  \/ f = Undefined
  \/ /\ f = Defined(f.of)
     /\ f.of \in [ValuesOf(streams) -> {0, 1}]

PageFields ==
  {"at", "showstreamer", "activestream", "timers", "activestreamer", "streams",
   "filter", "favorites", "favstreams", "box", "user"}
PageTyped ==
  /\ IsTable(live) /\ left \in [PageEvents -> Nat]
  /\ IsTable(page) /\ DOMAIN page = PageFields
  /\ IsTable(page.streams)

PageInv ==
  PageTyped /\ CallsTyped /\ FirstIsFirst /\ Filter(page.filter, page.streams)

----------------------------------------------------------------------------
(* What the page asks for, and what is taken from the calls on their way.   *)
LEMMA AskedIsCall ==
  ASSUME NEW what \in Kinds, NEW name
  PROVE  IsCall(Asked(what, name)) /\ Asked(what, name).what = what
<1>1. IsTable(Nothing)
  BY DEF IsTable, Nothing
<1> QED
  BY <1>1 DEF IsCall, IsTable, Asked

LEMMA CallsAsked ==
  ASSUME CallsTyped, NEW A, \A c \in A : IsCall(c), calls' = CallsWith(A)
  PROVE  /\ CallsTyped' /\ DOMAIN calls' = DOMAIN calls \cup A
         /\ \A c \in DOMAIN calls \ A : calls'[c] = calls[c]
         /\ \A c \in A \ DOMAIN calls : calls'[c] = 1
<1> DEFINE after == [c \in DOMAIN calls \cup A |->
                       (IF c \in DOMAIN calls THEN calls[c] ELSE 0) + (IF c \in A THEN 1 ELSE 0)]
<1>1. calls' = after
  BY DEF CallsWith, (+), SetToBag
<1>2. \A c \in DOMAIN after : after[c] \in Nat \ {0} /\ IsCall(c)
  BY DEF CallsTyped
<1>3. IsTable(after)
  BY DEF IsTable
<1> QED
  BY <1>1, <1>2, <1>3 DEF CallsTyped, IsTable

LEMMA CallTaken ==
  ASSUME CallsTyped, NEW call \in Pending, NEW rest, rest = calls (-) SetToBag({call})
  PROVE  /\ IsTable(rest) /\ DOMAIN rest \subseteq DOMAIN calls
         /\ \A c \in DOMAIN calls \ {call} : c \in DOMAIN rest /\ rest[c] = calls[c]
         /\ call \in DOMAIN rest => calls[call] # 1
         /\ \A c \in DOMAIN rest : rest[c] \in Nat \ {0}
<1> DEFINE before == [c \in DOMAIN calls |-> IF c \in {call} THEN calls[c] - 1 ELSE calls[c]]
           left0 == {c \in DOMAIN calls : before[c] > 0}
<1>1. rest = [c \in left0 |-> before[c]]
  <2>1. \A c \in {call} : SetToBag({call})[c] = 1
    BY DEF SetToBag
  <2>2. DOMAIN SetToBag({call}) = {call}
    BY DEF SetToBag
  <2>3. before = [e \in DOMAIN calls |-> IF e \in DOMAIN SetToBag({call})
                     THEN calls[e] - SetToBag({call})[e] ELSE calls[e]]
    BY <2>1, <2>2
  <2> QED
    BY <2>3 DEF (-)
<1>2. call \in DOMAIN calls /\ \A c \in DOMAIN calls : calls[c] \in Nat \ {0}
  BY DEF CallsTyped, Pending, BagToSet
<1>3. \A c \in DOMAIN calls \ {call} : before[c] = calls[c] /\ c \in left0
  BY <1>2
<1>4. before[call] = calls[call] - 1
  BY <1>2
<1>5. \A c \in left0 : before[c] \in Nat \ {0}
  BY <1>2
<1>6. \A c \in left0 : c \in DOMAIN calls
  OBVIOUS
<1>7. call \in left0 => calls[call] # 1
  BY <1>2, <1>4
<1> HIDE DEF left0, before
<1>8. IsTable(rest) /\ DOMAIN rest = left0 /\ \A c \in left0 : rest[c] = before[c]
  BY <1>1 DEF IsTable
<1> QED
  BY <1>3, <1>5, <1>6, <1>7, <1>8

(* A call that is heard or fails.                                           *)
LEMMA CallGone ==
  ASSUME CallsTyped, FirstIsFirst, NEW call \in Pending, calls' = calls (-) SetToBag({call})
  PROVE  /\ CallsTyped' /\ FirstPending' \subseteq FirstPending
         /\ \A c \in FirstPending' : calls'[c] = calls[c]
         /\ call.what = "first" => FirstPending' = {}
<1>1. /\ IsTable(calls') /\ DOMAIN calls' \subseteq DOMAIN calls
      /\ \A c \in DOMAIN calls \ {call} : c \in DOMAIN calls' /\ calls'[c] = calls[c]
      /\ call \in DOMAIN calls' => calls[call] # 1
      /\ \A c \in DOMAIN calls' : calls'[c] \in Nat \ {0}
  BY CallTaken
<1>2. CallsTyped'
  BY <1>1 DEF CallsTyped, IsTable
<1>3. FirstPending' \subseteq FirstPending
  BY <1>1 DEF FirstPending
<1>4. call \in FirstPending => call \notin FirstPending'
  BY <1>1, <1>3 DEF FirstIsFirst, FirstPending
<1>5. call \in DOMAIN calls
  BY DEF Pending, BagToSet
<1>6. \A c \in FirstPending' : calls'[c] = calls[c]
  <2> SUFFICES ASSUME NEW c \in FirstPending' PROVE calls'[c] = calls[c]
    OBVIOUS
  <2>1. c \in FirstPending /\ c # call
    BY <1>3, <1>4
  <2> QED
    BY <1>1, <2>1 DEF FirstPending
<1>7. call.what = "first" => FirstPending' = {}
  <2>1. call.what = "first" => call \in FirstPending
    BY <1>5 DEF FirstPending
  <2> QED
    BY <1>3, <1>4, <2>1 DEF FirstIsFirst
<1> QED
  BY <1>2, <1>3, <1>6, <1>7

LEMMA FoundIsTable ==
  ASSUME PageTyped, NEW call
  PROVE  IsTable(Found(call))
  BY DEF PageTyped, Found, IsTable, Restrict, Nothing

(* A call that is answered is of the same kind.                             *)
LEMMA CallAnswered ==
  ASSUME PageTyped, CallsTyped, FirstIsFirst, NEW call, Serve(call)
  PROVE  CallsTyped' /\ FirstIsFirst'
<1> DEFINE rest == calls (-) SetToBag({call})
           answer == [call EXCEPT !.answered = 1, !.reply = Found(call)]
<1>1. call \in DOMAIN calls /\ call \in Pending /\ IsCall(call)
  BY DEF Serve, Pending, BagToSet, CallsTyped
<1>2. /\ IsTable(rest) /\ DOMAIN rest \subseteq DOMAIN calls
      /\ \A c \in DOMAIN calls \ {call} : c \in DOMAIN rest /\ rest[c] = calls[c]
      /\ call \in DOMAIN rest => calls[call] # 1
      /\ \A c \in DOMAIN rest : rest[c] \in Nat \ {0}
  BY <1>1, CallTaken
<1>4. IsCall(answer) /\ answer.what = call.what
  <2>1. IsTable(Found(call)) /\ call.what \in Kinds
    BY <1>1, FoundIsTable DEF IsCall
  <2> QED
    BY <1>1, <2>1 DEF IsCall, IsTable
<1>5. calls' = rest (+) SetToBag({answer})
  BY DEF Serve
<1> DEFINE after == [c \in DOMAIN rest \cup {answer} |->
                       (IF c \in DOMAIN rest THEN rest[c] ELSE 0)
                         + (IF c \in {answer} THEN 1 ELSE 0)]
<1> HIDE DEF rest, answer
<1>6. calls' = after
  BY <1>5 DEF (+), SetToBag
<1>7. DOMAIN after = DOMAIN rest \cup {answer} /\ IsTable(after)
  BY DEF IsTable
<1>8. \A c \in DOMAIN after : IsCall(c) /\ after[c] \in Nat \ {0}
  BY <1>2, <1>4 DEF CallsTyped
<1>9. CallsTyped'
  BY <1>6, <1>7, <1>8 DEF CallsTyped, IsTable
<1>10. page' = page
  BY DEF Serve
<1>11. CASE call.what # "first"
  <2>1. \A c \in DOMAIN after : c.what = "first" => c # answer /\ c # call
    BY <1>4, <1>11
  <2>2. \A c \in DOMAIN after : c.what = "first" => c \in DOMAIN calls /\ after[c] = calls[c]
    BY <1>2, <2>1 DEF CallsTyped
  <2>3. \A c \in FirstPending' : c \in FirstPending /\ calls'[c] = calls[c]
    BY <1>6, <1>7, <2>2 DEF FirstPending
  <2> QED
    BY <1>9, <1>10, <2>3 DEF FirstIsFirst
<1>12. CASE call.what = "first"
  <2>1. calls[call] = 1 /\ page.filter = Undefined
        /\ \A c \in DOMAIN calls : c.what = "first" => c = call
    BY <1>1, <1>12 DEF FirstIsFirst, FirstPending
  <2>2. \A c \in DOMAIN rest : c.what # "first"
    BY <1>2, <2>1
  <2>3. answer \notin DOMAIN rest
    BY <1>4, <1>12, <2>2
  <2>4. after[answer] = 1
    BY <2>3
  <2> QED
    BY <1>6, <1>7, <1>9, <1>10, <2>1, <2>2, <2>4 DEF FirstIsFirst, FirstPending
<1> QED
  BY <1>11, <1>12

----------------------------------------------------------------------------
(* What the callbacks do to the filters.                                    *)
LEMMA FiltersMade ==
  ASSUME NEW streams
  PROVE  Filter(Defined(FilterOff(ValuesOf(streams))), streams)
  BY DEF Filter, Defined, FilterOff

LEMMA FiltersRemade ==
  ASSUME NEW f, NEW streams, NEW new, Filter(f, streams), f.defined # 0
  PROVE  Filter(Defined(Refiltered(f.of, ValuesOf(new))), new)
<1>1. f.of \in [ValuesOf(streams) -> {0, 1}]
  BY DEF Filter, Undefined
<1> QED
  BY <1>1 DEF Filter, Defined, Refiltered

(* Only two callbacks change the streams and their filters.                 *)
LEMMA HeardKeeps ==
  ASSUME NEW p, NEW c, IsTable(p), DOMAIN p = PageFields, c.what \in Kinds
  PROVE  /\ IsTable(Heard(p, c)) /\ DOMAIN Heard(p, c) = PageFields
         /\ c.what \notin {"first", "refresh"} =>
              Heard(p, c).streams = p.streams /\ Heard(p, c).filter = p.filter
         /\ c.what \in {"first", "refresh"} => Heard(p, c).streams = c.reply
         /\ c.what = "first" => Heard(p, c).filter = Defined(FilterOff(ValuesOf(c.reply)))
         /\ c.what = "refresh" =>
              Heard(p, c).filter = IF p.filter.defined = 0 THEN p.filter
                                   ELSE Defined(Refiltered(p.filter.of, ValuesOf(c.reply)))
<1>1. CASE c.what = "first"
  BY <1>1 DEF Heard, FirstStreams, IsTable, PageFields
<1>2. CASE c.what = "refresh"
  BY <1>2 DEF Heard, RefreshedStreams, IsTable, PageFields
<1>3. CASE c.what = "streamer"
  BY <1>3 DEF Heard, IsTable, PageFields
<1>4. CASE c.what = "favorites"
  BY <1>4 DEF Heard, Favorites, IsTable, PageFields
<1>5. CASE c.what = "user"
  BY <1>5 DEF Heard, IsTable, PageFields
<1>6. CASE c.what = "follow"
  BY <1>6 DEF Heard, Followed, IsTable, PageFields
<1>7. CASE c.what = "unfollow"
  BY <1>7 DEF Heard, Unfollowed, IsTable, PageFields
<1>8. CASE c.what = "logout"
  BY <1>8 DEF Heard, IsTable, PageFields
<1> QED
  BY <1>1, <1>2, <1>3, <1>4, <1>5, <1>6, <1>7, <1>8 DEF Kinds, Refreshed

----------------------------------------------------------------------------
(* The events.                                                              *)
LEMMA SpentLeft ==
  ASSUME left \in [PageEvents -> Nat], NEW event \in PageEvents, Allowed(event), Took(event)
  PROVE  left' \in [PageEvents -> Nat]
  BY DEF Allowed, Took

(* What leaves the streams and their filters alone, and asks for nothing    *)
(* that makes filters anew.                                                 *)
LEMMA AskStep ==
  ASSUME PageInv, PageTyped', page'.filter = page.filter, page'.streams = page.streams,
         NEW A, \A c \in A : IsCall(c) /\ c.what # "first", calls' = CallsWith(A)
  PROVE  PageInv'
<1>1. /\ CallsTyped' /\ DOMAIN calls' = DOMAIN calls \cup A
      /\ \A c \in DOMAIN calls \ A : calls'[c] = calls[c]
  BY CallsAsked DEF PageInv
<1>2. \A c \in FirstPending' : c \in FirstPending /\ calls'[c] = calls[c]
  BY <1>1 DEF FirstPending
<1>3. FirstIsFirst'
  BY <1>2 DEF FirstIsFirst, PageInv
<1> QED
  BY <1>1, <1>3 DEF PageInv

LEMMA QuietStep ==
  ASSUME PageInv, PageTyped', page'.filter = page.filter, page'.streams = page.streams,
         calls' = calls
  PROVE  PageInv'
<1>1. CallsTyped'
  BY DEF PageInv, CallsTyped
<1>2. FirstIsFirst'
  BY DEF PageInv, FirstIsFirst, FirstPending
<1> QED
  BY <1>1, <1>2 DEF PageInv

LEMMA ServeStep ==
  ASSUME PageInv, NEW call, Serve(call)
  PROVE  PageInv'
<1>1. CallsTyped' /\ FirstIsFirst'
  BY CallAnswered DEF PageInv
<1>2. page' = page /\ left' = left /\ live' = live
  BY DEF Serve
<1> QED
  BY <1>1, <1>2 DEF PageInv, PageTyped, IsTable

LEMMA FailsStep ==
  ASSUME PageInv, NEW call, Fails(call)
  PROVE  PageInv'
<1>1. CallsTyped' /\ FirstPending' \subseteq FirstPending
      /\ \A c \in FirstPending' : calls'[c] = calls[c]
  BY CallGone DEF PageInv, Fails
<1>2. page' = page /\ live' = live /\ left' \in [PageEvents -> Nat]
  BY SpentLeft DEF Fails, PageInv, PageTyped, PageEvents
<1>3. FirstIsFirst'
  BY <1>1, <1>2 DEF FirstIsFirst, PageInv
<1>4. PageTyped'
  BY <1>2 DEF PageInv, PageTyped, IsTable
<1> QED
  BY <1>1, <1>2, <1>3, <1>4 DEF PageInv

LEMMA HearStep ==
  ASSUME PageInv, NEW call, Hear(call)
  PROVE  PageInv'
<1>1. /\ CallsTyped' /\ FirstPending' \subseteq FirstPending
      /\ \A c \in FirstPending' : calls'[c] = calls[c]
      /\ call.what = "first" => FirstPending' = {}
  BY CallGone DEF PageInv, Hear
<1>2. call \in DOMAIN calls /\ IsCall(call)
  BY DEF PageInv, CallsTyped, Hear, Pending, BagToSet
<1>3. page' = Heard(page, call) /\ live' = live /\ left' = left
  BY DEF Hear
<1>4. IsTable(page) /\ DOMAIN page = PageFields /\ call.what \in Kinds
  BY <1>2 DEF PageInv, PageTyped, IsCall
<1>5. /\ IsTable(page') /\ DOMAIN page' = PageFields
      /\ call.what \notin {"first", "refresh"} =>
           page'.streams = page.streams /\ page'.filter = page.filter
      /\ call.what \in {"first", "refresh"} => page'.streams = call.reply
      /\ call.what = "first" => page'.filter = Defined(FilterOff(ValuesOf(call.reply)))
      /\ call.what = "refresh" =>
           page'.filter = IF page.filter.defined = 0 THEN page.filter
                          ELSE Defined(Refiltered(page.filter.of, ValuesOf(call.reply)))
  BY <1>3, <1>4, HeardKeeps
<1>6. IsTable(page'.streams)
  BY <1>2, <1>5 DEF IsCall, PageInv, PageTyped
<1>7. PageTyped'
  BY <1>3, <1>5, <1>6 DEF PageInv, PageTyped, IsTable
<1>8. page.filter.defined = 0 => page.filter = Undefined
  BY DEF PageInv, Filter, Defined
<1>9. Filter(page'.filter, page'.streams)
  <2>1. CASE call.what = "first"
    BY <1>5, <2>1, FiltersMade
  <2>2. CASE call.what = "refresh" /\ page.filter.defined = 0
    BY <1>5, <1>8, <2>2 DEF Filter
  <2>3. CASE call.what = "refresh" /\ page.filter.defined # 0
    <3>1. Filter(Defined(Refiltered(page.filter.of, ValuesOf(call.reply))), call.reply)
      BY <2>3, FiltersRemade DEF PageInv
    <3> QED
      BY <1>5, <2>3, <3>1
  <2>4. CASE call.what \notin {"first", "refresh"}
    BY <1>5, <2>4 DEF PageInv
  <2> QED
    BY <2>1, <2>2, <2>3, <2>4
<1>10. FirstIsFirst'
  <2>1. ASSUME NEW c \in FirstPending' PROVE calls'[c] = 1 /\ page'.filter = Undefined
    <3>1. c \in FirstPending /\ call.what # "first"
      BY <1>1
    <3>2. calls'[c] = 1 /\ page.filter = Undefined
      BY <1>1, <3>1 DEF PageInv, FirstIsFirst
    <3>3. page'.filter = page.filter
      BY <1>5, <3>1, <3>2 DEF Undefined
    <3> QED
      BY <3>2, <3>3
  <2>2. \A c, d \in FirstPending' : c = d
    BY <1>1 DEF PageInv, FirstIsFirst
  <2> QED
    BY <2>1, <2>2 DEF FirstIsFirst
<1> QED
  BY <1>1, <1>7, <1>9, <1>10 DEF PageInv

LEMMA TimersStep ==
  ASSUME PageInv, RefreshTimer \/ StreamerTimer \/ Refresh
  PROVE  PageInv'
<1>1. page' = page /\ live' = live /\ left' \in [PageEvents -> Nat]
  BY SpentLeft DEF RefreshTimer, StreamerTimer, Refresh, PageInv, PageTyped, PageEvents
<1>2. PageTyped'
  BY <1>1 DEF PageInv, PageTyped, IsTable
<1>3. CASE RefreshTimer \/ Refresh
  <2> DEFINE A == {Asked(what, NoName) : what \in Refreshed}
  <2>1. calls' = CallsWith(A)
    BY <1>3 DEF RefreshTimer, Refresh, RefreshStreams
  <2>2. \A c \in A : IsCall(c) /\ c.what # "first"
    BY AskedIsCall DEF Kinds, Refreshed
  <2> HIDE DEF A
  <2> QED
    BY <1>1, <1>2, <2>1, <2>2, AskStep
<1>4. CASE StreamerTimer
  <2> DEFINE A == {AskedByTimer(page)}
  <2>1. calls' = CallsWith(A)
    BY <1>4 DEF StreamerTimer
  <2>2. \A c \in A : IsCall(c) /\ c.what # "first"
    BY AskedIsCall DEF Kinds, AskedByTimer
  <2> HIDE DEF A
  <2> QED
    BY <1>1, <1>2, <2>1, <2>2, AskStep
<1> QED
  BY <1>3, <1>4

LEMMA VisitorAsksStep ==
  ASSUME PageInv, NEW name, ShowStream(name) \/ Follow(name) \/ Logout
  PROVE  PageInv'
<1>1. /\ live' = live /\ left' \in [PageEvents -> Nat]
      /\ IsTable(page') /\ DOMAIN page' = PageFields
      /\ page'.streams = page.streams /\ page'.filter = page.filter
  <2>1. left' \in [PageEvents -> Nat]
    BY SpentLeft DEF ShowStream, Follow, Logout, PageInv, PageTyped, PageEvents
  <2>2. CASE ShowStream(name)
    BY <2>1, <2>2 DEF ShowStream, PageInv, PageTyped, PageFields, IsTable
  <2>3. CASE Follow(name) \/ Logout
    BY <2>1, <2>3 DEF Follow, Logout, PageInv, PageTyped, IsTable
  <2> QED
    BY <2>2, <2>3
<1>2. PageTyped'
  BY <1>1 DEF PageInv, PageTyped, IsTable
<1>3. \A what \in Kinds : \A of : what # "first" =>
        IsCall(Asked(what, of)) /\ Asked(what, of).what # "first"
  BY AskedIsCall
<1>4. PICK c : calls' = CallsWith({c}) /\ IsCall(c) /\ c.what # "first"
  <2>1. CASE ShowStream(name)
    <3>1. calls' = CallsWith({Asked("streamer", name)})
      BY <2>1 DEF ShowStream
    <3>2. "streamer" \in Kinds /\ "streamer" # "first"
      BY DEF Kinds
    <3>3. IsCall(Asked("streamer", name)) /\ Asked("streamer", name).what # "first"
      BY <1>3, <3>2
    <3> QED
      BY <3>1, <3>3
  <2>2. CASE Follow(name)
    <3> DEFINE what == IF name \in DOMAIN page.favorites.of THEN "unfollow" ELSE "follow"
    <3>1. calls' = CallsWith({Asked(what, name)})
      BY <2>2 DEF Follow
    <3>2. what \in Kinds /\ what # "first"
      BY DEF Kinds
    <3> HIDE DEF what
    <3>3. IsCall(Asked(what, name)) /\ Asked(what, name).what # "first"
      BY <1>3, <3>2
    <3> QED
      BY <3>1, <3>3
  <2>3. CASE Logout
    <3>1. calls' = CallsWith({Asked("logout", NoName)})
      BY <2>3 DEF Logout
    <3>2. "logout" \in Kinds /\ "logout" # "first"
      BY DEF Kinds
    <3> QED
      BY <1>3, <3>1, <3>2
  <2> QED
    BY <2>1, <2>2, <2>3
<1> QED
  BY <1>1, <1>2, <1>4, AskStep

LEMMA VisitorClicksStep ==
  ASSUME PageInv, CloseStream \/ ClickFav \/ StreamsChange
  PROVE  PageInv'
<1>1. left' \in [PageEvents -> Nat]
  BY SpentLeft DEF CloseStream, ClickFav, StreamsChange, PageInv, PageTyped, PageEvents
<1>2. /\ IsTable(page') /\ DOMAIN page' = PageFields /\ calls' = calls
      /\ page'.streams = page.streams /\ page'.filter = page.filter
  <2>1. CASE CloseStream
    BY <2>1 DEF CloseStream, PageInv, PageTyped, PageFields, IsTable
  <2>2. CASE ClickFav
    BY <2>2 DEF ClickFav, PageInv, PageTyped, PageFields, IsTable
  <2>3. CASE StreamsChange
    BY <2>3 DEF StreamsChange, PageInv, PageTyped, IsTable
  <2> QED
    BY <2>1, <2>2, <2>3
<1>3. IsTable(live')
  BY PageAssumption DEF CloseStream, ClickFav, StreamsChange, PageInv, PageTyped, IsTable
<1>4. PageTyped'
  BY <1>1, <1>2, <1>3 DEF PageInv, PageTyped, IsTable
<1> QED
  BY <1>2, <1>4, QuietStep

LEMMA ClickFilterStep ==
  ASSUME PageInv, NEW value, ClickFilter(value)
  PROVE  PageInv'
<1> DEFINE of == page.filter.of
           clicked == [of EXCEPT ![value] = 1 - @]
<1>1. page.filter # Undefined
  BY DEF ClickFilter, Undefined, Nothing
<1>2. page.filter = Defined(of) /\ of \in [ValuesOf(page.streams) -> {0, 1}]
  BY <1>1 DEF PageInv, Filter
<1>3. IsTable(page) /\ DOMAIN page = PageFields
  BY DEF PageInv, PageTyped
<1>4. page' = [page EXCEPT !.filter = [page.filter EXCEPT !.of = clicked]]
  BY <1>3 DEF ClickFilter, PageFields, IsTable
<1>5. page'.filter = [page.filter EXCEPT !.of = clicked] /\ page'.streams = page.streams
  BY <1>3, <1>4 DEF PageFields, IsTable
<1>6. [page.filter EXCEPT !.of = clicked] = Defined(clicked)
  BY <1>2 DEF Defined
<1>7. clicked \in [ValuesOf(page.streams) -> {0, 1}]
  <2> HIDE DEF of
  <2>1. \A v \in ValuesOf(page.streams) : of[v] = 0 \/ of[v] = 1
    BY <1>2
  <2>2. clicked = [v \in ValuesOf(page.streams) |-> IF v = value THEN 1 - of[v] ELSE of[v]]
    BY <1>2
  <2>3. \A v \in ValuesOf(page.streams) :
          (IF v = value THEN 1 - of[v] ELSE of[v]) \in {0, 1}
    BY <2>1
  <2> HIDE DEF clicked
  <2> QED
    BY <2>2, <2>3
<1>8. Filter(Defined(clicked), page.streams)
  BY <1>7 DEF Filter, Defined
<1>9. live' = live /\ left' \in [PageEvents -> Nat] /\ calls' = calls
  BY SpentLeft DEF ClickFilter, PageInv, PageTyped, PageEvents
<1>10. IsTable(page') /\ DOMAIN page' = PageFields
  BY <1>3, <1>4 DEF IsTable, PageFields
<1>11. PageTyped'
  BY <1>5, <1>9, <1>10 DEF PageInv, PageTyped, IsTable
<1>12. CallsTyped'
  BY <1>9 DEF PageInv, CallsTyped
<1>13. FirstPending' = {}
  BY <1>1, <1>9 DEF PageInv, FirstIsFirst, FirstPending
<1> HIDE DEF clicked
<1> QED
  BY <1>5, <1>6, <1>8, <1>11, <1>12, <1>13 DEF PageInv, FirstIsFirst

----------------------------------------------------------------------------
(* The invariant, and what it implies.                                      *)
LEMMA InitPage == PageInit => PageInv
<1> SUFFICES ASSUME PageInit PROVE PageInv
  OBVIOUS
<1> DEFINE A == {Asked(what, NoName) : what \in {"first", "favorites", "user"}}
<1>1. calls = [c \in A |-> 1]
  BY DEF PageInit, SetToBag
<1>2. \A c \in A : IsCall(c)
  BY AskedIsCall DEF Kinds, Refreshed
<1>3. \A c \in A : c.what = "first" => c = Asked("first", NoName)
  BY DEF Asked
<1>4. IsTable(live) /\ left \in [PageEvents -> Nat]
  BY PageAssumption DEF PageInit, IsTable, PageEvents
<1>5. /\ IsTable(page) /\ DOMAIN page = PageFields
      /\ page.streams = Nothing /\ page.filter = Undefined
  BY DEF PageInit, IsTable, PageFields
<1>6. PageTyped
  BY <1>4, <1>5 DEF PageTyped, IsTable, Nothing
<1> HIDE DEF A
<1>7. CallsTyped
  BY <1>1, <1>2 DEF CallsTyped, IsTable
<1>8. FirstIsFirst
  BY <1>1, <1>3, <1>5 DEF FirstIsFirst, FirstPending
<1> QED
  BY <1>5, <1>6, <1>7, <1>8 DEF PageInv, Filter

LEMMA NextPage == PageInv /\ [PageNext]_pageVars => PageInv'
<1> SUFFICES ASSUME PageInv, [PageNext]_pageVars PROVE PageInv'
  OBVIOUS
<1>1. CASE UNCHANGED pageVars
  BY <1>1, QuietStep DEF pageVars, PageInv, PageTyped, IsTable
<1>2. ASSUME NEW call \in Pending, Serve(call) \/ Hear(call) \/ Fails(call)
      PROVE  PageInv'
  BY <1>2, ServeStep, HearStep, FailsStep
<1>3. CASE RefreshTimer \/ StreamerTimer \/ Refresh
  BY <1>3, TimersStep
<1>4. ASSUME NEW name \in Streamers, ShowStream(name) \/ Follow(name)
      PROVE  PageInv'
  BY <1>4, VisitorAsksStep
<1>5. CASE Logout
  BY <1>5, VisitorAsksStep
<1>6. CASE CloseStream \/ ClickFav \/ StreamsChange
  BY <1>6, VisitorClicksStep
<1>7. ASSUME NEW value \in DOMAIN page.filter.of, ClickFilter(value)
      PROVE  PageInv'
  BY <1>7, ClickFilterStep
<1> QED
  BY <1>1, <1>2, <1>3, <1>4, <1>5, <1>6, <1>7 DEF PageNext

(* The invariant holds in every reachable state.                            *)
THEOREM PageInvariance == PageSpec => []PageInv
<1> QED
  BY InitPage, NextPage, PTL DEF PageSpec

(* The filters offered are those of the streams listed, and some stream     *)
(* passes them, in whatever order the first query and the refreshes are     *)
(* answered (refresh_streams() and the first query of main.js).             *)
THEOREM FiltersFollowStreams == PageSpec => []FiltersAreThoseOfStreams
<1>1. ASSUME PageInv PROVE FiltersAreThoseOfStreams
  <2> SUFFICES ASSUME page.filter.defined = 1
               PROVE  /\ DOMAIN page.filter.of = ValuesOf(page.streams)
                      /\ page.streams = Nothing
                           \/ \E s \in DOMAIN page.streams : Passes(page.filter.of, page.streams[s])
    BY DEF FiltersAreThoseOfStreams
  <2> DEFINE of == page.filter.of
             streams == page.streams
  <2>1. of \in [ValuesOf(streams) -> {0, 1}]
    BY <1>1 DEF PageInv, Filter, Undefined
  <2>2. IsTable(streams)
    BY <1>1 DEF PageInv, PageTyped
  <2>3. CASE DOMAIN streams = {}
    BY <2>1, <2>2, <2>3 DEF IsTable, Nothing
  <2>4. CASE DOMAIN streams # {}
    <3>1. ASSUME NEW v \in DOMAIN of, of[v] = 1
          PROVE  \E s \in DOMAIN streams : Passes(of, streams[s])
      <4>1. PICK s \in DOMAIN streams : streams[s] = v
        BY <2>1 DEF ValuesOf, Range
      <4> QED
        BY <3>1, <4>1 DEF Passes
    <3>2. ASSUME ~\E v \in DOMAIN of : of[v] = 1
          PROVE  \E s \in DOMAIN streams : Passes(of, streams[s])
      BY <2>4, <3>2 DEF Passes
    <3> QED
      BY <2>1, <3>1, <3>2
  <2> QED
    BY <2>3, <2>4
<1> QED
  BY <1>1, PageInvariance, PTL

(* A filter that is on stays on until it is clicked, while a stream has its *)
(* value: neither a refresh nor the first answer takes it away              *)
(* (refresh_streams(), the callback of the first query).                    *)
THEOREM SelectionStays == PageSpec => SelectionSurvives
<1>1. PageInv /\ [PageNext]_pageVars =>
        [\A v \in DOMAIN page.filter.of :
           page.filter.of[v] = 1 /\ left'["filter"] = left["filter"] /\ v \in ValuesOf(page'.streams) =>
             page'.filter.of[v] = 1]_pageVars
  <2> SUFFICES ASSUME PageInv, PageNext, NEW v \in DOMAIN page.filter.of,
                      page.filter.of[v] = 1, left'["filter"] = left["filter"],
                      v \in ValuesOf(page'.streams)
               PROVE  page'.filter.of[v] = 1
    OBVIOUS
  <2>1. page.filter # Undefined
    BY DEF Undefined, Nothing
  <2>2. page.filter.defined = 1 /\ page.filter.of \in [ValuesOf(page.streams) -> {0, 1}]
    BY <2>1 DEF PageInv, Filter, Defined
  <2>3. IsTable(page) /\ DOMAIN page = PageFields /\ left["filter"] \in Nat
    BY DEF PageInv, PageTyped, PageEvents
  <2>4. CASE page'.filter = page.filter
    BY <2>4
  <2>5. ASSUME NEW call \in Pending, Hear(call) PROVE page'.filter.of[v] = 1
    <3>1. call \in DOMAIN calls /\ IsCall(call)
      BY <2>5 DEF PageInv, CallsTyped, Pending, BagToSet
    <3>2. call.what # "first"
      BY <2>1, <3>1 DEF PageInv, FirstIsFirst, FirstPending
    <3>3. CASE call.what = "refresh"
      <4>1. /\ page'.streams = call.reply
            /\ page'.filter = Defined(Refiltered(page.filter.of, ValuesOf(call.reply)))
        BY <2>2, <2>3, <2>5, <3>1, <3>3, HeardKeeps DEF Hear, IsCall
      <4> QED
        BY <2>2, <4>1 DEF Defined, Refiltered
    <3>4. CASE call.what # "refresh"
      BY <2>3, <2>4, <2>5, <3>1, <3>2, <3>4, HeardKeeps DEF Hear, IsCall
    <3> QED
      BY <3>3, <3>4
  <2>6. ASSUME NEW value, ClickFilter(value) PROVE FALSE
    BY <2>3, <2>6 DEF ClickFilter, Took, PageInv, PageTyped, PageEvents
  <2>7. ASSUME NEW call \in Pending, Serve(call) \/ Fails(call) PROVE page' = page
    BY <2>7 DEF Serve, Fails
  <2>8. RefreshTimer \/ StreamerTimer \/ Refresh \/ Logout \/ StreamsChange => page' = page
    BY DEF RefreshTimer, StreamerTimer, Refresh, Logout, StreamsChange
  <2>9. ASSUME NEW name, ShowStream(name) \/ Follow(name) \/ CloseStream \/ ClickFav
        PROVE  page'.filter = page.filter
    BY <2>3, <2>9 DEF ShowStream, Follow, CloseStream, ClickFav, PageFields, IsTable
  <2> QED
    BY <2>4, <2>5, <2>6, <2>7, <2>8, <2>9 DEF PageNext
<1> QED
  BY <1>1, PageInvariance, PTL DEF PageSpec, SelectionSurvives
============================================================================
