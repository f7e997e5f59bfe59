------------------------------ MODULE LolPage ------------------------------
(* The page of LoLStreams: the controllers of main.js, the templates of     *)
(* index.html that decide what can be clicked, and the routes of streams.rb *)
(* that answer them.  The answers come in any order, or never.  The three   *)
(* filters by champion, language and team are made and cleaned alike: one   *)
(* stands for them, over the one value of a stream.                         *)
EXTENDS Naturals, FiniteSets, Bags, Functions

CONSTANTS
  Streamers,      \* names of channels
  NoName,         \* the state 'home' has no name
  Worlds,         \* what the streams in Redis can be: live streamer -> value
  NoValue,        \* of a stream without champion, "other" language, no team
  PageLimits      \* bound: how often each kind of event may happen, and how
                  \* many calls of one kind on their way make a timer wait

ASSUME PageAssumption ==
  /\ \A w \in Worlds : w = [s \in DOMAIN w |-> w[s]] /\ DOMAIN w \subseteq Streamers
  /\ NoName \notin Streamers
  /\ PageLimits \subseteq
       [{"show", "refresh", "filter", "box", "follow", "logout", "world", "fail", "calls"} -> Nat]

VARIABLES
  live,           \* the key 'streams' in Redis
  follows,        \* the channels that Twitch says are followed
  signed,         \* the cookie with the token is there
  calls,          \* bag of the calls on their way, both ways
  page,           \* the scopes of the page
  left            \* bound: events left, of PageLimits

pageVars == <<live, follows, signed, calls, page, left>>

PageEvents == {"show", "refresh", "filter", "box", "follow", "logout", "world", "fail", "calls"}
Allowed(event) == left[event] > 0
Took(event) == left' = [left EXCEPT ![event] = @ - 1]

ValuesOf(streams) == Range(streams) \ {NoValue}
Nothing == [s \in {} |-> NoValue]
FilterOff(values) == [v \in values |-> 0]
Undefined == [defined |-> 0, of |-> Nothing]
Defined(f) == [defined |-> 1, of |-> f]

----------------------------------------------------------------------------
(* Calls: asked, then answered by the server with what it finds then, then  *)
(* heard by the page.                                                       *)
Asked(what, name) == [what |-> what, name |-> name, answered |-> 0, reply |-> Nothing]
CallsWith(asked) == calls (+) SetToBag(asked)
Pending == BagToSet(calls)
RoomFor(kinds) ==
  \A k \in kinds :
    BagCardinality([c \in {c \in Pending : c.what = k} |-> calls[c]]) < left["calls"]

(* streams.rb: /streams, /streams/:name, /favorites, /user.                 *)
Found(call) ==
  CASE call.what \in {"first", "refresh"} -> live
    [] call.what = "streamer"  -> Restrict(live, DOMAIN live \cap {call.name})
    [] call.what = "favorites" -> Restrict(live, IF signed = 1 THEN DOMAIN live \cap follows ELSE {})
    [] call.what = "user" -> [n \in (IF signed = 1 THEN {NoName} ELSE {}) |-> NoValue]
    [] OTHER -> Nothing

Serve(call) ==
  /\ call \in Pending /\ call.answered = 0
  /\ calls' = (calls (-) SetToBag({call}))
                (+) SetToBag({[call EXCEPT !.answered = 1, !.reply = Found(call)]})
  /\ follows' = CASE call.what = "follow"   -> IF signed = 1 THEN follows \cup {call.name} ELSE follows
                  [] call.what = "unfollow" -> IF signed = 1 THEN follows \ {call.name} ELSE follows
                  [] OTHER -> follows
  /\ signed' = IF call.what = "logout" THEN 0 ELSE signed
  /\ UNCHANGED <<live, page, left>>

(* A call that fails runs no callback.                                      *)
Fails(call) ==
  /\ call \in Pending /\ Allowed("fail") /\ Took("fail")
  /\ calls' = calls (-) SetToBag({call})
  /\ UNCHANGED <<live, follows, signed, page>>

----------------------------------------------------------------------------
(* The callbacks.                                                           *)
FirstStreams(p, streams) ==
  [p EXCEPT !.streams = streams, !.filter = Defined(FilterOff(ValuesOf(streams)))]

(* Without filters the callback stops at its first use of one.              *)
Unremoved(f, values) ==
  [v \in values \cup DOMAIN f |-> IF v \in DOMAIN f THEN f[v] ELSE 0]
FromNothing(f, values) == FilterOff(values)
Refiltered(f, values) == [v \in values |-> IF v \in DOMAIN f THEN f[v] ELSE 0]
RefreshedStreams(p, streams) ==
  [p EXCEPT !.streams = streams,
            !.filter = IF @.defined = 0 THEN @
                       ELSE Defined(Refiltered(@.of, ValuesOf(streams)))]

Favorites(p, streams) ==
  [p EXCEPT !.favstreams = 1, !.favorites = Defined(FilterOff(DOMAIN streams))]

Followed(p, name) ==
  [p EXCEPT !.favorites =
     IF @.defined = 0 THEN @
     ELSE Defined([s \in DOMAIN @.of \cup {name} |-> IF s = name THEN p.box ELSE @.of[s]])]
Unfollowed(p, name) ==
  [p EXCEPT !.favorites =
     IF @.defined = 0 THEN @ ELSE Defined(Restrict(@.of, DOMAIN @.of \ {name}))]

Heard(p, call) ==
  CASE call.what = "first"     -> FirstStreams(p, call.reply)
    [] call.what = "refresh"   -> RefreshedStreams(p, call.reply)
    [] call.what = "streamer"  -> [p EXCEPT !.activestreamer = call.reply]
    [] call.what = "favorites" -> Favorites(p, call.reply)
    [] call.what = "user"      -> [p EXCEPT !.user = IF call.reply = Nothing THEN 0 ELSE 1]
    [] call.what = "follow"    -> Followed(p, call.name)
    [] call.what = "unfollow"  -> Unfollowed(p, call.name)
    [] call.what = "logout"    -> [p EXCEPT !.favstreams = 0, !.user = 0]

Hear(call) ==
  /\ call \in Pending /\ call.answered = 1
  /\ page' = Heard(page, call)
  /\ calls' = calls (-) SetToBag({call})
  /\ UNCHANGED <<live, follows, signed, left>>

----------------------------------------------------------------------------
(* What the page does by itself: refresh_streams() every two minutes, and   *)
(* every visit of a stream leaves a timer that asks for the streamer.       *)
Refreshed == {"refresh", "favorites", "user"}
RefreshStreams == CallsWith({Asked(what, NoName) : what \in Refreshed})

RefreshTimer ==
  /\ RoomFor(Refreshed) /\ calls' = RefreshStreams
  /\ UNCHANGED <<live, follows, signed, page, left>>

AskedByShown(p) ==
  Asked("streamer", IF p.activestreamer = Nothing THEN p.activestream
                    ELSE CHOOSE s \in DOMAIN p.activestreamer : TRUE)
AskedByTimer(p) == Asked("streamer", p.activestream)
StreamerTimer ==
  /\ page.timers > 0 /\ RoomFor({"streamer"})
  /\ calls' = CallsWith({AskedByTimer(page)})
  /\ UNCHANGED <<live, follows, signed, page, left>>

----------------------------------------------------------------------------
(* What the visitor does.                                                   *)
ShowStream(name) ==
  /\ name # page.at /\ name \in DOMAIN page.streams
  /\ Allowed("show") /\ Took("show")
  /\ calls' = CallsWith({Asked("streamer", name)})
  /\ page' = [page EXCEPT !.at = name, !.showstreamer = 1, !.activestream = name,
                          !.timers = @ + 1]
  /\ UNCHANGED <<live, follows, signed>>

CloseStream ==
  /\ page.at # NoName /\ page' = [page EXCEPT !.at = NoName, !.showstreamer = 0]
  /\ UNCHANGED <<live, follows, signed, calls, left>>

Refresh ==
  /\ Allowed("refresh") /\ Took("refresh")
  /\ calls' = RefreshStreams
  /\ UNCHANGED <<live, follows, signed, page>>

ClickFilter(value) ==
  /\ value \in DOMAIN page.filter.of
  /\ Allowed("filter") /\ Took("filter")
  /\ page' = [page EXCEPT !.filter.of[value] = 1 - @]
  /\ UNCHANGED <<live, follows, signed, calls>>

(* click_fav() is given the filter, which has no length.                    *)
ClickFav ==
  /\ page.favstreams = 1 /\ Allowed("box") /\ Took("box")
  /\ page' = [page EXCEPT !.box = 1 - @,
                !.favorites = Defined([s \in DOMAIN @.of |-> 1 - page.box])]
  /\ UNCHANGED <<live, follows, signed, calls>>

Follow(name) ==
  /\ \/ name \in DOMAIN page.streams
     \/ page.showstreamer = 1 /\ name \in DOMAIN page.activestreamer
  /\ page.user = 1 /\ Allowed("follow") /\ Took("follow")
  /\ calls' = CallsWith({Asked(IF name \in DOMAIN page.favorites.of THEN "unfollow" ELSE "follow", name)})
  /\ UNCHANGED <<live, follows, signed, page>>

Logout ==
  /\ page.user = 1 /\ Allowed("logout") /\ Took("logout")
  /\ calls' = CallsWith({Asked("logout", NoName)})
  /\ UNCHANGED <<live, follows, signed, page>>

(* Whoever writes the streams into Redis.                                   *)
StreamsChange ==
  /\ Allowed("world") /\ Took("world") /\ live' \in Worlds \ {live}
  /\ UNCHANGED <<follows, signed, calls, page>>

----------------------------------------------------------------------------
(* The page when StreamsCtrl has run: everything is asked for.              *)
PageInit ==
  /\ live \in Worlds /\ follows = {} /\ signed = 1
  /\ left \in PageLimits
  /\ calls = SetToBag({Asked(what, NoName) : what \in {"first", "favorites", "user"}})
  /\ page = [at |-> NoName, showstreamer |-> 0, activestream |-> NoName, timers |-> 0,
             activestreamer |-> Nothing, streams |-> Nothing,
             filter |-> Undefined, favorites |-> Undefined, favstreams |-> 0,
             box |-> 0, user |-> 0]

PageNext ==
  \/ \E call \in Pending : Serve(call) \/ Hear(call) \/ Fails(call)
  \/ RefreshTimer \/ StreamerTimer
  \/ \E name \in Streamers : ShowStream(name) \/ Follow(name)
  \/ CloseStream \/ Refresh \/ ClickFav \/ Logout \/ StreamsChange
  \/ \E value \in DOMAIN page.filter.of : ClickFilter(value)

(* The timers fire again and again, and of the calls of each kind that do   *)
(* not fail some are always answered, the latest or others.                 *)
Kinds == Refreshed \cup {"first", "streamer", "follow", "unfollow", "logout"}
PageFairness ==
  /\ WF_pageVars(RefreshTimer) /\ WF_pageVars(StreamerTimer)
  /\ \A k \in Kinds :
       /\ WF_pageVars(\E call \in Pending : call.what = k /\ Serve(call))
       /\ WF_pageVars(\E call \in Pending : call.what = k /\ Hear(call))

PageSpec == PageInit /\ [][PageNext]_pageVars /\ PageFairness

----------------------------------------------------------------------------
(* The filters offered are those of the streams listed, in whatever order   *)
(* the answers of the first query and of the refreshes arrive (main.js):    *)
(* otherwise a value that is selected and that no stream has would hide     *)
(* every stream, with nothing on the page to click it off.                  *)
Passes(f, value) ==
  (\E v \in DOMAIN f : f[v] = 1) => value \in DOMAIN f /\ f[value] = 1
FiltersAreThoseOfStreams ==
  page.filter.defined = 1 =>
    /\ DOMAIN page.filter.of = ValuesOf(page.streams)
    /\ page.streams = Nothing
         \/ \E s \in DOMAIN page.streams : Passes(page.filter.of, page.streams[s])

(* What the visitor selected stays selected while some stream has it: no    *)
(* answer that arrives takes it away (refresh_streams() and the first       *)
(* query, which makes all filters anew).                                    *)
SelectionSurvives ==
  [][\A v \in DOMAIN page.filter.of :
        page.filter.of[v] = 1 /\ left'["filter"] = left["filter"] /\ v \in ValuesOf(page'.streams) =>
          page'.filter.of[v] = 1]_pageVars

(* When the visitor and the streams come to rest the page shows what the    *)
(* server has, although answers for other streamers, older lists and older  *)
(* favourites may arrive last: the timers that are never cancelled ask for  *)
(* $rootScope.activestream (main.js:36-40), and refresh_streams() again.    *)
PageIsCurrent ==
  /\ page.streams = live
  /\ page.showstreamer = 1 =>
       page.activestreamer = Restrict(live, DOMAIN live \cap {page.activestream})
  /\ page.user = signed
  /\ DOMAIN page.favorites.of = IF signed = 1 THEN DOMAIN live \cap follows ELSE {}
============================================================================
