------------------------------- MODULE Screens -------------------------------
(***************************************************************************)
(* Which screen a page shows: router.js, transitions.js, sheet.js and the  *)
(* join sheet of the landing screen.  The player taps, goes Back and       *)
(* Forward and reloads; the socket (net.js) brings games, refusals and     *)
(* ends; every swap is committed a frame after it is asked for, most of    *)
(* them after a wait on the loading screen, some after a request as well.  *)
(***************************************************************************)
EXTENDS Naturals, SequencesExt

CONSTANTS MaxHistory,  \* bound: entries in the history
          MaxMoves,    \* bound: navigations of the player
          MaxArrivals  \* bound: frames from the server

ASSUME ScreensBounds == {MaxHistory, MaxMoves, MaxArrivals} \subseteq Nat

VARIABLE page

Paths == {"/", "/join", "/nearby", "/@name", "/games"}

\* ROUTES, with the screens that fetch their data.
Route(path) == CASE path = "/nearby" -> "nearby" [] path = "/@name" -> "profile"
                 [] path = "/games" -> "game-detail" [] OTHER -> "landing"

Fetched == {"/@name", "/games"}

Ids == {"loading", "landing", "nearby", "profile", "game-detail", "lobby", "game"}

\* What waits for its frame, or for the end of the loading screen.
Task == [do : {"commit", "show", "fetched", "refused", "join", "activate"}, to : Ids, token : Nat]

\* finishes: slide-outs of the sheet under way.  net: no game, one asked for, one
\* that drives the screen (live), one that has dropped (lost); origin: pendingOrigin.
\* Ghosts: rewritten, the sheet changed the URL of another screen's entry; overtaken,
\* what was left to be done when the player moved on, or came up, swapped over it.
Page ==
  [active : Ids, soon : Seq(Task), hist : Seq(Paths), at : 1..MaxHistory,
   token : Nat, fetching : SUBSET (Nat \X Ids),
   sheet : {"closed", "open", "closing"}, finishes : Nat,
   net : {"none", "asked", "live", "lost"}, started : BOOLEAN,
   origin : {"none", "landing", "join", "nearby"}, saved : BOOLEAN, ending : BOOLEAN,
   rewritten : BOOLEAN, overtaken : BOOLEAN, moves : 0..MaxMoves, frames : 0..MaxArrivals]

ScreensTypeOK == page \in Page /\ page.at \in DOMAIN page.hist

Url(p) == p.hist[p.at]

-----------------------------------------------------------------------------
(* transitions.js and sheet.js.                                            *)

Later(p, do, to) == [p EXCEPT !.soon = Append(@, [do |-> do, to |-> to, token |-> p.token])]

\* A swap is asked for, unless the target is the active screen.
ShowScreen(p, id) == IF p.active = id THEN p ELSE Later(p, "commit", id)

ShowLoading(p) == ShowScreen(p, "loading")

Replace(p, path) == [p EXCEPT !.hist[p.at] = path]

\* onClosed of the join sheet: a deep link has served its purpose.
OnClosed(p) ==
  IF Url(p) = "/" THEN p
  ELSE [Replace(p, "/") EXCEPT !.rewritten = @ \/ Url(p) # "/join"]

CloseNow(p) == IF p.sheet = "closed" THEN p ELSE OnClosed([p EXCEPT !.sheet = "closed"])

OpenSheet(p) == IF p.sheet = "closed" THEN [p EXCEPT !.sheet = "open"] ELSE p

CloseSheet(p) ==
  IF p.sheet = "open" THEN [p EXCEPT !.sheet = "closing", !.finishes = @ + 1] ELSE p

\* Mutant: the screen that goes away is not told.
CommitSilently(p, id) == [p EXCEPT !.active = id]

\* The swap, and leave() of the screen that goes.
Commit(p, id) ==
  [IF p.active = "landing" /\ id # "landing" THEN CloseNow(p) ELSE p EXCEPT !.active = id]

-----------------------------------------------------------------------------
(* router.js.                                                              *)

Push(p, path) == [p EXCEPT !.hist = Append(SubSeq(@, 1, p.at), path), !.at = @ + 1]

\* navigate, activateNamed: the radar is swapped in at once.
Activate(p, id) == IF id = "nearby" THEN Commit(p, id) ELSE ShowScreen(p, id)

Navigate(p, path) == Activate(Push(p, path), Route(path))

EnterFetched(p, id) ==
  ShowLoading([p EXCEPT !.token = @ + 1, !.fetching = @ \cup {<<p.token + 1, id>>}])

OpenJoin(p) == OpenSheet(ShowScreen(p, "landing"))

\* The popstate handler.
PopState(before) ==
  LET p == [before EXCEPT !.token = @ + 1]
  IN  CASE Url(p) \in Fetched -> EnterFetched(p, Route(Url(p)))
        [] Url(p) = "/join" -> OpenJoin(p)
        [] OTHER -> CloseSheet(Activate(p, Route(Url(p))))

\* Mutant: the URL is left as it is.
ShowForInPlace(p) == Later([p EXCEPT !.origin = "none", !.saved = TRUE], "show",
                           IF p.started THEN "game" ELSE "lobby")

\* showFor: the game drives the screen now, under the URL that a refresh resumes from.
ShowFor(p) ==
  Later(Replace([p EXCEPT !.origin = "none", !.saved = TRUE], "/"), "show",
        IF p.started THEN "game" ELSE "lobby")

\* Its branch for a running game that waits for a player.
ShowWaiting(p) == ShowLoading(Replace([p EXCEPT !.origin = "none", !.saved = TRUE], "/"))

\* A fresh page, with the URL and the session that were left.
Bootstrap(p) ==
  LET fresh == [p EXCEPT !.active = "loading", !.soon = <<>>, !.fetching = {}, !.token = 0,
                         !.sheet = "closed", !.finishes = 0, !.net = "none",
                         !.origin = "none", !.ending = FALSE, !.overtaken = FALSE]
  IN  CASE Url(p) \in Fetched -> EnterFetched(fresh, Route(Url(p)))
        [] Url(p) = "/nearby" -> Later(fresh, "activate", "nearby")
        [] Url(p) = "/join" -> Later(fresh, "join", "landing")
        [] OTHER -> IF p.saved THEN [fresh EXCEPT !.net = "lost"]
                    ELSE Later(fresh, "show", "landing")

ScreensInit ==
  \E path \in {"/", "/join", "/nearby"} :
    page = Bootstrap([active |-> "loading", soon |-> <<>>, hist |-> <<path>>, at |-> 1,
             token |-> 0, fetching |-> {}, sheet |-> "closed", finishes |-> 0, net |-> "none",
             started |-> FALSE, origin |-> "none", saved |-> FALSE, ending |-> FALSE,
             rewritten |-> FALSE, overtaken |-> FALSE, moves |-> 0, frames |-> 0])

-----------------------------------------------------------------------------
(* The page's own steps.                                                   *)

Committing == \E i \in DOMAIN page.soon : page.soon[i].do = "commit"

\* Mutant: whatever was fetched is shown.
ShowAnyFetched(p, a) == ShowScreen(p, a.to)

\* A navigation that is no longer the latest one bails out.
ShowFetched(p, a) == IF a.token = p.token THEN ShowScreen(p, a.to) ELSE p

Do(p, a) ==
  CASE a.do = "commit" -> Commit(p, a.to)
    [] a.do = "show" -> ShowScreen(p, a.to)
    [] a.do = "fetched" -> ShowFetched(p, a)
    [] a.do = "refused" -> ShowScreen(p, a.to)
    [] a.do = "join" -> OpenJoin(p)
    [] a.do = "activate" -> Activate(p, a.to)

\* Swaps are committed in the next frame; the waits end in the order they began.
RunSoon ==
  \E i \in DOMAIN page.soon :
    LET a == page.soon[i]
    IN  /\ \A j \in 1..(i - 1) : page.soon[j].do # "commit" /\ a.do = "commit"
        /\ page' = Do([page EXCEPT !.soon = RemoveAt(@, i)], a)

FetchDone ==
  \E f \in page.fetching :
    LET p == [page EXCEPT !.fetching = @ \ {f}]
    IN  page' = IF f[1] = page.token THEN Later(p, "fetched", f[2]) ELSE p

FinishSheet ==
  /\ page.finishes > 0
  /\ page' = OnClosed([page EXCEPT !.finishes = @ - 1, !.sheet = "closed"])

\* A second after game_ended: showGameDetail.
ShowDetail ==
  /\ page.ending
  /\ Len(page.hist) < MaxHistory \/ page.at < MaxHistory
  /\ page' = LET p == [page EXCEPT !.ending = FALSE]
             IN  IF Url(p) = "/games" THEN p ELSE EnterFetched(Push(p, "/games"), "game-detail")

-----------------------------------------------------------------------------
(* The player.                                                             *)

\* What the page still has in hand as the player moves on may come up later.
InHand(p) ==
  (\E i \in DOMAIN p.soon : p.soon[i].do # "fetched") \/ p.ending \/ p.net # "none"

Moved(p) == [p EXCEPT !.moves = @ + 1, !.overtaken = @ \/ InHand(p)]

\* A tap leads to another screen: what was overtaken before is over, and a fetch of
\* before is not called off.
Left(p) == [Moved(p) EXCEPT !.overtaken = InHand(p) \/ p.soon # <<>> \/ p.fetching # {}]

\* Back and Forward call it off.
Popped(p) == [Moved(p) EXCEPT !.overtaken = InHand(p)]

Move == page.moves < MaxMoves /\ ~Committing

OnPage(ids) == Move /\ page.active \in ids /\ page.sheet = "closed"

Room == page.at < MaxHistory

TapNearby == OnPage({"landing"}) /\ Room /\ page' = Navigate(Left(page), "/nearby")

TapBack == OnPage({"nearby", "profile", "game-detail"}) /\ Room /\ page' = Navigate(Left(page), "/")

TapProfile ==
  /\ OnPage({"landing", "nearby", "lobby"}) /\ Room /\ Url(page) # "/@name"
  /\ page' = EnterFetched(Push(Left(page), "/@name"), "profile")

TapJoin == OnPage({"landing"}) /\ page' = OpenSheet(Moved(page))

TapClose == Move /\ page.sheet = "open" /\ page' = CloseSheet(Moved(page))

\* createGame, joinGame, joinWithCode: out to the server.
Ask ==
  /\ Move /\ page.net = "none"
  /\ \/ page.active = "landing" /\ page.sheet # "closing"
     \/ page.active = "nearby" /\ page.sheet = "closed"
  /\ page' = ShowLoading([Moved(page) EXCEPT
       !.net = "asked", !.started = FALSE,
       !.origin = CASE page.active = "nearby" -> "nearby"
                    [] page.sheet = "open" -> "join" [] OTHER -> "landing"])

\* leaveGame.
TapLeave ==
  /\ OnPage({"lobby"}) /\ Room /\ page.net = "live"
  /\ page' = Navigate([Left(page) EXCEPT !.net = "none", !.saved = FALSE], "/")

\* Also under a sheet, and on the loading screen.
Go ==
  /\ Move
  /\ \E at \in {page.at - 1, page.at + 1} \cap DOMAIN page.hist :
       page' = PopState([Popped(page) EXCEPT !.at = at])

Reload == Move /\ page' = Bootstrap(Moved(page))

-----------------------------------------------------------------------------
(* The server, as net.js hands it on.                                      *)

Arrive == page.frames < MaxArrivals

Came(p) == [p EXCEPT !.frames = @ + 1, !.overtaken = @ \/ p.soon # <<>> \/ p.fetching # {}]

\* A state frame: of the lobby, or of the game that was started meanwhile, in which
\* another player may be away.
Frame ==
  /\ Arrive /\ page.net \in {"asked", "live", "lost"}
  /\ \E started \in {page.started, TRUE}, away \in BOOLEAN :
       LET p == [Came(page) EXCEPT !.net = "live", !.started = started]
       IN  page' = IF started /\ away THEN ShowWaiting(p) ELSE ShowFor(p)

\* handleError: back to where the intent came from.
Refused ==
  /\ Arrive /\ page.net = "asked"
  /\ page' = LET p == [Came(page) EXCEPT !.net = "none", !.origin = "none"]
             IN  CASE page.origin = "nearby" -> Later(p, "refused", "nearby")
                   [] page.origin = "join" -> Later(p, "join", "landing")
                   [] OTHER -> Later(p, "refused", "landing")

\* A fatal error, or a session that could not be resumed.
Expired ==
  /\ Arrive /\ page.net \in {"live", "lost"}
  /\ page' = Later([Came(page) EXCEPT !.net = "none", !.saved = FALSE], "show", "landing")

GameEnded ==
  /\ Arrive /\ page.net = "live" /\ page.started
  /\ page' = [Came(page) EXCEPT !.net = "none", !.saved = FALSE, !.ending = TRUE]

LoseSocket ==
  /\ Arrive /\ page.net = "live"
  /\ page' = ShowLoading([Came(page) EXCEPT !.net = "lost"])

ScreensNext ==
  \/ RunSoon \/ FetchDone \/ FinishSheet \/ ShowDetail
  \/ TapNearby \/ TapBack \/ TapProfile \/ TapJoin \/ TapClose \/ Ask \/ TapLeave \/ Go \/ Reload
  \/ Frame \/ Refused \/ Expired \/ GameEnded \/ LoseSocket

ScreensSpec == ScreensInit /\ [][ScreensNext]_page

-----------------------------------------------------------------------------
(* Properties.                                                             *)

Still == page.soon = <<>> /\ page.fetching = {} /\ page.finishes = 0 /\ ~page.ending

\* The join sheet is modal and makes all the rest of the page inert: once the swap
\* under way is done it is open over the landing screen and nowhere else.
SheetOnLanding == page.sheet # "closed" /\ ~Committing => page.active = "landing"

\* With no game in hand the screen in view is that of the address bar, whatever was
\* still being fetched when the player went elsewhere.
UrlShowsScreen ==
  Still /\ page.net = "none" /\ ~page.rewritten /\ ~page.overtaken =>
    page.active = Route(Url(page))

\* A refresh of the lobby or the board resumes the game: the URL is the one that does
\* not lead elsewhere, and the session is saved.
RefreshResumes ==
  Still /\ page.active \in {"lobby", "game"} /\ page.net = "live" /\ ~page.overtaken =>
    Url(page) = "/" /\ page.saved

===============================================================================
