-------------------------------- MODULE Places --------------------------------
(***************************************************************************)
(* The places sheet of the host's lobby (components/lobby-screen.js): the  *)
(* list of nearby places, fetched on the first opening and from a cache    *)
(* afterwards, and the search box above it.  Several requests are in       *)
(* flight at once and answer in any order; each decides on arrival whether *)
(* it may still paint the list.                                            *)
(***************************************************************************)
EXTENDS Naturals

CONSTANTS Queries,   \* searches of two letters or more
          MaxOpens,  \* bound: openings of the sheet
          MaxTyped   \* bound: edits of the search box

Blank == ""

ASSUME PlacesBounds == Blank \notin Queries /\ MaxOpens \in Nat /\ MaxTyped \in Nat

VARIABLES sheet,  \* the sheet and the fields behind it
          asked   \* requests in flight

placesVars == <<sheet, asked>>

\* What a list of places answers: the nearby places, a query, or nothing at all.
NoRows == "no rows"
Near == "near"

\* Ghosts: late, the answer to an opening has painted over a search; opens and typed
\* count towards the bounds.
PlacesTypeOK ==
  /\ sheet \in [open : BOOLEAN, box : Queries \cup {Blank}, timer : Queries \cup {Blank},
                seq : 0..(2 * MaxTyped + MaxOpens), cache : {NoRows, Near},
                pos : BOOLEAN, reloading : BOOLEAN, rows : {NoRows, Near} \cup Queries,
                status : {"hidden", "busy", "empty", "error"}, late : BOOLEAN,
                opens : 0..MaxOpens, typed : 0..MaxTyped]
  /\ asked \subseteq
       [kind : {"open", "refresh"}, step : {"position", "places"}, id : 1..MaxOpens]
       \cup [kind : {"search"}, query : Queries, id : 1..(2 * MaxTyped + MaxOpens)]

PlacesInit ==
  /\ sheet = [open |-> FALSE, box |-> Blank, timer |-> Blank, seq |-> 0, cache |-> NoRows,
              pos |-> FALSE, reloading |-> FALSE, rows |-> NoRows,
              status |-> "hidden", late |-> FALSE, opens |-> 0, typed |-> 0]
  /\ asked = {}

\* #renderPlaces: an empty list only changes the status.
RenderPlaces(s, list) ==
  IF list = NoRows THEN [s EXCEPT !.status = "empty"]
  ELSE [s EXCEPT !.status = "hidden", !.rows = list]

\* #openPlaces, up to its first await: the search starts afresh.
OpenPlaces ==
  /\ ~sheet.open /\ sheet.opens < MaxOpens
  /\ LET s == [sheet EXCEPT !.open = TRUE, !.rows = NoRows, !.timer = Blank, !.seq = @ + 1,
                            !.box = Blank, !.late = FALSE, !.opens = @ + 1]
         cached == sheet.cache # NoRows
     IN  /\ sheet' = IF cached THEN RenderPlaces(s, s.cache) ELSE [s EXCEPT !.status = "busy"]
         /\ asked' = asked \cup {[kind |-> IF cached THEN "refresh" ELSE "open",
                                  step |-> "position", id |-> s.opens]}

ClosePlaces == sheet.open /\ sheet' = [sheet EXCEPT !.open = FALSE] /\ UNCHANGED asked

\* A row of the list checks in to its place (the server resolves it) and closes.
PickPlace == sheet.rows # NoRows /\ ClosePlaces

Late(s) == s.box # Blank

\* The opening has its position and then its places, or fails.
OpenAnswer(a) ==
  /\ a.kind = "open"
  /\ \/ /\ a.step = "position"
        /\ sheet' = [sheet EXCEPT !.pos = TRUE]
        /\ asked' = (asked \ {a}) \cup {[a EXCEPT !.step = "places"]}
     \/ /\ a.step = "places"
        /\ \E list \in {NoRows, Near} :
             sheet' = RenderPlaces([sheet EXCEPT !.cache = list,
                                                 !.late = @ \/ Late(sheet)], list)
        /\ asked' = asked \ {a}
     \/ /\ sheet' = [sheet EXCEPT !.status = "error", !.late = @ \/ Late(sheet)]
        /\ asked' = asked \ {a}

\* #refreshPlacesIfStale and #reloadPlacesFrom: one at a time, never over a search.
RefreshAnswer(a) ==
  /\ a.kind = "refresh"
  /\ \/ /\ a.step = "position" /\ ~sheet.reloading  \* moved, or an old list
        /\ sheet' = [sheet EXCEPT !.reloading = TRUE]
        /\ asked' = (asked \ {a}) \cup {[a EXCEPT !.step = "places"]}
     \/ /\ a.step = "position"                      \* still fresh, or not permitted
        /\ asked' = asked \ {a}
        /\ UNCHANGED sheet
     \/ /\ a.step = "places"
        /\ \E list \in {NoRows, Near} :
             LET s == [sheet EXCEPT !.reloading = FALSE, !.cache = list, !.pos = TRUE]
             IN  sheet' = IF s.open /\ s.box = Blank THEN RenderPlaces(s, list) ELSE s
        /\ asked' = asked \ {a}
     \/ /\ a.step = "places"                        \* failed
        /\ sheet' = [sheet EXCEPT !.reloading = FALSE]
        /\ asked' = asked \ {a}

\* #onSearchInput with less than two letters: back to the nearby list.
Cleared(s) == RenderPlaces([s EXCEPT !.seq = @ + 1], s.cache)

Type(q) ==
  /\ sheet.open /\ q # sheet.box /\ sheet.typed < MaxTyped
  /\ LET s == [sheet EXCEPT !.box = q, !.typed = @ + 1, !.timer = Blank]
     IN  sheet' = IF q = Blank THEN [Cleared(s) EXCEPT !.late = FALSE]
                  ELSE [s EXCEPT !.timer = q]
  /\ UNCHANGED asked

\* The debounce is over: #searchPlaces up to its await.
Search ==
  /\ sheet.timer # Blank
  /\ LET s == [sheet EXCEPT !.timer = Blank, !.seq = @ + 1]
     IN  IF sheet.pos
         THEN /\ sheet' = [s EXCEPT !.rows = NoRows, !.status = "busy"]
              /\ asked' = asked \cup {[kind |-> "search", query |-> sheet.timer, id |-> s.seq]}
         ELSE /\ sheet' = [s EXCEPT !.status = "error"]
              /\ UNCHANGED asked

\* Mutant: any answer may paint.
NewestOfAll(a) == TRUE

\* Only the answer to the newest query may paint.
Newest(a) == a.id = sheet.seq

SearchAnswer(a) ==
  /\ a.kind = "search"
  /\ \/ \E list \in {NoRows, a.query} :
          sheet' = IF Newest(a) THEN RenderPlaces([sheet EXCEPT !.late = FALSE], list)
                   ELSE sheet
     \/ sheet' = IF Newest(a) THEN [sheet EXCEPT !.status = "error", !.late = FALSE]
                 ELSE sheet
  /\ asked' = asked \ {a}

PlacesNext ==
  \/ OpenPlaces \/ ClosePlaces \/ PickPlace \/ Search
  \/ \E q \in Queries \cup {Blank} : Type(q)
  \/ \E a \in asked : OpenAnswer(a) \/ RefreshAnswer(a) \/ SearchAnswer(a)

PlacesSpec == PlacesInit /\ [][PlacesNext]_placesVars

-----------------------------------------------------------------------------
(* Properties.                                                             *)

\* "The list always matches the newest query": once everything has answered, the
\* rows under a status that reports neither an error nor an empty result are those of
\* what the box says now.  The one answer that is not checked against the box is that
\* of an opening which found no cache (late).
ListMatchesQuery ==
  sheet.open /\ asked = {} /\ sheet.timer = Blank /\ ~sheet.late =>
    /\ sheet.status # "busy"
    /\ sheet.status = "hidden" => sheet.rows = IF sheet.box = Blank THEN Near ELSE sheet.box

===============================================================================
