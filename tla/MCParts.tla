------------------------------- MODULE MCParts -------------------------------
(***************************************************************************)
(* The parts of the system that surround the game, each against its own    *)
(* small world.  They share no state in the code but what the modules keep *)
(* as inputs, so a behaviour plays one of them while the others rest.      *)
(***************************************************************************)
EXTENDS AudioShare, Radar, Places, Roster, Account, Screens, Sessions, Discovery,
        Fanout, Signup, ConnectionCap

VARIABLE part

\* A code with repeated letters, the hardest for a run-length decoder.
MCCodes == {<<0, 0, 1, 0, 25>>}

\* The radar's first list, up to the names of the games.
FirstLists == {<<>>, <<"a">>, <<"a", "b">>}

Parts == {"audio", "radar", "places", "roster", "account", "screens", "sessions", "discovery",
          "fanout", "signup", "cap"}

\* Bound: the players start on different instances; a reconnect may bring them together.
Apart == \E p, q \in Players : sockets[First[p]].at # sockets[First[q]].at

partVars == <<audioVars, radarVars, placesVars, rosterVars, accountVars, page, sessionVars,
              discoveryVars, fanoutVars, signupVars, capVars, part>>

Init ==
  /\ part \in Parts
  /\ AudioInit /\ RadarInit /\ PlacesInit /\ RosterInit /\ AccountInit /\ ScreensInit
  /\ SessionsInit /\ DiscoveryInit /\ FanoutInit /\ SignupInit /\ CapInit
  /\ served[1] \in FirstLists /\ (part # "radar" => served = <<<<>>>>)
  /\ part # "screens" => Url(page) = "/"
  /\ part # "sessions" => ~tab.signedIn
  /\ part = "fanout" <=> Apart

Audio ==
  /\ part = "audio" /\ AudioNext
  /\ UNCHANGED <<radarVars, placesVars, rosterVars, accountVars, page, sessionVars,
                 discoveryVars, fanoutVars, signupVars, capVars, part>>
NearbyRadar ==
  /\ part = "radar" /\ RadarNext
  /\ UNCHANGED <<audioVars, placesVars, rosterVars, accountVars, page, sessionVars,
                 discoveryVars, fanoutVars, signupVars, capVars, part>>
PlaceSearch ==
  /\ part = "places" /\ PlacesNext
  /\ UNCHANGED <<audioVars, radarVars, rosterVars, accountVars, page, sessionVars,
                 discoveryVars, fanoutVars, signupVars, capVars, part>>
LobbyRoster ==
  /\ part = "roster" /\ RosterNext
  /\ UNCHANGED <<audioVars, radarVars, placesVars, accountVars, page, sessionVars,
                 discoveryVars, fanoutVars, signupVars, capVars, part>>
Accounts ==
  /\ part = "account" /\ AccountNext
  /\ UNCHANGED <<audioVars, radarVars, placesVars, rosterVars, page, sessionVars,
                 discoveryVars, fanoutVars, signupVars, capVars, part>>
Routing ==
  /\ part = "screens" /\ ScreensNext
  /\ UNCHANGED <<audioVars, radarVars, placesVars, rosterVars, accountVars, sessionVars,
                 discoveryVars, fanoutVars, signupVars, capVars, part>>
\* Bound: a tab that has mixed two sessions is followed no further.
SavedSession ==
  /\ part = "sessions" /\ ~tab.mixed /\ SessionsNext
  /\ UNCHANGED <<audioVars, radarVars, placesVars, rosterVars, accountVars, page,
                 discoveryVars, fanoutVars, signupVars, capVars, part>>
Venue ==
  /\ part = "discovery" /\ DiscoveryNext
  /\ UNCHANGED <<audioVars, radarVars, placesVars, rosterVars, accountVars, page,
                 sessionVars, fanoutVars, signupVars, capVars, part>>

\* Bounds: no instance is more than a frame behind; from a win until its advance is over only
\* the players' first sockets are there, and frames out of order are followed no further.
NotBehind == \A i \in Instances : Len(instances[i].backlog) <= 1
WinUnderway == game.round = "over" \/ \E r \in Rolls : rolls[r].win
OnlyFirst == {s \in Sockets : Serving(s)} = {First[p] : p \in Players}

\* The players are alike: whoever reconnects may as well be this one.
OneReturns == \A s \in Sockets \ {First[p] : p \in Players} : sockets[s].player = Somebody

Frames ==
  /\ part = "fanout" /\ FanoutNext
  /\ WinUnderway => game.order = "kept"
  /\ (NotBehind /\ OneReturns /\ (WinUnderway => OnlyFirst))'
  /\ UNCHANGED <<audioVars, radarVars, placesVars, rosterVars, accountVars, page,
                 sessionVars, discoveryVars, signupVars, capVars, part>>
SigningUp ==
  /\ part = "signup" /\ SignupNext
  /\ UNCHANGED <<audioVars, radarVars, placesVars, rosterVars, accountVars, page,
                 sessionVars, discoveryVars, fanoutVars, capVars, part>>
Counting ==
  /\ part = "cap" /\ CapNext
  /\ UNCHANGED <<audioVars, radarVars, placesVars, rosterVars, accountVars, page,
                 sessionVars, discoveryVars, fanoutVars, signupVars, part>>

Next ==
  \/ Audio \/ NearbyRadar \/ PlaceSearch \/ LobbyRoster
  \/ Accounts \/ Routing \/ SavedSession \/ Venue
  \/ Frames \/ SigningUp \/ Counting

Spec == Init /\ [][Next]_partVars

\* The type invariant of all parts: the variables of every component stay records of
\* the shape its module describes.
PartsTypeOK ==
  /\ AudioTypeOK /\ RadarTypeOK /\ PlacesTypeOK /\ RosterTypeOK /\ AccountTypeOK
  /\ ScreensTypeOK /\ SessionsTypeOK /\ DiscoveryTypeOK
  /\ FanoutTypeOK /\ SignupTypeOK /\ CapTypeOK

===============================================================================
