------------------------------- MODULE Account -------------------------------
(***************************************************************************)
(* The signed-in account as the page shows it: the passkey form (auth.js,  *)
(* signin-screen.js), the token, the pill or mark in each header and the   *)
(* tab line of the menu (account-sync.js, nav-menu.js), with the public    *)
(* profile they share: fetched once, dropped when the account changes,     *)
(* and not asked for again for a minute after a failure.                   *)
(***************************************************************************)
EXTENDS Naturals

CONSTANTS Users,       \* usernames
          Headers,     \* headers of the page, the landing's among them
          MaxSignIns,  \* bound: submissions of the form
          MaxLookups   \* bound: requests for a profile

ASSUME AccountBounds == "landing" \in Headers /\ {MaxSignIns, MaxLookups} \subseteq Nat

VARIABLES account,  \* token, form and headers
          profile,  \* the variables of account-sync.js
          lookups,  \* requests in flight
          waiting   \* what the menu does when a lookup has ended: by lookup, 0 at once

accountVars == <<account, profile, lookups, waiting>>

Nobody == "nobody"

Shown == Users \cup {Nobody}

\* Ghosts: switched, another account took over without a sign-out; redrawn, how often
\* the menu was drawn again by the last answer (2 stands for more).
AccountTypeOK ==
  /\ account.token \in Shown
  /\ account.form \in [user : Shown, step : {"rest", "login", "register"}]
  /\ account.names \in [Headers -> Shown] /\ account.photos \in [Headers -> Shown]
  /\ profile \in [for : Shown, cache : Shown, fetch : 0..MaxLookups, backoff : BOOLEAN]
  /\ lookups \subseteq [id : 1..MaxLookups, user : Users]
  /\ waiting \subseteq [on : 0..MaxLookups, user : Users]

AccountInit ==
  /\ account = [token |-> Nobody, form |-> [user |-> Nobody, step |-> "rest"],
                names |-> [h \in Headers |-> Nobody], photos |-> [h \in Headers |-> Nobody],
                menu |-> Nobody, switched |-> FALSE, signIns |-> 0, asked |-> 0, redrawn |-> 0]
  /\ profile = [for |-> Nobody, cache |-> Nobody, fetch |-> 0, backoff |-> FALSE]
  /\ lookups = {}
  /\ waiting = {}

-----------------------------------------------------------------------------
(* The profile.                                                            *)

\* Whose profile cachedProfile hands out for u.
Cached(u) == IF profile.for = u THEN profile.cache ELSE Nobody

NoLookup(u) == profile.for = u /\ (profile.cache # Nobody \/ profile.fetch # 0 \/ profile.backoff)

\* loadProfile, and the promise it returns: 0 is one that is resolved already.
LoadProfile(u, a) ==
  IF NoLookup(u) THEN UNCHANGED <<profile, lookups>> /\ account' = a
  ELSE LET id == a.asked + 1
       IN  /\ id <= MaxLookups
           /\ profile' = [for |-> u, cache |-> Nobody, fetch |-> id, backoff |-> FALSE]
           /\ lookups' = lookups \cup {[id |-> id, user |-> u]}
           /\ account' = [a EXCEPT !.asked = id]

Promised(u) == IF NoLookup(u) THEN profile.fetch ELSE account.asked + 1

\* syncUsernamePill, syncAccountMark: a header that has a pill keeps it.
Synced(a, h) ==
  CASE a.token # Nobody /\ a.names[h] = Nobody ->
         [a EXCEPT !.names[h] = a.token, !.photos[h] = Cached(a.token)]
    [] a.token = Nobody -> [a EXCEPT !.names[h] = Nobody, !.photos[h] = Nobody]
    [] OTHER -> a

SyncHeader(a, h) ==
  IF a.token # Nobody /\ a.names[h] = Nobody /\ Cached(a.token) = Nobody
  THEN LoadProfile(a.token, Synced(a, h))
  ELSE account' = Synced(a, h) /\ UNCHANGED <<profile, lookups>>

\* _updateAuthButton of the menu.
UpdateAuthButton(a) ==
  LET u == a.token
      drawn == [a EXCEPT !.menu = IF u = Nobody THEN Nobody ELSE Cached(u)]
  IN  IF u # Nobody /\ Cached(u) = Nobody
      THEN LoadProfile(u, drawn) /\ waiting' = waiting \cup {[on |-> Promised(u), user |-> u]}
      ELSE account' = drawn /\ UNCHANGED <<profile, lookups, waiting>>

\* Microtasks come before everything else the page does.
Quiescent == \A w \in waiting : w.on # 0

RenderHeader ==
  /\ Quiescent
  /\ \E h \in Headers : SyncHeader(account, h)
  /\ UNCHANGED waiting

OpenMenu == Quiescent /\ UpdateAuthButton(account)

\* Mutant: a superseded lookup is not told from the current one.
CurrentAlways(l) == TRUE

Current(l) == profile.for = l.user

\* The answer: the cache, a photo for every coin in a header, then finally.
Answer(l) ==
  /\ Quiescent
  /\ lookups' = lookups \ {l}
  /\ \E found \in BOOLEAN, photo \in BOOLEAN :
       LET cache == IF found THEN l.user ELSE profile.cache
       IN  IF Current(l)
           THEN /\ profile' = [profile EXCEPT !.cache = cache, !.fetch = 0,
                                              !.backoff = @ \/ cache = Nobody]
                /\ account' = [account EXCEPT
                     !.redrawn = 0,
                     !.photos = [h \in Headers |->
                        IF found /\ photo /\ account.names[h] # Nobody THEN l.user ELSE @[h]]]
           ELSE UNCHANGED profile /\ account' = [account EXCEPT !.redrawn = 0]
  /\ waiting' = {IF w.on = l.id THEN [w EXCEPT !.on = 0] ELSE w : w \in waiting}

\* The promise the menu waits on has settled: it draws itself again.
Redraw ==
  \E w \in waiting :
    /\ w.on = 0
    /\ LET rest == waiting \ {w}
           a == [account EXCEPT !.redrawn = IF @ < 2 THEN @ + 1 ELSE 2]
           again == w.user = account.token /\ Cached(w.user) = Nobody
       IN  IF again
           THEN /\ LoadProfile(w.user, [a EXCEPT !.menu = Nobody])
                /\ waiting' = rest \cup {[on |-> Promised(w.user), user |-> w.user]}
           ELSE /\ account' = IF w.user = account.token THEN [a EXCEPT !.menu = Cached(w.user)]
                              ELSE account
                /\ waiting' = rest
                /\ UNCHANGED <<profile, lookups>>

BackoffOver == profile.backoff /\ profile' = [profile EXCEPT !.backoff = FALSE]
               /\ UNCHANGED <<account, lookups, waiting>>

-----------------------------------------------------------------------------
(* Signing in and out.                                                     *)

Rest == [user |-> Nobody, step |-> "rest"]

\* signInOrUp: the form is disabled until it has ended.
Submit ==
  /\ Quiescent
  /\ account.form = Rest /\ account.signIns < MaxSignIns
  /\ \E u \in Users :
       account' = [account EXCEPT !.form = [user |-> u, step |-> "login"], !.signIns = @ + 1]
  /\ UNCHANGED <<profile, lookups, waiting>>

SignedIn(a) ==
  [a EXCEPT !.token = a.form.user, !.form = Rest,
            !.switched = @ \/ a.token \notin {Nobody, a.form.user}]

\* loginPasskey has saved a token: showLanding.
LoginDone ==
  /\ Quiescent
  /\ account.form.step = "login"
  /\ SyncHeader(SignedIn(account), "landing")
  /\ UNCHANGED waiting

\* No such account (404): registerPasskey.  Any other failure ends the attempt.
LoginFails ==
  /\ Quiescent
  /\ account.form.step = "login"
  /\ \/ account' = [account EXCEPT !.form.step = "register"]
     \/ account' = [account EXCEPT !.form = Rest]
  /\ UNCHANGED <<profile, lookups, waiting>>

\* The new account's card: no header is drawn.
RegisterEnds ==
  /\ Quiescent
  /\ account.form.step = "register"
  /\ account' \in {SignedIn(account), [account EXCEPT !.form = Rest]}
  /\ UNCHANGED <<profile, lookups, waiting>>

\* Mutant: only the landing's header loses its pill.
BareLanding(a) == [a EXCEPT !.names["landing"] = Nobody, !.photos["landing"] = Nobody]

\* The account chrome is removed from every header.
Bare(a) == [a EXCEPT !.names = [h \in Headers |-> Nobody],
                     !.photos = [h \in Headers |-> Nobody], !.switched = FALSE]

SignOut ==
  /\ Quiescent
  /\ account.token # Nobody
  /\ account' = Bare([account EXCEPT !.token = Nobody, !.menu = Nobody])
  /\ UNCHANGED <<profile, lookups, waiting>>

\* getAuthUser finds the token expired and removes it.
Expire ==
  /\ Quiescent
  /\ account.token # Nobody
  /\ account' = [account EXCEPT !.token = Nobody,
                   !.switched = @ \/ account.menu # Nobody
                                  \/ \E h \in Headers : account.names[h] # Nobody]
  /\ UNCHANGED <<profile, lookups, waiting>>

AccountNext ==
  \/ RenderHeader \/ OpenMenu \/ Redraw \/ BackoffOver
  \/ \E l \in lookups : Answer(l)
  \/ Submit \/ LoginDone \/ LoginFails \/ RegisterEnds \/ SignOut \/ Expire

AccountSpec == AccountInit /\ [][AccountNext]_accountVars

-----------------------------------------------------------------------------
(* Properties.                                                             *)

\* No header names an account that is not the one signed in, or bears the photo of
\* another, as long as accounts change by way of a sign-out.
HeadersTrue ==
  ~account.switched =>
    \A h \in Headers : /\ account.names[h] \in {Nobody, account.token}
                       /\ account.photos[h] \in {Nobody, account.names[h]}

\* The cache holds the profile it is labelled with, whichever of two accounts' lookups
\* answers last; and the menu never shows the figures of somebody else.
ProfileFits ==
  /\ profile.cache \in {Nobody, profile.for}
  /\ account.menu # Nobody /\ ~account.switched => account.menu = account.token

\* "Degrades silently when profiles are unavailable": an answer draws the menu once
\* more, and that is all.
DegradesSilently == account.redrawn <= 1

===============================================================================
