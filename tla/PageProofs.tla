------------------------------ MODULE PageProofs ------------------------------
(***************************************************************************)
(* Proofs about the components of the page whose answers arrive in any     *)
(* order: the account (Account), for any number of sign-ins, lookups and   *)
(* headers; the radar (Radar), for any entries, lists and turns of the     *)
(* compass; the places sheet (Places), for any openings and searches; the  *)
(* screens (Screens), for any history, navigations and server frames; and  *)
(* the melody (AudioShare), for any codes and any noise.                   *)
(***************************************************************************)
EXTENDS Account, Radar, Places, Screens, AudioShare, FiniteSetTheorems, TLAPS

-----------------------------------------------------------------------------
(* The account in the page.                                                *)

AccountPage == [token : Shown, form : [user : Shown, step : {"rest", "login", "register"}],
         names : [Headers -> Shown], photos : [Headers -> Shown], menu : Shown,
         switched : BOOLEAN, signIns : Nat, asked : Nat, redrawn : Nat]

PageTyped ==
  /\ account \in AccountPage
  /\ profile \in [for : Shown, cache : Shown, fetch : Nat, backoff : BOOLEAN]

\* A header that names somebody names the one signed in, and the profile that is loaded or
\* on its way is theirs: what a lookup paints on every header is the photo of all of them.
ChromeFits(a, p) ==
  ~a.switched =>
    \A h \in Headers : /\ a.names[h] \in {Nobody, a.token}
                       /\ a.names[h] # Nobody => p.for = a.token
                       /\ a.photos[h] \in {Nobody, a.names[h]}

MenuFits(a) == a.menu # Nobody /\ ~a.switched => a.menu = a.token

CacheFits(p) == p.cache \in {Nobody, p.for}

AccountInv == PageTyped /\ ChromeFits(account, profile) /\ MenuFits(account) /\ CacheFits(profile)

\* A page that is drawn for the account signed in, before or with its profile.
Fits(a) ==
  /\ a \in AccountPage /\ MenuFits(a)
  /\ ~a.switched =>
       \A h \in Headers : a.names[h] \in {Nobody, a.token} /\ a.photos[h] \in {Nobody, a.names[h]}

\* Nothing but the counters has changed, or nothing at all.
Same(a, b) ==
  /\ b \in AccountPage /\ b.token = a.token /\ b.names = a.names /\ b.photos = a.photos
  /\ b.menu = a.menu /\ b.switched = a.switched

LEMMA CachedFits ==
  ASSUME PageTyped, CacheFits(profile), NEW u
  PROVE  /\ Cached(u) \in {Nobody, u} /\ Cached(u) \in Shown
         /\ Cached(u) # Nobody => profile.for = u
BY DEF PageTyped, CacheFits, Cached, Shown

\* Asking for the profile of the one signed in leaves every header true.
LEMMA LoadFits ==
  ASSUME AccountInv, NEW a, Fits(a), LoadProfile(a.token, a)
  PROVE  AccountInv'
<1>1. CASE NoLookup(a.token)
  <2>1. profile' = profile /\ account' = a /\ profile.for = a.token
    BY <1>1 DEF LoadProfile, NoLookup
  <2> QED
    BY <2>1 DEF AccountInv, PageTyped, ChromeFits, MenuFits, CacheFits, Fits
<1>2. CASE ~NoLookup(a.token)
  <2> DEFINE id == a.asked + 1
  <2>1. /\ profile' = [for |-> a.token, cache |-> Nobody, fetch |-> id, backoff |-> FALSE]
        /\ account' = [a EXCEPT !.asked = id]
    BY <1>2 DEF LoadProfile
  <2>2. id \in Nat /\ a.token \in Shown /\ Nobody \in Shown
    BY DEF Fits, AccountPage, Shown
  <2> HIDE DEF id
  <2>3. Same(a, account')
    BY <2>1, <2>2 DEF Fits, AccountPage, Same
  <2>4. /\ profile' \in [for : Shown, cache : Shown, fetch : Nat, backoff : BOOLEAN]
        /\ profile'.for = a.token /\ profile'.cache = Nobody
    BY <2>1, <2>2
  <2> QED
    BY <2>3, <2>4 DEF AccountInv, PageTyped, ChromeFits, MenuFits, CacheFits, Fits, Same
<1> QED
  BY <1>1, <1>2

\* A header is drawn.
LEMMA SyncFits ==
  ASSUME AccountInv, NEW a \in AccountPage, ChromeFits(a, profile), MenuFits(a),
         NEW h \in Headers, SyncHeader(a, h)
  PROVE  AccountInv'
<1> DEFINE photo == Cached(a.token)
           synced == Synced(a, h)
           named == [a.names EXCEPT ![h] = a.token]
           drawn == [a.photos EXCEPT ![h] = photo]
           bareNames == [a.names EXCEPT ![h] = Nobody]
           barePhotos == [a.photos EXCEPT ![h] = Nobody]
<1>0. /\ photo \in {Nobody, a.token} /\ photo \in Shown
      /\ photo # Nobody => profile.for = a.token
      /\ a.token \in Shown /\ Nobody \in Shown
  BY CachedFits DEF AccountInv, AccountPage, Shown
<1>1. CASE a.token # Nobody /\ a.names[h] = Nobody
  <2>1. synced = [a EXCEPT !.names = named, !.photos = drawn]
    BY <1>1 DEF Synced, AccountPage
  <2>2. named \in [Headers -> Shown] /\ drawn \in [Headers -> Shown]
    BY <1>0 DEF AccountPage
  <2>3. /\ synced \in AccountPage /\ synced.token = a.token /\ synced.menu = a.menu
        /\ synced.switched = a.switched /\ synced.names = named /\ synced.photos = drawn
    <3> HIDE DEF named, drawn
    <3> QED
      BY <2>1, <2>2 DEF AccountPage
  <2>4. \A k \in Headers : /\ named[k] = IF k = h THEN a.token ELSE a.names[k]
                           /\ drawn[k] = IF k = h THEN photo ELSE a.photos[k]
    BY DEF AccountPage
  <2> HIDE DEF synced, named, drawn, photo
  <2>5. Fits(synced)
    BY <1>0, <2>3, <2>4 DEF Fits, ChromeFits, MenuFits
  <2>6. CASE photo = Nobody
    <3>1. LoadProfile(a.token, synced)
      BY <1>1, <2>6 DEF SyncHeader, photo, synced
    <3> QED
      BY <2>3, <2>5, <3>1, LoadFits
  <2>7. CASE photo # Nobody
    <3>1. account' = synced /\ profile' = profile
      BY <1>1, <2>7 DEF SyncHeader, photo, synced
    <3>2. profile.for = a.token
      BY <1>0, <2>7
    <3> QED
      BY <2>3, <2>5, <3>1, <3>2 DEF AccountInv, Fits, ChromeFits, PageTyped, MenuFits, CacheFits
  <2> QED
    BY <2>6, <2>7
<1>2. CASE ~(a.token # Nobody /\ a.names[h] = Nobody)
  <2>1. account' = synced /\ profile' = profile
    BY <1>2 DEF SyncHeader
  <2>2. CASE a.token # Nobody
    <3>1. synced = a
      BY <1>2, <2>2 DEF Synced
    <3> QED
      BY <2>1, <3>1 DEF AccountInv, PageTyped, ChromeFits, MenuFits, CacheFits
  <2>3. CASE a.token = Nobody
    <3>1. synced = [a EXCEPT !.names = bareNames, !.photos = barePhotos]
      BY <2>3 DEF Synced, AccountPage
    <3>2. bareNames \in [Headers -> Shown] /\ barePhotos \in [Headers -> Shown]
      BY <1>0 DEF AccountPage
    <3>3. /\ synced \in AccountPage /\ synced.token = a.token /\ synced.menu = a.menu
          /\ synced.switched = a.switched /\ synced.names = bareNames
          /\ synced.photos = barePhotos
      <4> HIDE DEF bareNames, barePhotos
      <4> QED
        BY <3>1, <3>2 DEF AccountPage
    <3>4. \A k \in Headers : /\ bareNames[k] = IF k = h THEN Nobody ELSE a.names[k]
                             /\ barePhotos[k] = IF k = h THEN Nobody ELSE a.photos[k]
      BY DEF AccountPage
    <3> HIDE DEF synced, bareNames, barePhotos
    <3> QED
      BY <2>1, <3>3, <3>4 DEF AccountInv, PageTyped, ChromeFits, MenuFits, CacheFits
  <2> QED
    BY <2>2, <2>3
<1> QED
  BY <1>1, <1>2

\* The menu shows what there is, and asks for the profile if there is none.
LEMMA MenuKept ==
  ASSUME AccountInv, NEW a \in AccountPage, Same(account, a), NEW u, a.token = u
  PROVE  LET drawn == [a EXCEPT !.menu = IF u = Nobody THEN Nobody ELSE Cached(u)]
             bare == [a EXCEPT !.menu = Nobody]
         IN  /\ Fits(drawn) /\ Fits(bare) /\ drawn.token = u /\ bare.token = u
             /\ ChromeFits(drawn, profile) /\ ChromeFits(bare, profile)
<1> DEFINE menu == IF u = Nobody THEN Nobody ELSE Cached(u)
<1>1. menu \in {Nobody, u} /\ menu \in Shown /\ Nobody \in Shown
  BY CachedFits DEF AccountInv, Shown
<1> HIDE DEF menu
<1>2. ASSUME NEW m \in Shown, m \in {Nobody, u}
      PROVE  /\ Fits([a EXCEPT !.menu = m]) /\ [a EXCEPT !.menu = m].token = u
             /\ ChromeFits([a EXCEPT !.menu = m], profile)
  <2> DEFINE b == [a EXCEPT !.menu = m]
  <2>1. /\ b \in AccountPage /\ b.token = a.token /\ b.names = a.names /\ b.photos = a.photos
        /\ b.menu = m /\ b.switched = a.switched
    BY DEF AccountPage
  <2> HIDE DEF b
  <2>2. Fits(b) /\ b.token = u /\ ChromeFits(b, profile)
    BY <1>2, <2>1 DEF AccountInv, Fits, ChromeFits, MenuFits, Same
  <2> QED
    BY <2>2 DEF b
<1> QED
  BY <1>1, <1>2 DEF menu

LEMMA MenuStep ==
  ASSUME AccountInv, OpenMenu \/ Redraw
  PROVE  AccountInv'
<1>0. account \in AccountPage /\ Same(account, account)
  BY DEF AccountInv, PageTyped, Same
<1>a. ASSUME NEW a, Fits(a), ChromeFits(a, profile), account' = a, UNCHANGED profile
      PROVE  AccountInv'
  BY <1>a DEF AccountInv, PageTyped, Fits
<1>1. CASE OpenMenu
  <2> DEFINE u == account.token
             drawn == [account EXCEPT !.menu = IF u = Nobody THEN Nobody ELSE Cached(u)]
  <2>1. Fits(drawn) /\ drawn.token = u /\ ChromeFits(drawn, profile)
    BY <1>0, MenuKept
  <2>2. LoadProfile(u, drawn) \/ (account' = drawn /\ UNCHANGED profile)
    BY <1>1 DEF OpenMenu, UpdateAuthButton
  <2> HIDE DEF drawn
  <2> QED
    BY <1>a, <2>1, <2>2, LoadFits
<1>2. CASE Redraw
  <2>1. PICK w \in waiting :
          LET rest == waiting \ {w}
              a == [account EXCEPT !.redrawn = IF account.redrawn < 2 THEN account.redrawn + 1
                                               ELSE 2]
              again == w.user = account.token /\ Cached(w.user) = Nobody
          IN  IF again
              THEN /\ LoadProfile(w.user, [a EXCEPT !.menu = Nobody])
                   /\ waiting' = rest \cup {[on |-> Promised(w.user), user |-> w.user]}
              ELSE /\ account' = IF w.user = account.token
                                 THEN [a EXCEPT !.menu = Cached(w.user)] ELSE account
                   /\ waiting' = rest
                   /\ UNCHANGED <<profile, lookups>>
    BY <1>2 DEF Redraw
  <2> DEFINE redrawn == IF account.redrawn < 2 THEN account.redrawn + 1 ELSE 2
             a == [account EXCEPT !.redrawn = redrawn]
             u == w.user
             bare == [a EXCEPT !.menu = Nobody]
             drawn == [a EXCEPT !.menu = IF u = Nobody THEN Nobody ELSE Cached(u)]
  <2>2. \/ u = account.token /\ LoadProfile(u, bare)
        \/ /\ u = account.token /\ Cached(u) # Nobody
           /\ account' = [a EXCEPT !.menu = Cached(u)] /\ UNCHANGED profile
        \/ account' = account /\ UNCHANGED profile
    BY <2>1
  <2>3. redrawn \in Nat
    BY <1>0 DEF AccountPage
  <2> HIDE DEF redrawn, u
  <2>4. a \in AccountPage /\ Same(account, a)
    BY <1>0, <2>3 DEF AccountPage, Same
  <2> HIDE DEF a
  <2>5. u = account.token => /\ Fits(drawn) /\ Fits(bare) /\ bare.token = u
                             /\ ChromeFits(drawn, profile) /\ ChromeFits(bare, profile)
    BY <2>4, MenuKept DEF Same
  <2>6. Cached(u) # Nobody => drawn = [a EXCEPT !.menu = Cached(u)]
    BY DEF Cached, AccountInv, CacheFits
  <2> HIDE DEF bare, drawn
  <2>7. CASE u = account.token /\ LoadProfile(u, bare)
    BY <2>5, <2>7, LoadFits
  <2>8. CASE u = account.token /\ account' = drawn /\ UNCHANGED profile
    BY <1>a, <2>5, <2>8
  <2>9. CASE account' = account /\ UNCHANGED profile
    BY <2>9 DEF AccountInv, PageTyped
  <2> QED
    BY <2>2, <2>6, <2>7, <2>8, <2>9
<1> QED
  BY <1>1, <1>2

\* The answer to a lookup that is not superseded is of the account in the headers.
LEMMA AnswerFits ==
  ASSUME AccountInv, NEW l \in lookups, l.user \in Shown, Answer(l)
  PROVE  AccountInv'
<1>1. PICK found \in BOOLEAN, photo \in BOOLEAN :
        LET cache == IF found THEN l.user ELSE profile.cache
        IN  IF Current(l)
            THEN /\ profile' = [profile EXCEPT !.cache = cache, !.fetch = 0,
                                               !.backoff = profile.backoff \/ cache = Nobody]
                 /\ account' = [account EXCEPT
                      !.redrawn = 0,
                      !.photos = [h \in Headers |->
                         IF found /\ photo /\ account.names[h] # Nobody THEN l.user
                         ELSE account.photos[h]]]
            ELSE UNCHANGED profile /\ account' = [account EXCEPT !.redrawn = 0]
  BY DEF Answer
<1> DEFINE cache == IF found THEN l.user ELSE profile.cache
           backoff == profile.backoff \/ cache = Nobody
           photos == [h \in Headers |->
                        IF found /\ photo /\ account.names[h] # Nobody THEN l.user
                        ELSE account.photos[h]]
<1>2. CASE Current(l)
  <2>1. /\ profile' = [profile EXCEPT !.cache = cache, !.fetch = 0, !.backoff = backoff]
        /\ account' = [account EXCEPT !.redrawn = 0, !.photos = photos]
        /\ profile.for = l.user
    BY <1>1, <1>2 DEF Current
  <2>2. /\ cache \in Shown /\ cache \in {Nobody, l.user} /\ backoff \in BOOLEAN
        /\ photos \in [Headers -> Shown]
    BY <2>1 DEF AccountInv, PageTyped, AccountPage, CacheFits
  <2>3. \A h \in Headers : photos[h] \in {account.photos[h], l.user}
                           /\ (account.names[h] = Nobody => photos[h] = account.photos[h])
    OBVIOUS
  <2> HIDE DEF cache, backoff, photos
  <2>4. /\ account' \in AccountPage
        /\ account'.token = account.token /\ account'.menu = account.menu
        /\ account'.names = account.names /\ account'.photos = photos
        /\ account'.switched = account.switched
    BY <2>1, <2>2 DEF AccountInv, PageTyped, AccountPage
  <2>5. /\ profile' \in [for : Shown, cache : Shown, fetch : Nat, backoff : BOOLEAN]
        /\ profile'.for = profile.for /\ profile'.cache = cache
    BY <2>1, <2>2 DEF AccountInv, PageTyped
  <2>6. ChromeFits(account', profile')
    BY <2>1, <2>3, <2>4, <2>5 DEF AccountInv, ChromeFits
  <2> QED
    BY <2>1, <2>2, <2>4, <2>5, <2>6 DEF AccountInv, PageTyped, MenuFits, CacheFits
<1>3. CASE ~Current(l)
  <2>1. profile' = profile /\ account' = [account EXCEPT !.redrawn = 0]
    BY <1>1, <1>3
  <2>2. Same(account, account')
    BY <2>1 DEF AccountInv, PageTyped, AccountPage, Same
  <2> QED
    BY <2>1, <2>2 DEF AccountInv, PageTyped, ChromeFits, MenuFits, CacheFits, Same
<1> QED
  BY <1>2, <1>3

LEMMA SignedInFits ==
  ASSUME AccountInv
  PROVE  /\ SignedIn(account) \in AccountPage /\ ChromeFits(SignedIn(account), profile)
         /\ MenuFits(SignedIn(account))
<1> DEFINE switched == account.switched \/ account.token \notin {Nobody, account.form.user}
           token == account.form.user
           b == [account EXCEPT !.token = token, !.form = Rest, !.switched = switched]
<1>1. SignedIn(account) = b
  BY DEF SignedIn
<1>2. token \in Shown /\ switched \in BOOLEAN /\ Nobody \in Shown
  BY DEF AccountInv, PageTyped, AccountPage, Shown
<1>3. ~switched => ~account.switched /\ (account.token = Nobody \/ account.token = token)
  OBVIOUS
<1> HIDE DEF token, switched
<1>4. /\ b \in AccountPage /\ b.token = token /\ b.switched = switched /\ b.names = account.names
      /\ b.photos = account.photos /\ b.menu = account.menu
  BY <1>2 DEF AccountInv, PageTyped, AccountPage, Rest
<1> HIDE DEF b
<1> QED
  BY <1>1, <1>3, <1>4 DEF AccountInv, ChromeFits, MenuFits

LEMMA FormStep ==
  ASSUME AccountInv, RenderHeader \/ LoginDone \/ RegisterEnds \/ Submit \/ LoginFails
  PROVE  AccountInv'
<1>0. account \in AccountPage
  BY DEF AccountInv, PageTyped
<1>a. ASSUME Same(account, account'), UNCHANGED profile PROVE AccountInv'
  BY <1>a DEF AccountInv, PageTyped, ChromeFits, MenuFits, CacheFits, Same
<1>1. CASE RenderHeader
  BY <1>0, <1>1, SyncFits DEF RenderHeader, AccountInv
<1>2. CASE LoginDone
  BY <1>2, SignedInFits, SyncFits, AccountBounds DEF LoginDone
<1>3. CASE RegisterEnds
  <2>1. CASE account' = SignedIn(account)
    BY <1>3, <2>1, SignedInFits DEF RegisterEnds, AccountInv, PageTyped, CacheFits
  <2>2. CASE account' = [account EXCEPT !.form = Rest]
    <3>1. Same(account, account')
      BY <1>0, <2>2 DEF AccountPage, Same, Rest, Shown
    <3> QED
      BY <1>a, <1>3, <3>1 DEF RegisterEnds
  <2> QED
    BY <1>3, <2>1, <2>2 DEF RegisterEnds
<1>4. CASE Submit
  <2>1. PICK u \in Users :
          account' = [account EXCEPT !.form = [user |-> u, step |-> "login"],
                                     !.signIns = account.signIns + 1]
    BY <1>4 DEF Submit
  <2> DEFINE n == account.signIns + 1
  <2>2. n \in Nat
    BY <1>0 DEF AccountPage
  <2>3. account' = [account EXCEPT !.form = [user |-> u, step |-> "login"], !.signIns = n]
    BY <2>1
  <2> HIDE DEF n
  <2>4. Same(account, account')
    BY <1>0, <2>2, <2>3 DEF AccountPage, Same, Shown
  <2> QED
    BY <1>a, <1>4, <2>4 DEF Submit
<1>5. CASE LoginFails
  <2>1. \E form \in [user : Shown, step : {"rest", "login", "register"}] :
          account' = [account EXCEPT !.form = form]
    <3>1. Rest \in [user : Shown, step : {"rest", "login", "register"}]
      BY DEF Rest, Shown
    <3>2. /\ [account.form EXCEPT !.step = "register"]
               \in [user : Shown, step : {"rest", "login", "register"}]
          /\ [account EXCEPT !.form.step = "register"]
               = [account EXCEPT !.form = [account.form EXCEPT !.step = "register"]]
      BY <1>0 DEF AccountPage
    <3> QED
      BY <1>5, <3>1, <3>2 DEF LoginFails
  <2>2. Same(account, account')
    BY <1>0, <2>1 DEF AccountPage, Same
  <2> QED
    BY <1>a, <1>5, <2>2 DEF LoginFails
<1> QED
  BY <1>1, <1>2, <1>3, <1>4, <1>5

LEMMA LeaveStep ==
  ASSUME AccountInv, SignOut \/ Expire \/ BackoffOver
  PROVE  AccountInv'
<1>0. account \in AccountPage /\ Nobody \in Shown
  BY DEF AccountInv, PageTyped, Shown
<1>1. CASE SignOut
  <2> DEFINE none == [h \in Headers |-> Nobody]
             left == [account EXCEPT !.token = Nobody, !.menu = Nobody]
             b == [left EXCEPT !.names = none, !.photos = none, !.switched = FALSE]
  <2>1. account' = b /\ profile' = profile
    BY <1>1 DEF SignOut, Bare
  <2>2. left \in AccountPage /\ left.token = Nobody /\ left.menu = Nobody
    BY <1>0 DEF AccountPage
  <2>3. none \in [Headers -> Shown] /\ \A h \in Headers : none[h] = Nobody
    BY <1>0
  <2> HIDE DEF left, none
  <2>4. /\ b \in AccountPage /\ b.token = Nobody /\ b.menu = Nobody /\ b.names = none
        /\ b.photos = none
    BY <2>2, <2>3 DEF AccountPage
  <2> HIDE DEF b
  <2> QED
    BY <2>1, <2>3, <2>4 DEF AccountInv, PageTyped, ChromeFits, MenuFits, CacheFits
<1>2. CASE Expire
  <2> DEFINE switched == \/ account.switched \/ account.menu # Nobody
                         \/ \E h \in Headers : account.names[h] # Nobody
             b == [account EXCEPT !.token = Nobody, !.switched = switched]
  <2>1. account' = b /\ profile' = profile
    BY <1>2 DEF Expire
  <2>2. switched \in BOOLEAN
    OBVIOUS
  <2>3. ~switched => /\ ~account.switched /\ account.menu = Nobody
                     /\ \A h \in Headers : account.names[h] = Nobody
    OBVIOUS
  <2> HIDE DEF switched
  <2>4. /\ b \in AccountPage /\ b.token = Nobody /\ b.menu = account.menu /\ b.switched = switched
        /\ b.names = account.names /\ b.photos = account.photos
    BY <1>0, <2>2 DEF AccountPage
  <2> HIDE DEF b
  <2> QED
    BY <2>1, <2>3, <2>4 DEF AccountInv, PageTyped, ChromeFits, MenuFits, CacheFits
<1>3. CASE BackoffOver
  <2>1. /\ profile' = [profile EXCEPT !.backoff = FALSE] /\ account' = account
    BY <1>3 DEF BackoffOver
  <2>2. /\ profile' \in [for : Shown, cache : Shown, fetch : Nat, backoff : BOOLEAN]
        /\ profile'.for = profile.for /\ profile'.cache = profile.cache
    BY <2>1 DEF AccountInv, PageTyped
  <2> QED
    BY <2>1, <2>2 DEF AccountInv, PageTyped, ChromeFits, MenuFits, CacheFits
<1> QED
  BY <1>1, <1>2, <1>3

-----------------------------------------------------------------------------
(* Who is looked up.                                                       *)

LookupsNamed == \A l \in lookups : l.user \in Shown

LEMMA LoadNamed ==
  ASSUME LookupsNamed, NEW u \in Shown, NEW a, LoadProfile(u, a)
  PROVE  LookupsNamed'
BY DEF LookupsNamed, LoadProfile, Shown

LEMMA SyncNamed ==
  ASSUME LookupsNamed, NEW a, a.token \in Shown, NEW h, SyncHeader(a, h)
  PROVE  LookupsNamed'
<1>1. LoadProfile(a.token, Synced(a, h)) \/ UNCHANGED lookups
  BY DEF SyncHeader
<1> QED
  BY <1>1, LoadNamed DEF LookupsNamed, Shown

LEMMA NamedStep ==
  ASSUME AccountInv, LookupsNamed, [AccountNext]_accountVars
  PROVE  LookupsNamed'
<1>0. account.token \in Shown
  BY DEF AccountInv, PageTyped, AccountPage
<1>a. ASSUME lookups' \subseteq lookups PROVE LookupsNamed'
  BY <1>a DEF LookupsNamed, Shown
<1>1. CASE RenderHeader
  BY <1>0, <1>1, SyncNamed DEF RenderHeader
<1>2. CASE OpenMenu
  <2>1. (\E a : LoadProfile(account.token, a)) \/ UNCHANGED lookups
    BY <1>2 DEF OpenMenu, UpdateAuthButton
  <2> QED
    BY <1>0, <1>a, <2>1, LoadNamed
<1>3. CASE Redraw
  <2>1. (\E a : LoadProfile(account.token, a)) \/ UNCHANGED lookups
    BY <1>3 DEF Redraw
  <2> QED
    BY <1>0, <1>a, <2>1, LoadNamed
<1>4. CASE LoginDone
  <2>1. SignedIn(account).token \in Shown
    BY SignedInFits DEF AccountPage
  <2> QED
    BY <1>4, <2>1, SyncNamed DEF LoginDone
<1>5. ASSUME NEW l \in lookups, Answer(l) PROVE LookupsNamed'
  BY <1>a, <1>5 DEF Answer
<1>6. CASE BackoffOver \/ Submit \/ LoginFails \/ RegisterEnds \/ SignOut \/ Expire
  BY <1>a, <1>6 DEF BackoffOver, Submit, LoginFails, RegisterEnds, SignOut, Expire
<1>7. CASE UNCHANGED accountVars
  BY <1>a, <1>7 DEF accountVars
<1> QED
  BY <1>1, <1>2, <1>3, <1>4, <1>5, <1>6, <1>7 DEF AccountNext

-----------------------------------------------------------------------------

LEMMA AccountStarts == AccountInit => AccountInv /\ LookupsNamed
<1> SUFFICES ASSUME AccountInit PROVE AccountInv /\ LookupsNamed
  OBVIOUS
<1>1. LookupsNamed
  BY DEF AccountInit, LookupsNamed
<1>2. PageTyped
  BY DEF AccountInit, PageTyped, AccountPage, Shown
<1>3. ChromeFits(account, profile) /\ MenuFits(account) /\ CacheFits(profile)
  BY DEF AccountInit, ChromeFits, MenuFits, CacheFits
<1> QED
  BY <1>1, <1>2, <1>3 DEF AccountInv

LEMMA AccountStep ==
  ASSUME AccountInv, LookupsNamed, [AccountNext]_accountVars
  PROVE  AccountInv'
<1>1. CASE RenderHeader \/ LoginDone \/ RegisterEnds \/ Submit \/ LoginFails
  BY <1>1, FormStep
<1>2. CASE SignOut \/ Expire \/ BackoffOver
  BY <1>2, LeaveStep
<1>3. CASE OpenMenu \/ Redraw
  BY <1>3, MenuStep
<1>4. ASSUME NEW l \in lookups, Answer(l) PROVE AccountInv'
  BY <1>4, AnswerFits DEF LookupsNamed
<1>5. CASE UNCHANGED accountVars
  BY <1>5 DEF accountVars, AccountInv, PageTyped, ChromeFits, MenuFits, CacheFits
<1> QED
  BY <1>1, <1>2, <1>3, <1>4, <1>5 DEF AccountNext

LEMMA AccountKept == AccountSpec => [](AccountInv /\ LookupsNamed)
<1>1. AccountInv /\ LookupsNamed /\ [AccountNext]_accountVars => (AccountInv /\ LookupsNamed)'
  BY AccountStep, NamedStep
<1> QED
  BY <1>1, AccountStarts, PTL DEF AccountSpec

\* Any number of sign-ins, sign-outs, expired tokens, lookups and headers: unless one
\* account took over from another without a sign-out, no header names an account that is
\* not signed in or bears somebody else's photo (account-sync.js).
THEOREM HeadersKept == AccountSpec => []HeadersTrue
<1>1. AccountInv => HeadersTrue
  BY DEF AccountInv, ChromeFits, HeadersTrue
<1> QED
  BY <1>1, AccountKept, PTL

\* The cached profile is that of the account it is labelled with, whichever lookup answers
\* last, and the menu shows no figures but those of the account signed in.
THEOREM ProfileKept == AccountSpec => []ProfileFits
<1>1. AccountInv => ProfileFits
  BY DEF AccountInv, CacheFits, MenuFits, ProfileFits
<1> QED
  BY <1>1, AccountKept, PTL

-----------------------------------------------------------------------------
(* The radar.                                                              *)

RadarTyped ==
  /\ RadarTypeOK
  /\ Len(served) \in 1..MaxLists
  /\ \A p \in polls : p.list <= Len(served)

\* Whoever is in view, has a position to come or has one, and was entered, polls or is
\* about to: the first poll of an entry keeps it going.
PollsOn(r, ps) ==
  /\ r.timer # 0 => r.active /\ r.timer = r.entry
  /\ r.active /\ ~r.denied /\ ~r.unentered
       => \/ r.entry \in r.locating \/ r.timer # 0
          \/ \E p \in ps : p.by = "enter" /\ p.entry = r.entry

\* The scope is turned by a compass that is on, and a transition is always waited for.
North(r) == /\ ~r.compass => r.rot # "turned"
            /\ r.settling => r.settle

\* The view is one answer.
Shows(r, lists) ==
  /\ r.payload <= Len(lists)
  /\ r.rows = IF r.payload = 0 THEN <<>> ELSE lists[r.payload]
  /\ r.blips = ToSet(r.rows)
  /\ r.selected # None => r.lit = {r.selected} /\ r.lit \subseteq r.blips

RadarInv == RadarTyped /\ PollsOn(radar, polls) /\ North(radar) /\ Shows(radar, served)

SamePolling(r, s) ==
  /\ s.active = r.active /\ s.entry = r.entry /\ s.locating = r.locating
  /\ s.timer = r.timer /\ s.denied = r.denied /\ s.unentered = r.unentered

SameScope(r, s) ==
  s.compass = r.compass /\ s.rot = r.rot /\ s.settling = r.settling /\ s.settle = r.settle

SameList(r, s) ==
  /\ s.payload = r.payload /\ s.rows = r.rows /\ s.blips = r.blips
  /\ s.selected = r.selected /\ s.lit = r.lit

\* What one step of the screen leaves as it was, the invariant leaves alone.
LEMMA RadarStays ==
  ASSUME RadarInv, radar' \in Radar, UNCHANGED <<polls, served>>,
         SamePolling(radar, radar') \/ PollsOn(radar', polls),
         SameScope(radar, radar') \/ North(radar'),
         SameList(radar, radar') \/ Shows(radar', served)
  PROVE  RadarInv'
<1>1. RadarTyped'
  BY DEF RadarInv, RadarTyped, RadarTypeOK
<1>2. PollsOn(radar', polls')
  BY DEF RadarInv, PollsOn, SamePolling
<1>3. North(radar')
  BY DEF RadarInv, North, SameScope
<1>4. Shows(radar', served')
  BY DEF RadarInv, Shows, SameList
<1> QED
  BY <1>1, <1>2, <1>3, <1>4 DEF RadarInv

-----------------------------------------------------------------------------
(* The compass.                                                            *)

LEMMA Cancelled ==
  ASSUME NEW r \in Radar
  PROVE  /\ CancelSettle(r) \in Radar
         /\ SamePolling(r, CancelSettle(r)) /\ SameList(r, CancelSettle(r))
         /\ CancelSettle(r).compass = r.compass /\ CancelSettle(r).rot = r.rot
         /\ ~CancelSettle(r).settling /\ ~CancelSettle(r).settle
BY DEF CancelSettle, Radar, SamePolling, SameList

LEMMA CompassStops ==
  ASSUME NEW r \in Radar, NEW animate \in BOOLEAN, North(r)
  PROVE  /\ StopCompass(r, animate) \in Radar
         /\ SamePolling(r, StopCompass(r, animate)) /\ SameList(r, StopCompass(r, animate))
         /\ North(StopCompass(r, animate))
         /\ ~StopCompass(r, animate).compass
<1> DEFINE s == StopCompass(r, animate)
<1>1. CASE ~r.compass
  <2>1. s = r
    BY <1>1 DEF StopCompass
  <2> HIDE DEF s
  <2>2. SamePolling(r, s) /\ SameList(r, s) /\ s \in Radar /\ North(s) /\ ~s.compass
    BY <1>1, <2>1 DEF SamePolling, SameList
  <2> QED
    BY <2>2 DEF s
<1>2. CASE r.compass /\ animate
  <2>1. s = [r EXCEPT !.compass = FALSE, !.rot = "north", !.settling = TRUE, !.settle = TRUE]
    BY <1>2 DEF StopCompass
  <2> HIDE DEF s
  <2>2. SamePolling(r, s) /\ SameList(r, s) /\ s \in Radar /\ North(s) /\ ~s.compass
    BY <2>1 DEF Radar, SamePolling, SameList, North
  <2> QED
    BY <2>2 DEF s
<1>3. CASE r.compass /\ ~animate
  <2> DEFINE c == CancelSettle(r)
  <2>1. s = [c EXCEPT !.compass = FALSE, !.rot = None]
    BY <1>3 DEF StopCompass
  <2>2. c \in Radar /\ SamePolling(r, c) /\ SameList(r, c) /\ ~c.settling /\ ~c.settle
    BY Cancelled
  <2> HIDE DEF c, s
  <2>3. SamePolling(r, s) /\ SameList(r, s) /\ s \in Radar /\ North(s) /\ ~s.compass
    BY <2>1, <2>2 DEF Radar, SamePolling, SameList, North, None
  <2> QED
    BY <2>3 DEF s
<1> QED
  BY <1>1, <1>2, <1>3

LEMMA CompassStep ==
  ASSUME RadarInv, ToggleCompass \/ CompassAnswer \/ Orient \/ TurnFrame \/ SettleDone
  PROVE  RadarInv'
<1>0. radar \in Radar /\ North(radar)
  BY DEF RadarInv, RadarTyped, RadarTypeOK
<1>1. CASE ToggleCompass
  <2>1. CASE radar.compass
    <3>1. radar' = StopCompass(radar, TRUE) /\ UNCHANGED <<polls, served>>
      BY <1>1, <2>1 DEF ToggleCompass
    <3> QED
      BY <1>0, <3>1, CompassStops, RadarStays
  <2>2. CASE ~radar.compass
    <3> DEFINE c == CancelSettle(radar)
    <3>1. radar' = [c EXCEPT !.asking = TRUE] /\ UNCHANGED <<polls, served>>
      BY <1>1, <2>2 DEF ToggleCompass
    <3>2. /\ c \in Radar /\ SamePolling(radar, c) /\ SameList(radar, c)
          /\ c.compass = radar.compass /\ c.rot = radar.rot /\ ~c.settling /\ ~c.settle
      BY <1>0, Cancelled
    <3> HIDE DEF c
    <3>3. /\ radar' \in Radar /\ SamePolling(radar, radar') /\ SameList(radar, radar')
          /\ North(radar')
      BY <1>0, <3>1, <3>2 DEF Radar, SamePolling, SameList, North
    <3> QED
      BY <3>1, <3>3, RadarStays
  <2> QED
    BY <2>1, <2>2
<1>2. CASE CompassAnswer
  <2>1. PICK granted \in BOOLEAN :
          radar' = [radar EXCEPT !.asking = FALSE, !.error = ~granted,
                                 !.compass = granted \/ radar.compass]
    BY <1>2 DEF CompassAnswer
  <2> DEFINE on == granted \/ radar.compass
  <2>2. on \in BOOLEAN /\ (radar.compass => on)
    BY <1>0 DEF Radar
  <2>3. radar' = [radar EXCEPT !.asking = FALSE, !.error = ~granted, !.compass = on]
    BY <2>1
  <2> HIDE DEF on
  <2>4. /\ radar' \in Radar /\ SamePolling(radar, radar') /\ SameList(radar, radar')
        /\ North(radar')
    <3> DEFINE r == [radar EXCEPT !.asking = FALSE, !.error = ~granted, !.compass = on]
    <3>1. r \in Radar
      BY <1>0, <2>2 DEF Radar
    <3>2. SamePolling(radar, r) /\ SameList(radar, r)
      BY <1>0 DEF Radar, SamePolling, SameList
    <3>3. North(r)
      BY <1>0, <2>2 DEF Radar, North
    <3> HIDE DEF r
    <3> QED
      BY <2>3, <3>1, <3>2, <3>3 DEF r
  <2>5. UNCHANGED <<polls, served>>
    BY <1>2 DEF CompassAnswer
  <2> QED
    BY <1>0, <2>4, <2>5, RadarStays
<1>3. CASE Orient
  <2>1. radar' = [radar EXCEPT !.frame = TRUE] /\ UNCHANGED <<polls, served>>
    BY <1>3 DEF Orient
  <2>2. /\ radar' \in Radar /\ SamePolling(radar, radar') /\ SameList(radar, radar')
        /\ SameScope(radar, radar')
    BY <1>0, <2>1 DEF Radar, SamePolling, SameList, SameScope
  <2> QED
    BY <2>1, <2>2, RadarStays
<1>4. CASE TurnFrame
  <2> DEFINE rot == IF radar.compass THEN "turned" ELSE radar.rot
  <2>1. radar' = [radar EXCEPT !.frame = FALSE, !.rot = rot] /\ UNCHANGED <<polls, served>>
    BY <1>4 DEF TurnFrame, Turned
  <2>2. rot \in {None, "north", "turned"} /\ (rot = "turned" => radar.compass \/ radar.rot = rot)
    BY <1>0 DEF Radar
  <2> HIDE DEF rot
  <2>3. /\ radar' \in Radar /\ SamePolling(radar, radar') /\ SameList(radar, radar')
        /\ North(radar')
    BY <1>0, <2>1, <2>2 DEF Radar, SamePolling, SameList, North
  <2> QED
    BY <2>1, <2>3, RadarStays
<1>5. CASE SettleDone
  <2> DEFINE c == CancelSettle(radar)
  <2>1. radar' = [c EXCEPT !.rot = None] /\ UNCHANGED <<polls, served>>
    BY <1>5 DEF SettleDone
  <2>2. c \in Radar /\ SamePolling(radar, c) /\ SameList(radar, c) /\ ~c.settling /\ ~c.settle
    BY <1>0, Cancelled
  <2> HIDE DEF c
  <2>3. /\ radar' \in Radar /\ SamePolling(radar, radar') /\ SameList(radar, radar')
        /\ North(radar')
    BY <1>0, <2>1, <2>2 DEF Radar, SamePolling, SameList, North, None
  <2> QED
    BY <2>1, <2>3, RadarStays
<1> QED
  BY <1>1, <1>2, <1>3, <1>4, <1>5

-----------------------------------------------------------------------------
(* Coming, going and polling.                                              *)

LEMMA NoList == ToSet(<<>>) = {}
BY DEF ToSet

LEMMA EmptyListed == <<>> \in Lists
<1>1. 0 \in 0..Cardinality(Nearby)
  BY RadarBounds, FS_CardinalityType
<1>2. <<>> \in [1..0 -> Nearby] /\ IsInjective(<<>>)
  BY DEF IsInjective
<1> QED
  BY <1>1, <1>2 DEF Lists

LEMMA RadarLeft ==
  ASSUME RadarInv, LeaveRadar
  PROVE  RadarInv'
<1> DEFINE p == StopPolling(radar)
           s == StopCompass(p, FALSE)
           c == CancelSettle(s)
<1>1. radar' = [c EXCEPT !.active = FALSE] /\ UNCHANGED <<polls, served>>
  BY DEF LeaveRadar
<1>2. radar \in Radar /\ North(radar)
  BY DEF RadarInv, RadarTyped, RadarTypeOK
<1>3. p \in Radar /\ p.timer = 0 /\ SameScope(radar, p) /\ SameList(radar, p)
  BY <1>2, RadarBounds DEF StopPolling, Radar, SameScope, SameList
<1> HIDE DEF p
<1>4. /\ s \in Radar /\ SamePolling(p, s) /\ SameList(p, s) /\ North(s) /\ ~s.compass
  BY <1>2, <1>3, CompassStops DEF North, SameScope
<1> HIDE DEF s
<1>5. /\ c \in Radar /\ SamePolling(s, c) /\ SameList(s, c)
      /\ c.rot = s.rot /\ ~c.settling /\ c.compass = s.compass
  BY <1>4, Cancelled
<1> HIDE DEF c
<1>6. /\ radar' \in Radar /\ radar'.timer = c.timer /\ ~radar'.active /\ SameList(c, radar')
      /\ SameScope(c, radar')
  BY <1>1, <1>5 DEF Radar, SameList, SameScope
<1>7. SameList(radar, radar') /\ North(radar') /\ PollsOn(radar', polls)
  BY <1>3, <1>4, <1>5, <1>6 DEF SameList, SamePolling, SameScope, North, PollsOn
<1> QED
  BY <1>1, <1>6, <1>7, RadarStays

LEMMA EnterStep ==
  ASSUME RadarInv, EnterRadar
  PROVE  RadarInv'
<1> DEFINE p == StopPolling(radar)
           n == radar.entry + 1
           places == p.locating \cup {n}
<1>0. radar \in Radar
  BY DEF RadarInv, RadarTyped, RadarTypeOK
<1>1. p \in Radar /\ p.timer = 0 /\ p.entry = radar.entry /\ SameScope(radar, p)
  BY <1>0, RadarBounds DEF StopPolling, Radar, SameScope
<1>2. /\ radar' = [p EXCEPT !.active = TRUE, !.selected = None, !.payload = 0, !.rows = <<>>,
                     !.blips = {}, !.lit = {}, !.error = FALSE, !.retry = FALSE,
                     !.denied = FALSE, !.entry = p.entry + 1, !.locating = places,
                     !.unentered = FALSE]
      /\ radar.entry < MaxEntries /\ UNCHANGED <<polls, served>>
  BY DEF EnterRadar, Entered
<1>3. n \in 0..MaxEntries /\ n \in 1..MaxEntries /\ places \in SUBSET (1..MaxEntries)
  BY <1>0, <1>1, <1>2, RadarBounds DEF Radar
<1>4. <<>> \in Lists
  BY EmptyListed
<1>5. radar' = [p EXCEPT !.active = TRUE, !.selected = None, !.payload = 0, !.rows = <<>>,
                     !.blips = {}, !.lit = {}, !.error = FALSE, !.retry = FALSE,
                     !.denied = FALSE, !.entry = n, !.locating = places,
                     !.unentered = FALSE]
  BY <1>1, <1>2
<1>6. n \in places
  OBVIOUS
<1> HIDE DEF p, n, places
<1>7. radar' \in Radar
  <2> DEFINE bare == [p EXCEPT !.active = TRUE, !.selected = None, !.payload = 0,
                               !.rows = <<>>, !.blips = {}, !.lit = {}]
  <2>1. radar' = [bare EXCEPT !.error = FALSE, !.retry = FALSE, !.denied = FALSE,
                              !.entry = n, !.locating = places, !.unentered = FALSE]
    BY <1>5, Zenon
  <2>2. bare \in Radar
    <3>1. 0 \in 0..MaxLists /\ {} \in SUBSET Nearby /\ None \in Nearby \cup {None}
      BY RadarBounds
    <3> QED
      BY <1>1, <1>4, <3>1 DEF Radar
  <2> HIDE DEF bare
  <2> QED
    BY <1>3, <2>1, <2>2 DEF Radar
<1>8. /\ radar'.timer = 0 /\ radar'.entry \in radar'.locating
      /\ radar'.payload = 0 /\ radar'.rows = <<>>
      /\ radar'.blips = {} /\ radar'.selected = None
  BY <1>1, <1>5, <1>6 DEF Radar
<1>9. SameScope(radar, radar')
  BY <1>1, <1>5 DEF Radar, SameScope
<1>10. PollsOn(radar', polls) /\ Shows(radar', served)
  BY <1>8, NoList DEF PollsOn, Shows, RadarInv, RadarTyped, RadarTypeOK
<1> QED
  BY <1>2, <1>7, <1>9, <1>10, RadarStays

LEMMA ShownAgain ==
  ASSUME RadarInv, ShowRadarAgain
  PROVE  RadarInv'
<1>1. /\ radar' = [radar EXCEPT !.active = TRUE, !.unentered = TRUE]
      /\ ~radar.active /\ UNCHANGED <<polls, served>>
  BY DEF ShowRadarAgain
<1>2. /\ radar' \in Radar /\ radar'.timer = radar.timer /\ radar'.unentered
      /\ SameScope(radar, radar') /\ SameList(radar, radar')
  BY <1>1 DEF RadarInv, RadarTyped, RadarTypeOK, Radar, SameScope, SameList
<1>3. PollsOn(radar', polls)
  BY <1>1, <1>2 DEF PollsOn, RadarInv
<1> QED
  BY <1>1, <1>2, <1>3, RadarStays

LEMMA LostStep ==
  ASSUME RadarInv, NEW e \in 1..MaxEntries, Lost(e)
  PROVE  RadarInv'
<1> DEFINE places == radar.locating \ {e}
<1>0. radar \in Radar /\ places \in SUBSET (1..MaxEntries) /\ UNCHANGED <<polls, served>>
  BY DEF RadarInv, RadarTyped, RadarTypeOK, Radar, Lost
<1>1. CASE e # radar.entry
  <2>1. radar' = [radar EXCEPT !.locating = places]
    BY <1>1 DEF Lost
  <2>2. radar.entry \in radar.locating => radar.entry \in places
    BY <1>1
  <2> HIDE DEF places
  <2>3. /\ radar' \in Radar /\ radar'.locating = places /\ radar'.entry = radar.entry
        /\ radar'.timer = radar.timer /\ radar'.active = radar.active
        /\ radar'.denied = radar.denied /\ radar'.unentered = radar.unentered
        /\ SameScope(radar, radar') /\ SameList(radar, radar')
    BY <1>0, <2>1 DEF Radar, SameScope, SameList
  <2>4. PollsOn(radar', polls)
    BY <2>2, <2>3 DEF PollsOn, RadarInv
  <2> QED
    BY <1>0, <2>3, <2>4, RadarStays
<1>2. CASE e = radar.entry
  <2>1. PICK retry \in BOOLEAN :
          radar' = [radar EXCEPT !.locating = places, !.error = TRUE, !.denied = TRUE,
                                 !.retry = retry]
    <3>1. PICK reason \in Reasons :
            radar' = [radar EXCEPT !.locating = places, !.error = TRUE, !.denied = TRUE,
                                   !.retry = reason \in {"timeout", "unavailable"}]
      BY <1>2 DEF Lost
    <3> DEFINE again == reason \in {"timeout", "unavailable"}
    <3>2. again \in BOOLEAN
      OBVIOUS
    <3>3. radar' = [radar EXCEPT !.locating = places, !.error = TRUE, !.denied = TRUE,
                                 !.retry = again]
      BY <3>1
    <3> QED
      BY <3>2, <3>3
  <2> HIDE DEF places
  <2>2. /\ radar' \in Radar /\ radar'.entry = radar.entry /\ radar'.denied
        /\ radar'.timer = radar.timer /\ radar'.active = radar.active
        /\ SameScope(radar, radar') /\ SameList(radar, radar')
    BY <1>0, <2>1 DEF Radar, SameScope, SameList
  <2>3. PollsOn(radar', polls)
    BY <2>2 DEF PollsOn, RadarInv
  <2> QED
    BY <1>0, <2>2, <2>3, RadarStays
<1> QED
  BY <1>1, <1>2

LEMMA Polling ==
  ASSUME NEW r \in Radar, NEW e \in 0..MaxEntries
  PROVE  /\ KeepPolling(r, e) \in Radar
         /\ SameScope(r, KeepPolling(r, e)) /\ SameList(r, KeepPolling(r, e))
         /\ KeepPolling(r, e).active = r.active /\ KeepPolling(r, e).entry = r.entry
         /\ KeepPolling(r, e).locating = r.locating /\ KeepPolling(r, e).denied = r.denied
         /\ KeepPolling(r, e).unentered = r.unentered
         /\ KeepPolling(r, e).timer = IF e = r.entry /\ r.active THEN e ELSE r.timer
<1>1. CASE e = r.entry /\ r.active
  <2> DEFINE s == [r EXCEPT !.timer = e]
  <2>1. KeepPolling(r, e) = s
    BY <1>1 DEF KeepPolling
  <2>2. /\ s \in Radar /\ SameScope(r, s) /\ SameList(r, s) /\ s.active = r.active
        /\ s.entry = r.entry /\ s.locating = r.locating /\ s.denied = r.denied
        /\ s.unentered = r.unentered /\ s.timer = e
    BY DEF Radar, SameScope, SameList
  <2> HIDE DEF s
  <2> QED
    BY <1>1, <2>1, <2>2
<1>2. CASE ~(e = r.entry /\ r.active)
  BY <1>2 DEF KeepPolling, SameScope, SameList
<1> QED
  BY <1>1, <1>2

\* A request of the entry in view, for the list there is.
LEMMA Requested ==
  ASSUME RadarInv, UNCHANGED served, NEW by \in {"enter", "timer"}, Request(by),
         radar.entry \in 1..MaxEntries, radar' \in Radar, PollsOn(radar', polls'),
         SameScope(radar, radar'), SameList(radar, radar')
  PROVE  RadarInv'
<1> DEFINE new == [entry |-> radar.entry, list |-> Len(served), by |-> by]
<1>1. polls' = polls \cup {new}
  BY DEF Request
<1>2. Len(served) \in 1..MaxLists
  BY DEF RadarInv, RadarTyped, RadarTypeOK
<1>3. new \in [entry : 1..MaxEntries, list : 1..MaxLists, by : {"enter", "timer"}]
      /\ new.list = Len(served)
  BY <1>2
<1> HIDE DEF new
<1>4. RadarTyped'
  BY <1>1, <1>2, <1>3 DEF RadarInv, RadarTyped, RadarTypeOK
<1>5. North(radar') /\ Shows(radar', served')
  BY DEF RadarInv, North, Shows, SameScope, SameList
<1> QED
  BY <1>4, <1>5 DEF RadarInv

LEMMA LocatedStep ==
  ASSUME RadarInv, NEW e \in 1..MaxEntries, Located(e)
  PROVE  RadarInv'
<1> DEFINE places == radar.locating \ {e}
           r == [radar EXCEPT !.locating = places, !.pos = TRUE]
<1>0. radar \in Radar /\ places \in SUBSET (1..MaxEntries) /\ UNCHANGED served
  BY DEF RadarInv, RadarTyped, RadarTypeOK, Radar, Located
<1>1. \/ e = radar.entry /\ radar.active /\ Request("enter") /\ radar' = r
      \/ /\ e = radar.entry /\ ~radar.active
         /\ radar' = KeepPolling(StopPolling(r), e) /\ UNCHANGED polls
      \/ e # radar.entry /\ radar' = r /\ UNCHANGED polls
  BY DEF Located
<1>2. radar.entry # e => (radar.entry \in radar.locating => radar.entry \in places)
  OBVIOUS
<1> HIDE DEF places
<1>3. /\ r \in Radar /\ SameScope(radar, r) /\ SameList(radar, r)
      /\ r.locating = places /\ r.entry = radar.entry /\ r.active = radar.active
      /\ r.timer = radar.timer /\ r.denied = radar.denied /\ r.unentered = radar.unentered
  BY <1>0 DEF Radar, SameScope, SameList
<1> HIDE DEF r
<1>4. CASE e = radar.entry /\ radar.active /\ Request("enter") /\ radar' = r
  <2> DEFINE new == [entry |-> radar.entry, list |-> Len(served), by |-> "enter"]
  <2>0. new \in polls' /\ new.by = "enter" /\ new.entry = radar.entry
    BY <1>4 DEF Request
  <2> HIDE DEF new
  <2>1. PollsOn(radar', polls')
    BY <1>3, <1>4, <2>0 DEF PollsOn, RadarInv
  <2> QED
    BY <1>0, <1>3, <1>4, <2>1, Requested
<1>5. CASE /\ e = radar.entry /\ ~radar.active
           /\ radar' = KeepPolling(StopPolling(r), e) /\ UNCHANGED polls
  <2> DEFINE p == StopPolling(r)
  <2>1. p \in Radar /\ p.timer = 0 /\ SameScope(r, p) /\ SameList(r, p) /\ p.active = r.active
    BY <1>3, RadarBounds DEF StopPolling, Radar, SameScope, SameList
  <2> HIDE DEF p
  <2>2. radar' = p
    BY <1>3, <1>5, <2>1 DEF KeepPolling, p
  <2>3. PollsOn(radar', polls) /\ SameScope(radar, radar') /\ SameList(radar, radar')
    BY <1>3, <1>5, <2>1, <2>2 DEF PollsOn, SameScope, SameList
  <2> QED
    BY <1>0, <1>5, <2>1, <2>2, <2>3, RadarStays
<1>6. CASE e # radar.entry /\ radar' = r /\ UNCHANGED polls
  <2>1. PollsOn(radar', polls)
    BY <1>2, <1>3, <1>6 DEF PollsOn, RadarInv
  <2> QED
    BY <1>0, <1>3, <1>6, <2>1, RadarStays
<1> QED
  BY <1>1, <1>4, <1>5, <1>6

LEMMA TickStep ==
  ASSUME RadarInv, Tick
  PROVE  RadarInv'
<1>0. /\ radar \in Radar /\ radar.timer # 0 /\ radar.active /\ radar.timer = radar.entry
      /\ UNCHANGED served
  BY DEF RadarInv, RadarTyped, RadarTypeOK, PollsOn, Tick
<1>1. Request("timer") /\ UNCHANGED radar
  BY <1>0 DEF Tick
<1>2. radar.entry \in 1..MaxEntries
  BY <1>0, RadarBounds DEF Radar
<1>3. PollsOn(radar', polls') /\ SameScope(radar, radar') /\ SameList(radar, radar')
  BY <1>0, <1>1 DEF PollsOn, SameScope, SameList
<1> QED
  BY <1>0, <1>1, <1>2, <1>3, Requested

-----------------------------------------------------------------------------
(* The list.                                                               *)

LEMMA ListNames == ASSUME NEW games \in Lists PROVE ToSet(games) \subseteq Nearby
BY DEF Lists, ToSet

LEMMA Rendered ==
  ASSUME NEW r \in Radar, NEW games \in Lists
  PROVE  LET v == RenderRadar(r, games)
         IN  /\ v \in Radar /\ SamePolling(r, v) /\ SameScope(r, v) /\ v.payload = r.payload
             /\ v.rows = games /\ v.blips = ToSet(games)
             /\ v.selected # None => v.lit = {v.selected} /\ v.lit \subseteq v.blips
<1> DEFINE names == ToSet(games)
           still == SelectedStill(r, games)
           q == [r EXCEPT !.selected = still, !.blips = names]
           lit == {still} \cap names
           v == [q EXCEPT !.rows = games, !.lit = lit]
<1>1. names \subseteq Nearby
  BY ListNames
<1>2. still \in Nearby \cup {None} /\ (still # None => still \in names)
  BY DEF SelectedStill, Radar
<1>3. lit \in SUBSET Nearby /\ (still # None => lit = {still} /\ lit \subseteq names)
  BY <1>1, <1>2
<1>4. RenderRadar(r, games) = [q EXCEPT !.rows = games, !.lit = {q.selected} \cap names]
  BY DEF RenderRadar, RenderList
<1> HIDE DEF names, still, lit
<1>5. /\ q \in Radar /\ SamePolling(r, q) /\ SameScope(r, q) /\ q.payload = r.payload
      /\ q.selected = still /\ q.blips = names
  BY <1>1, <1>2 DEF Radar, SamePolling, SameScope
<1> HIDE DEF q
<1>6. RenderRadar(r, games) = v
  BY <1>4, <1>5 DEF lit
<1>7. /\ v \in Radar /\ SamePolling(q, v) /\ SameScope(q, v) /\ v.payload = q.payload
      /\ v.rows = games /\ v.lit = lit /\ v.blips = q.blips /\ v.selected = q.selected
  BY <1>3, <1>5 DEF Radar, SamePolling, SameScope
<1> HIDE DEF v
<1>8. /\ v \in Radar /\ SamePolling(r, v) /\ SameScope(r, v) /\ v.payload = r.payload
      /\ v.rows = games /\ v.blips = names
  BY <1>5, <1>7 DEF SamePolling, SameScope
<1>9. v.selected # None => v.lit = {v.selected} /\ v.lit \subseteq v.blips
  BY <1>3, <1>5, <1>7
<1> QED
  BY <1>6, <1>8, <1>9 DEF names

LEMMA AnswerStep ==
  ASSUME RadarInv, PollAnswer
  PROVE  RadarInv'
<1> DEFINE fetched(p) == [radar EXCEPT !.payload = p.list]
           view(p) == IF p.entry # radar.entry \/ p.list = radar.payload THEN radar
                      ELSE RenderRadar(fetched(p), served[p.list])
<1>0. PICK p \in polls :
        /\ polls' = polls \ {p} /\ UNCHANGED served
        /\ \E seen \in {view(p), radar} :
             radar' = IF p.by = "enter" THEN KeepPolling(seen, p.entry) ELSE seen
  BY DEF PollAnswer
<1>1. PICK seen \in {view(p), radar} :
        /\ polls' = polls \ {p} /\ UNCHANGED served
        /\ radar' = IF p.by = "enter" THEN KeepPolling(seen, p.entry) ELSE seen
  BY <1>0
<1>2. /\ radar \in Radar /\ served \in Seq(Lists) /\ Len(served) \in 1..MaxLists
      /\ p \in [entry : 1..MaxEntries, list : 1..MaxLists, by : {"enter", "timer"}]
      /\ p.list <= Len(served)
  BY DEF RadarInv, RadarTyped, RadarTypeOK
<1>3. /\ p.entry \in 1..MaxEntries /\ p.entry # 0 /\ p.entry \in 0..MaxEntries
      /\ p.list \in 1..MaxLists /\ p.list \in 0..MaxLists /\ p.list # 0
      /\ p.list \in 1..Len(served)
  BY <1>2
<1>4. /\ seen \in Radar /\ SamePolling(radar, seen) /\ SameScope(radar, seen)
      /\ Shows(seen, served)
  <2>1. CASE seen = radar
    BY <1>2, <2>1 DEF RadarInv, SamePolling, SameScope
  <2>2. CASE seen = RenderRadar(fetched(p), served[p.list])
    <3> DEFINE q == fetched(p)
               v == RenderRadar(q, served[p.list])
    <3>1. /\ q \in Radar /\ SamePolling(radar, q) /\ SameScope(radar, q)
          /\ q.payload = p.list
      BY <1>2, <1>3 DEF Radar, SamePolling, SameScope
    <3>2. served[p.list] \in Lists
      BY <1>2, <1>3
    <3>3. v = seen
      BY <2>2
    <3> HIDE DEF q
    <3>4. /\ v \in Radar /\ SamePolling(q, v) /\ SameScope(q, v) /\ v.payload = q.payload
          /\ v.rows = served[p.list] /\ v.blips = ToSet(served[p.list])
          /\ v.selected # None => v.lit = {v.selected} /\ v.lit \subseteq v.blips
      BY <3>1, <3>2, Rendered
    <3> HIDE DEF v
    <3> QED
      BY <1>2, <1>3, <3>1, <3>3, <3>4 DEF SamePolling, SameScope, Shows
  <2> QED
    BY <1>1, <2>1, <2>2
<1>5. /\ radar' \in Radar /\ SameScope(seen, radar') /\ SameList(seen, radar')
      /\ radar'.active = seen.active /\ radar'.entry = seen.entry
      /\ radar'.locating = seen.locating /\ radar'.denied = seen.denied
      /\ radar'.unentered = seen.unentered
      /\ radar'.timer = IF p.by = "enter" /\ p.entry = seen.entry /\ seen.active THEN p.entry
                        ELSE seen.timer
  <2>1. CASE p.by = "enter"
    BY <1>1, <1>3, <1>4, <2>1, Polling
  <2>2. CASE p.by # "enter"
    BY <1>1, <1>4, <2>2 DEF SameScope, SameList
  <2> QED
    BY <2>1, <2>2
<1>6. PollsOn(radar', polls')
  BY <1>1, <1>3, <1>4, <1>5 DEF PollsOn, RadarInv, SamePolling
<1>7. RadarTyped'
  BY <1>1, <1>5 DEF RadarInv, RadarTyped, RadarTypeOK
<1>8. North(radar') /\ Shows(radar', served')
  BY <1>1, <1>4, <1>5 DEF RadarInv, North, Shows, SameScope, SameList
<1> QED
  BY <1>6, <1>7, <1>8 DEF RadarInv

LEMMA SelectStep ==
  ASSUME RadarInv, SelectBlip
  PROVE  RadarInv'
<1>0. /\ radar \in Radar /\ UNCHANGED <<polls, served>> /\ radar.blips \subseteq Nearby
  BY DEF RadarInv, RadarTyped, RadarTypeOK, SelectBlip, Radar
<1>1. PICK code \in radar.blips : radar' = [radar EXCEPT !.selected = code, !.lit = {code}]
  BY DEF SelectBlip
<1>2. /\ radar' \in Radar /\ SamePolling(radar, radar') /\ SameScope(radar, radar')
      /\ radar'.selected = code /\ radar'.lit = {code} /\ radar'.blips = radar.blips
      /\ radar'.rows = radar.rows /\ radar'.payload = radar.payload
  BY <1>0, <1>1 DEF Radar, SamePolling, SameScope
<1>3. Shows(radar', served)
  BY <1>2 DEF Shows, RadarInv
<1> QED
  BY <1>0, <1>2, <1>3, RadarStays

LEMMA AroundStep ==
  ASSUME RadarInv, Around
  PROVE  RadarInv'
<1>1. PICK games \in Lists : served' = Append(served, games)
  BY DEF Around
<1>2. Len(served) < MaxLists /\ UNCHANGED <<radar, polls>> /\ served \in Seq(Lists)
  BY DEF Around, RadarInv, RadarTyped, RadarTypeOK
<1>3. /\ served' \in Seq(Lists) /\ Len(served') = Len(served) + 1 /\ Len(served) \in Nat
      /\ \A k \in 1..Len(served) : served'[k] = served[k]
  BY <1>1, <1>2
<1>4. RadarTyped'
  <2>1. Len(served') \in 1..MaxLists
    BY <1>2, <1>3, RadarBounds
  <2>2. \A p \in polls : p.list \in Nat /\ p.list <= Len(served)
    BY DEF RadarInv, RadarTyped, RadarTypeOK
  <2>3. RadarTypeOK'
    BY <1>2, <1>3 DEF RadarInv, RadarTyped, RadarTypeOK
  <2> QED
    BY <1>2, <1>3, <2>1, <2>2, <2>3 DEF RadarTyped
<1>5. Shows(radar', served')
  BY <1>2, <1>3 DEF RadarInv, RadarTyped, RadarTypeOK, Radar, Shows
<1> QED
  BY <1>2, <1>4, <1>5 DEF RadarInv, PollsOn

-----------------------------------------------------------------------------

LEMMA RadarStarts == RadarInit => RadarInv
<1> SUFFICES ASSUME RadarInit PROVE RadarInv
  OBVIOUS
<1>1. PICK games \in Lists : served = <<games>>
  BY DEF RadarInit
<1>2. served \in Seq(Lists) /\ Len(served) = 1 /\ Len(served) \in 1..MaxLists
  BY <1>1, RadarBounds
<1>3. radar \in Radar
  BY EmptyListed, RadarBounds DEF RadarInit, Radar, None
<1>4. RadarTyped
  BY <1>2, <1>3 DEF RadarInit, RadarTyped, RadarTypeOK
<1>5. PollsOn(radar, polls) /\ North(radar) /\ Shows(radar, served)
  BY <1>2, NoList DEF RadarInit, PollsOn, North, Shows, None
<1> QED
  BY <1>4, <1>5 DEF RadarInv

LEMMA RadarStep ==
  ASSUME RadarInv, [RadarNext]_radarVars
  PROVE  RadarInv'
<1>1. CASE ToggleCompass \/ CompassAnswer \/ Orient \/ TurnFrame \/ SettleDone
  BY <1>1, CompassStep
<1>2. CASE LeaveRadar \/ EnterRadar \/ ShowRadarAgain \/ Tick \/ PollAnswer \/ SelectBlip
           \/ Around
  BY <1>2, RadarLeft, EnterStep, ShownAgain, TickStep, AnswerStep, SelectStep, AroundStep
<1>3. ASSUME NEW e \in 1..MaxEntries, Lost(e) \/ Located(e) PROVE RadarInv'
  BY <1>3, LostStep, LocatedStep
<1>4. CASE UNCHANGED radarVars
  BY <1>4 DEF radarVars, RadarInv, RadarTyped, RadarTypeOK, PollsOn, North, Shows
<1> QED
  BY <1>1, <1>2, <1>3, <1>4 DEF RadarNext

LEMMA RadarKept == RadarSpec => []RadarInv
<1>1. RadarInv /\ [RadarNext]_radarVars => RadarInv'
  BY RadarStep
<1> QED
  BY <1>1, RadarStarts, PTL DEF RadarSpec

\* Only the radar in view polls, for its latest entry, and it does so for as long as it is
\* in view and has a position, whatever positions, answers and entries overlap
\* (nearby-screen.js).
THEOREM PollsKept == RadarSpec => []RadarPolls
<1>1. RadarInv => RadarPolls
  BY DEF RadarInv, PollsOn, RadarPolls
<1> QED
  BY <1>1, RadarKept, PTL

\* With the compass off and no frame or transition left, the scope points north.
THEOREM NorthKept == RadarSpec => []ScopeNorth
<1>1. RadarInv => ScopeNorth
  BY DEF RadarInv, North, ScopeNorth
<1> QED
  BY <1>1, RadarKept, PTL

\* Scope and list show one answer of the server, and what is highlighted is selected and
\* among the games shown, in whatever order answers to several polls and entries come in.
THEOREM ListKept == RadarSpec => []ScopeMatchesList
<1>1. RadarInv => ScopeMatchesList
  BY DEF RadarInv, Shows, ScopeMatchesList
<1> QED
  BY <1>1, RadarKept, PTL

-----------------------------------------------------------------------------
(* The places sheet.                                                       *)

Boxes == Queries \cup {Blank}
Listings == {NoRows, Near} \cup Queries

Sheet == [open : BOOLEAN, box : Boxes, timer : Boxes, seq : Nat, cache : {NoRows, Near},
          pos : BOOLEAN, reloading : BOOLEAN, rows : Listings,
          status : {"hidden", "busy", "empty", "error"}, late : BOOLEAN,
          opens : Nat, typed : Nat]

\* Requests, by what of them the sheet tells apart.
RequestsTyped ==
  \A a \in asked :
    \/ a \in [kind : {"open", "refresh"}, step : {"position", "places"}, id : Nat]
    \/ a \in [kind : {"search"}, query : Queries, id : Nat]

\* The search under way is that of the box, unless a newer one is about to be sent.
Searching(s, as) ==
  \A a \in as : a.kind = "search" =>
    a.id <= s.seq /\ (a.id = s.seq /\ s.timer = Blank => a.query = s.box)

\* What the list waits for, and what it shows.
Listed(s, as) ==
  s.open /\ s.timer = Blank /\ ~s.late =>
    /\ s.status = "busy" =>
         \E a \in as : \/ a.kind = "open" /\ s.box = Blank
                       \/ a.kind = "search" /\ a.id = s.seq
    /\ s.status = "hidden" => s.rows = IF s.box = Blank THEN Near ELSE s.box

PlacesInv ==
  /\ sheet \in Sheet /\ RequestsTyped
  /\ sheet.timer \in {Blank, sheet.box}
  /\ Searching(sheet, asked)
  /\ Listed(sheet, asked)

LEMMA Painted ==
  ASSUME NEW s \in Sheet, NEW list \in Listings
  PROVE  LET t == RenderPlaces(s, list)
         IN  /\ t \in Sheet /\ t.status = IF list = NoRows THEN "empty" ELSE "hidden"
             /\ t.status = "hidden" => t.rows = list
             /\ t.open = s.open /\ t.box = s.box /\ t.timer = s.timer /\ t.seq = s.seq
             /\ t.late = s.late
<1>1. CASE list = NoRows
  <2> DEFINE t == [s EXCEPT !.status = "empty"]
  <2>1. RenderPlaces(s, list) = t
    BY <1>1 DEF RenderPlaces
  <2>2. /\ t \in Sheet /\ t.status = "empty" /\ t.open = s.open /\ t.box = s.box
        /\ t.timer = s.timer /\ t.seq = s.seq /\ t.late = s.late
    BY DEF Sheet
  <2> HIDE DEF t
  <2> QED
    BY <1>1, <2>1, <2>2
<1>2. CASE list # NoRows
  <2> DEFINE t == [s EXCEPT !.status = "hidden", !.rows = list]
  <2>1. RenderPlaces(s, list) = t
    BY <1>2 DEF RenderPlaces
  <2>2. /\ t \in Sheet /\ t.status = "hidden" /\ t.open = s.open /\ t.box = s.box
        /\ t.timer = s.timer /\ t.seq = s.seq /\ t.late = s.late /\ t.rows = list
    BY DEF Sheet
  <2> HIDE DEF t
  <2> QED
    BY <1>2, <2>1, <2>2
<1> QED
  BY <1>1, <1>2

\* A listing is the nearby places, a query or nothing, and nothing is neither.
LEMMA Listing == {NoRows, Near} \subseteq Listings /\ Queries \subseteq Listings /\ Near # NoRows
BY DEF Listings, NoRows, Near

LEMMA OpenStep ==
  ASSUME PlacesInv, OpenPlaces
  PROVE  PlacesInv'
<1> DEFINE n == sheet.seq + 1
           m == sheet.opens + 1
           s == [sheet EXCEPT !.open = TRUE, !.rows = NoRows, !.timer = Blank, !.seq = n,
                              !.box = Blank, !.late = FALSE, !.opens = m]
           cached == sheet.cache # NoRows
           new == [kind |-> IF cached THEN "refresh" ELSE "open", step |-> "position",
                   id |-> m]
           busy == [s EXCEPT !.status = "busy"]
<1>0. sheet \in Sheet /\ n \in Nat /\ n > sheet.seq /\ m \in Nat
  BY DEF PlacesInv, Sheet
<1>1. /\ sheet' = IF cached THEN RenderPlaces(s, s.cache) ELSE busy
      /\ asked' = asked \cup {[kind |-> IF cached THEN "refresh" ELSE "open",
                               step |-> "position", id |-> s.opens]}
  BY Zenon DEF OpenPlaces
<1> HIDE DEF n, m
<1>2. /\ s \in Sheet /\ s.open /\ s.timer = Blank /\ s.seq = n /\ s.box = Blank /\ ~s.late
      /\ s.opens = m /\ s.cache = sheet.cache
  BY <1>0 DEF Sheet, Listings, Boxes
<1> HIDE DEF s
<1>3. asked' = asked \cup {new}
  BY <1>1, <1>2
<1>4. /\ new \in [kind : {"open", "refresh"}, step : {"position", "places"}, id : Nat]
      /\ new.kind = (IF cached THEN "refresh" ELSE "open")
  BY <1>0
<1> HIDE DEF new
<1>5. RequestsTyped'
  BY <1>3, <1>4 DEF PlacesInv, RequestsTyped
<1>6. /\ sheet' \in Sheet /\ sheet'.open /\ sheet'.timer = Blank /\ sheet'.seq = n
      /\ sheet'.box = Blank /\ sheet'.status = IF cached THEN "hidden" ELSE "busy"
      /\ cached => sheet'.rows = Near
  <2>1. CASE cached
    <3>1. s.cache \in Listings /\ s.cache = Near
      BY <1>0, <1>2, <2>1, Listing DEF Sheet
    <3> QED
      BY <1>1, <1>2, <2>1, <3>1, Painted, Listing
  <2>2. CASE ~cached
    BY <1>1, <1>2, <2>2 DEF Sheet
  <2> QED
    BY <2>1, <2>2
<1> HIDE DEF cached
<1>7. \A a \in asked' : a.kind = "search" => a.id < n
  <2>1. \A a \in asked : a.kind = "search" => a.id <= sheet.seq /\ a.id \in Nat
    BY DEF PlacesInv, Searching, RequestsTyped
  <2>2. sheet.seq \in Nat
    BY <1>0 DEF Sheet
  <2> QED
    BY <1>0, <1>3, <1>4, <2>1, <2>2
<1>8. Searching(sheet', asked')
  <2>1. \A a \in asked' : a.kind = "search" => a.id \in Nat
    BY <1>5 DEF RequestsTyped
  <2> QED
    BY <1>0, <1>6, <1>7, <2>1 DEF Searching
<1>9. Listed(sheet', asked')
  BY <1>3, <1>4, <1>6 DEF Listed
<1> QED
  BY <1>5, <1>6, <1>8, <1>9 DEF PlacesInv

\* The sheet closes, or nothing is repainted: what is left of the invariant to show.
LEMMA Shut ==
  ASSUME PlacesInv, ClosePlaces
  PROVE  PlacesInv'
<1>1. sheet' = [sheet EXCEPT !.open = FALSE] /\ UNCHANGED asked
  BY DEF ClosePlaces
<1>2. /\ sheet' \in Sheet /\ ~sheet'.open /\ sheet'.timer = sheet.timer
      /\ sheet'.box = sheet.box /\ sheet'.seq = sheet.seq
  BY <1>1 DEF PlacesInv, Sheet
<1> QED
  BY <1>1, <1>2 DEF PlacesInv, RequestsTyped, Searching, Listed

\* An answer takes its request away, or asks the next thing in its place.
LEMMA Fewer ==
  ASSUME PlacesInv, NEW a \in asked, asked' = asked \ {a}
  PROVE  RequestsTyped' /\ Searching(sheet, asked')
BY DEF PlacesInv, RequestsTyped, Searching

LEMMA Onward ==
  ASSUME PlacesInv, NEW a \in asked, a.kind \in {"open", "refresh"},
         asked' = (asked \ {a}) \cup {[a EXCEPT !.step = "places"]}
  PROVE  /\ RequestsTyped' /\ Searching(sheet, asked')
         /\ [a EXCEPT !.step = "places"].kind = a.kind
<1> DEFINE b == [a EXCEPT !.step = "places"]
<1>1. a \in [kind : {"open", "refresh"}, step : {"position", "places"}, id : Nat]
  BY DEF PlacesInv, RequestsTyped
<1>2. /\ b \in [kind : {"open", "refresh"}, step : {"position", "places"}, id : Nat]
      /\ b.kind = a.kind
  BY <1>1
<1> HIDE DEF b
<1>3. asked' = (asked \ {a}) \cup {b}
  BY DEF b
<1>4. RequestsTyped' /\ Searching(sheet, asked')
  BY <1>2, <1>3 DEF PlacesInv, RequestsTyped, Searching
<1> QED
  BY <1>2, <1>4 DEF b

\* What an answer may do to the sheet: nothing the search under way depends on.
Repaints(s, t) ==
  /\ t \in Sheet /\ t.open = s.open /\ t.box = s.box /\ t.timer = s.timer /\ t.seq = s.seq

LEMMA Repainted ==
  ASSUME PlacesInv, RequestsTyped', Searching(sheet, asked'), Repaints(sheet, sheet'),
         Listed(sheet', asked')
  PROVE  PlacesInv'
BY DEF PlacesInv, Searching, Repaints

LEMMA OpenAnswered ==
  ASSUME PlacesInv, NEW a \in asked, OpenAnswer(a)
  PROVE  PlacesInv'
<1> DEFINE late == sheet.late \/ Late(sheet)
<1>0. /\ sheet \in Sheet /\ late \in BOOLEAN /\ a.kind = "open"
      /\ ~late => sheet.box = Blank
  BY DEF PlacesInv, OpenAnswer, Sheet, Late
<1>1. CASE /\ sheet' = [sheet EXCEPT !.pos = TRUE]
           /\ asked' = (asked \ {a}) \cup {[a EXCEPT !.step = "places"]}
  <2> DEFINE b == [a EXCEPT !.step = "places"]
  <2>1. RequestsTyped' /\ Searching(sheet, asked') /\ b.kind = "open" /\ b \in asked'
    BY <1>0, <1>1, Onward
  <2>2. /\ Repaints(sheet, sheet') /\ sheet'.status = sheet.status
        /\ sheet'.rows = sheet.rows /\ sheet'.late = sheet.late
    BY <1>0, <1>1 DEF Sheet, Repaints
  <2>3. \A c \in asked : c \in asked' \/ c = a
    BY <1>1
  <2> HIDE DEF b
  <2>4. Listed(sheet', asked')
    BY <1>0, <2>1, <2>2, <2>3 DEF PlacesInv, Listed, Repaints
  <2> QED
    BY <2>1, <2>2, <2>4, Repainted
<1>2. ASSUME NEW list \in {NoRows, Near},
             sheet' = RenderPlaces([sheet EXCEPT !.cache = list, !.late = late], list),
             asked' = asked \ {a}
      PROVE  PlacesInv'
  <2> DEFINE s == [sheet EXCEPT !.cache = list, !.late = late]
  <2>1. s \in Sheet /\ Repaints(sheet, s) /\ s.late = late
    BY <1>0, <1>2 DEF Sheet, Repaints
  <2>2. sheet' = RenderPlaces(s, list)
    BY <1>2
  <2> HIDE DEF s, late
  <2>3. /\ Repaints(sheet, sheet') /\ sheet'.late = late /\ sheet'.status \in {"empty", "hidden"}
        /\ sheet'.status = "hidden" => sheet'.rows = Near
    BY <1>2, <2>1, <2>2, Painted, Listing DEF Repaints
  <2>4. Listed(sheet', asked')
    BY <1>0, <2>3 DEF Listed, Repaints
  <2> QED
    BY <1>2, <2>3, <2>4, Fewer, Repainted
<1>3. CASE sheet' = [sheet EXCEPT !.status = "error", !.late = late] /\ asked' = asked \ {a}
  <2>1. Repaints(sheet, sheet') /\ sheet'.status = "error"
    BY <1>0, <1>3 DEF Sheet, Repaints
  <2>2. Listed(sheet', asked')
    BY <2>1 DEF Listed
  <2> QED
    BY <1>3, <2>1, <2>2, Fewer, Repainted
<1> QED
  BY <1>1, <1>2, <1>3 DEF OpenAnswer

LEMMA RefreshAnswered ==
  ASSUME PlacesInv, NEW a \in asked, RefreshAnswer(a)
  PROVE  PlacesInv'
<1>0. sheet \in Sheet /\ a.kind = "refresh"
  BY DEF PlacesInv, RefreshAnswer
<1>a. ASSUME Repaints(sheet, sheet'), sheet'.status = sheet.status,
             sheet'.rows = sheet.rows, sheet'.late = sheet.late,
             \A c \in asked : c \in asked' \/ c = a
      PROVE  Listed(sheet', asked')
  BY <1>0, <1>a DEF PlacesInv, Listed, Repaints
<1>1. CASE /\ sheet' = [sheet EXCEPT !.reloading = TRUE]
           /\ asked' = (asked \ {a}) \cup {[a EXCEPT !.step = "places"]}
  <2>1. RequestsTyped' /\ Searching(sheet, asked')
    BY <1>0, <1>1, Onward
  <2>2. /\ Repaints(sheet, sheet') /\ sheet'.status = sheet.status
        /\ sheet'.rows = sheet.rows /\ sheet'.late = sheet.late
    BY <1>0, <1>1 DEF Sheet, Repaints
  <2>3. \A c \in asked : c \in asked' \/ c = a
    BY <1>1
  <2> QED
    BY <1>a, <2>1, <2>2, <2>3, Repainted
<1>2. CASE /\ asked' = asked \ {a}
           /\ sheet' = sheet \/ sheet' = [sheet EXCEPT !.reloading = FALSE]
  <2>1. /\ Repaints(sheet, sheet') /\ sheet'.status = sheet.status
        /\ sheet'.rows = sheet.rows /\ sheet'.late = sheet.late
    BY <1>0, <1>2 DEF Sheet, Repaints
  <2> QED
    BY <1>2, <1>a, <2>1, Fewer, Repainted
<1>3. ASSUME asked' = asked \ {a}, NEW list \in {NoRows, Near},
             LET s == [sheet EXCEPT !.reloading = FALSE, !.cache = list, !.pos = TRUE]
             IN  sheet' = IF s.open /\ s.box = Blank THEN RenderPlaces(s, list) ELSE s
      PROVE  PlacesInv'
  <2> DEFINE s == [sheet EXCEPT !.reloading = FALSE, !.cache = list, !.pos = TRUE]
  <2>1. /\ Repaints(sheet, s) /\ s.late = sheet.late /\ s.status = sheet.status
        /\ s.rows = sheet.rows /\ s \in Sheet
    BY <1>0 DEF Sheet, Repaints
  <2>2. sheet' = IF s.open /\ s.box = Blank THEN RenderPlaces(s, list) ELSE s
    BY <1>3
  <2> HIDE DEF s
  <2>3. CASE s.open /\ s.box = Blank
    <3>1. /\ Repaints(sheet, sheet') /\ sheet'.status \in {"empty", "hidden"}
          /\ sheet'.status = "hidden" => sheet'.rows = Near
      BY <2>1, <2>2, <2>3, Painted, Listing DEF Repaints
    <3>2. Listed(sheet', asked')
      BY <2>1, <2>3, <3>1 DEF Listed, Repaints
    <3> QED
      BY <1>3, <3>1, <3>2, Fewer, Repainted
  <2>4. CASE ~(s.open /\ s.box = Blank)
    <3>1. sheet' = s
      BY <2>2, <2>4
    <3> QED
      BY <1>3, <1>a, <2>1, <3>1, Fewer, Repainted
  <2> QED
    BY <2>3, <2>4
<1> QED
  BY <1>1, <1>2, <1>3 DEF RefreshAnswer

LEMMA TypeStep ==
  ASSUME PlacesInv, NEW q \in Boxes, Type(q)
  PROVE  PlacesInv'
<1> DEFINE n == sheet.typed + 1
           k == sheet.seq + 1
           s == [sheet EXCEPT !.box = q, !.typed = n, !.timer = Blank]
           u == [s EXCEPT !.seq = k]
           c == RenderPlaces(u, s.cache)
<1>0. sheet \in Sheet /\ n \in Nat /\ k \in Nat /\ k > sheet.seq /\ Blank \in Boxes
  BY DEF PlacesInv, Sheet, Boxes
<1>1. /\ sheet' = IF q = Blank THEN [Cleared(s) EXCEPT !.late = FALSE]
                  ELSE [s EXCEPT !.timer = q]
      /\ UNCHANGED asked
  BY DEF Type
<1> HIDE DEF n
<1>2. /\ s \in Sheet /\ s.box = q /\ s.timer = Blank /\ s.seq = sheet.seq
      /\ s.cache \in {NoRows, Near}
  BY <1>0 DEF Sheet
<1>3. RequestsTyped'
  BY <1>1 DEF PlacesInv, RequestsTyped
<1>4. CASE q = Blank
  <2>1. Cleared(s) = c
    BY <1>2 DEF Cleared
  <2> HIDE DEF s, k
  <2>2. u \in Sheet /\ u.box = q /\ u.timer = Blank /\ u.seq = k
    BY <1>0, <1>2 DEF Sheet
  <2> HIDE DEF u
  <2>3. /\ c \in Sheet /\ c.box = q /\ c.timer = Blank /\ c.seq = k
        /\ c.status \in {"empty", "hidden"}
        /\ c.status = "hidden" => c.rows = Near
    BY <1>2, <2>2, Painted, Listing
  <2> HIDE DEF c
  <2>4. /\ sheet' \in Sheet /\ sheet'.box = Blank /\ sheet'.timer = Blank /\ sheet'.seq = k
        /\ sheet'.status = c.status /\ sheet'.rows = c.rows
    BY <1>1, <1>4, <2>1, <2>3 DEF Sheet
  <2>5. Searching(sheet', asked')
    <3>1. \A a \in asked : a.kind = "search" => a.id <= sheet.seq /\ a.id \in Nat
      BY DEF PlacesInv, Searching, RequestsTyped
    <3>2. sheet.seq \in Nat
      BY <1>0 DEF Sheet
    <3> QED
      BY <1>0, <1>1, <2>4, <3>1, <3>2 DEF Searching
  <2>6. Listed(sheet', asked')
    <3>1. c.status # "busy" /\ (c.status = "hidden" => c.rows = Near)
      BY <2>3
    <3> QED
      BY <2>4, <3>1 DEF Listed
  <2> QED
    BY <1>3, <2>4, <2>5, <2>6 DEF PlacesInv
<1>5. CASE q # Blank
  <2> HIDE DEF s
  <2>1. /\ sheet' \in Sheet /\ sheet'.box = q /\ sheet'.timer = q /\ sheet'.seq = sheet.seq
    BY <1>1, <1>2, <1>5 DEF Sheet
  <2>2. Searching(sheet', asked') /\ Listed(sheet', asked')
    BY <1>1, <1>5, <2>1 DEF PlacesInv, Searching, Listed
  <2> QED
    BY <1>3, <2>1, <2>2 DEF PlacesInv
<1> QED
  BY <1>4, <1>5

LEMMA SearchStep ==
  ASSUME PlacesInv, Search
  PROVE  PlacesInv'
<1> DEFINE k == sheet.seq + 1
           q == sheet.timer
           s == [sheet EXCEPT !.timer = Blank, !.seq = k]
           new == [kind |-> "search", query |-> q, id |-> k]
<1>0. /\ sheet \in Sheet /\ k \in Nat /\ k > sheet.seq /\ Blank \in Boxes
      /\ q = sheet.box /\ q \in Queries
  BY DEF PlacesInv, Sheet, Boxes, Search
<1>1. \/ /\ sheet' = [s EXCEPT !.rows = NoRows, !.status = "busy"]
         /\ asked' = asked \cup {[kind |-> "search", query |-> q, id |-> s.seq]}
      \/ /\ sheet' = [s EXCEPT !.status = "error"]
         /\ UNCHANGED asked
  BY DEF Search
<1>2. \A a \in asked : a.kind = "search" => a.id \in Nat /\ a.id < k
  <2>1. \A a \in asked : a.kind = "search" => a.id <= sheet.seq /\ a.id \in Nat
    BY DEF PlacesInv, Searching, RequestsTyped
  <2>2. sheet.seq \in Nat
    BY <1>0 DEF Sheet
  <2> QED
    BY <1>0, <2>1, <2>2
<1> HIDE DEF k, q
<1>3. s \in Sheet /\ s.box = sheet.box /\ s.timer = Blank /\ s.seq = k
  BY <1>0 DEF Sheet
<1>4. /\ new \in [kind : {"search"}, query : Queries, id : Nat] /\ new.kind = "search"
      /\ new.query = q /\ new.id = k
  BY <1>0
<1> HIDE DEF s
<1>5. CASE /\ sheet' = [s EXCEPT !.rows = NoRows, !.status = "busy"]
           /\ asked' = asked \cup {[kind |-> "search", query |-> q, id |-> s.seq]}
  <2>1. asked' = asked \cup {new}
    BY <1>3, <1>5
  <2> HIDE DEF new
  <2>2. /\ sheet' \in Sheet /\ sheet'.box = sheet.box /\ sheet'.timer = Blank
        /\ sheet'.seq = k /\ sheet'.status = "busy"
    BY <1>3, <1>5, Listing DEF Sheet
  <2>3. RequestsTyped'
    BY <1>4, <2>1 DEF PlacesInv, RequestsTyped
  <2>4. Searching(sheet', asked')
    BY <1>0, <1>2, <1>4, <2>1, <2>2 DEF Searching
  <2>5. Listed(sheet', asked')
    BY <1>4, <2>1, <2>2 DEF Listed
  <2> QED
    BY <2>2, <2>3, <2>4, <2>5 DEF PlacesInv
<1>6. CASE sheet' = [s EXCEPT !.status = "error"] /\ UNCHANGED asked
  <2>1. /\ sheet' \in Sheet /\ sheet'.box = sheet.box /\ sheet'.timer = Blank
        /\ sheet'.seq = k /\ sheet'.status = "error"
    BY <1>3, <1>6 DEF Sheet
  <2>2. RequestsTyped'
    BY <1>6 DEF PlacesInv, RequestsTyped
  <2>3. Searching(sheet', asked')
    BY <1>0, <1>2, <1>6, <2>1 DEF Searching
  <2>4. Listed(sheet', asked')
    BY <2>1 DEF Listed
  <2> QED
    BY <2>1, <2>2, <2>3, <2>4 DEF PlacesInv
<1> QED
  BY <1>1, <1>5, <1>6

LEMMA SearchAnswered ==
  ASSUME PlacesInv, NEW a \in asked, SearchAnswer(a)
  PROVE  PlacesInv'
<1>0. /\ sheet \in Sheet /\ a.kind = "search" /\ asked' = asked \ {a}
      /\ a.query \in Queries
  BY DEF PlacesInv, SearchAnswer, RequestsTyped
<1>1. CASE Newest(a)
  <2>1. sheet.timer = Blank => a.query = sheet.box
    BY <1>0, <1>1 DEF PlacesInv, Searching, Newest
  <2>2. ASSUME NEW list \in {NoRows, a.query},
               sheet' = RenderPlaces([sheet EXCEPT !.late = FALSE], list)
        PROVE  PlacesInv'
    <3> DEFINE s == [sheet EXCEPT !.late = FALSE]
    <3>1. Repaints(sheet, s) /\ s \in Sheet /\ s.late = FALSE
      BY <1>0 DEF Sheet, Repaints
    <3>0. sheet' = RenderPlaces(s, list) /\ list \in Listings
      BY <1>0, <2>2, Listing
    <3> HIDE DEF s
    <3>2. /\ Repaints(sheet, sheet') /\ sheet'.status \in {"empty", "hidden"}
          /\ sheet'.status = "hidden" => sheet'.rows = list /\ list = a.query
      BY <2>2, <3>0, <3>1, Painted DEF Repaints
    <3>3. Listed(sheet', asked')
      BY <1>0, <2>1, <3>2, PlacesBounds DEF Listed, Repaints
    <3> QED
      BY <1>0, <3>2, <3>3, Fewer, Repainted
  <2>3. CASE sheet' = [sheet EXCEPT !.status = "error", !.late = FALSE]
    <3>1. Repaints(sheet, sheet') /\ sheet'.status = "error"
      BY <1>0, <2>3 DEF Sheet, Repaints
    <3>2. Listed(sheet', asked')
      BY <3>1 DEF Listed
    <3> QED
      BY <1>0, <3>1, <3>2, Fewer, Repainted
  <2> QED
    BY <1>1, <2>2, <2>3 DEF SearchAnswer
<1>2. CASE ~Newest(a)
  <2>1. sheet' = sheet
    BY <1>2 DEF SearchAnswer
  <2>2. Listed(sheet', asked') /\ Repaints(sheet, sheet')
    BY <1>0, <1>2, <2>1 DEF PlacesInv, Listed, Newest, Repaints
  <2> QED
    BY <1>0, <2>2, Fewer, Repainted
<1> QED
  BY <1>1, <1>2

LEMMA PlacesStart == PlacesInit => PlacesInv
<1> SUFFICES ASSUME PlacesInit PROVE PlacesInv
  OBVIOUS
<1>1. sheet \in Sheet
  BY DEF PlacesInit, Sheet, Boxes, Listings
<1> QED
  BY <1>1 DEF PlacesInit, PlacesInv, RequestsTyped, Searching, Listed

LEMMA PlacesStep ==
  ASSUME PlacesInv, [PlacesNext]_placesVars
  PROVE  PlacesInv'
<1>1. CASE OpenPlaces \/ ClosePlaces \/ PickPlace \/ Search
  BY <1>1, OpenStep, Shut, SearchStep DEF PickPlace
<1>2. ASSUME NEW q \in Queries \cup {Blank}, Type(q) PROVE PlacesInv'
  BY <1>2, TypeStep DEF Boxes
<1>3. ASSUME NEW a \in asked, OpenAnswer(a) \/ RefreshAnswer(a) \/ SearchAnswer(a)
      PROVE  PlacesInv'
  BY <1>3, OpenAnswered, RefreshAnswered, SearchAnswered
<1>4. CASE UNCHANGED placesVars
  BY <1>4 DEF placesVars, PlacesInv, RequestsTyped, Searching, Listed
<1> QED
  BY <1>1, <1>2, <1>3, <1>4 DEF PlacesNext

\* However many openings, refreshes and searches are under way and in whatever order they
\* answer, the list of places that has settled is that of the box above it, unless the
\* answer to an opening that found no cache has painted over a search (lobby-screen.js).
THEOREM NewestQueryKept == PlacesSpec => []ListMatchesQuery
<1>1. PlacesInv /\ [PlacesNext]_placesVars => PlacesInv'
  BY PlacesStep
<1>2. PlacesInv => ListMatchesQuery
  BY DEF PlacesInv, Listed, ListMatchesQuery
<1> QED
  BY <1>1, <1>2, PlacesStart, PTL DEF PlacesSpec

-----------------------------------------------------------------------------
(* The screens: which one is in view.                                      *)

View ==
  [active : Ids, soon : Seq(Task), hist : Seq(Paths), at : Nat, token : Nat,
   fetching : SUBSET (Nat \X Ids), sheet : {"closed", "open", "closing"}, finishes : Nat,
   net : {"none", "asked", "live", "lost"}, started : BOOLEAN,
   origin : {"none", "landing", "join", "nearby"}, saved : BOOLEAN, ending : BOOLEAN,
   rewritten : BOOLEAN, overtaken : BOOLEAN, moves : Nat, frames : Nat]

\* No navigation is ahead of the latest one.
Counted(p) ==
  /\ \A f \in p.fetching : f[1] <= p.token
  /\ \A i \in DOMAIN p.soon : p.soon[i].token <= p.token

Placed(p) == p \in View /\ p.at \in DOMAIN p.hist /\ Counted(p)

Commits(p, i, to) == p.soon[i].do = "commit" /\ p.soon[i].to = to

\* The sheet is over the landing screen, or that is about to come.
SheetFits(p) ==
  p.sheet # "closed" =>
    p.active = "landing" \/ \E i \in DOMAIN p.soon : Commits(p, i, "landing")

\* Where the address leads.
Target(p) == Route(Url(p))

\* A fetch that is waited for, and one that has been navigated away from.
Waits(p, i) == p.soon[i].do = "fetched" /\ p.soon[i].token = p.token
Stale(p, i) == p.soon[i].do = "fetched" /\ p.soon[i].token < p.token

\* A swap is under way, or that screen is in view.
Nears(p, id) == (\E i \in DOMAIN p.soon : p.soon[i].do = "commit") \/ p.active = id

Fetching(p) == \A f \in p.fetching : f[1] = p.token => f[2] = Target(p)

\* Whatever swap or fetch still counts is to where the address leads.
Heading(p) ==
  /\ Fetching(p) /\ Nears(p, Target(p))
  /\ \A i \in DOMAIN p.soon :
       Stale(p, i) \/ Commits(p, i, Target(p)) \/ (Waits(p, i) /\ p.soon[i].to = Target(p))

\* The loading screen waits for a fetch.
Loading(p) ==
  /\ Fetching(p) /\ Nears(p, "loading") /\ Url(p) \in Fetched
  /\ (\E f \in p.fetching : f[1] = p.token) \/ \E i \in DOMAIN p.soon : Waits(p, i)
  /\ \A i \in DOMAIN p.soon :
       Stale(p, i) \/ Commits(p, i, "loading") \/ (Waits(p, i) /\ p.soon[i].to = Target(p))
  /\ \A i, j \in DOMAIN p.soon : Waits(p, i) /\ p.soon[j].do = "commit" => j < i

\* The page comes up, or back from the server.
Returning(p) ==
  /\ p.fetching = {} /\ Len(p.soon) = 1 /\ p.soon[1].to = Target(p)
  /\ \/ p.soon[1].do \in {"show", "refused", "activate"}
     \/ p.soon[1].do = "join" /\ Target(p) = "landing"

\* The last board of a game that has ended.
Resting(p) == p.ending /\ p.soon = <<>> /\ p.fetching = {} /\ Url(p) = "/"

Alone(p) == Resting(p) \/ (~p.ending /\ (Heading(p) \/ Loading(p) \/ Returning(p)))

\* Who asks for a game is where a refusal leads back to.
Asking(p) ==
  p.origin # "none" /\ Target(p) = IF p.origin = "nearby" THEN "nearby" ELSE "landing"

Playing(p) == Url(p) = "/" /\ p.saved

ViewFits(p) ==
  ~p.overtaken =>
    /\ p.net # "none" => ~p.ending
    /\ p.net \in {"live", "lost"} => Playing(p)
    /\ p.net = "asked" /\ ~p.rewritten => Asking(p)
    /\ p.net = "none" /\ ~p.rewritten => Alone(p)

ScreensInv == Placed(page) /\ SheetFits(page) /\ ViewFits(page)

-----------------------------------------------------------------------------
(* Routes and sequences.                                                   *)

LEMMA RouteIs ==
  /\ Route("/") = "landing" /\ Route("/join") = "landing" /\ Route("/nearby") = "nearby"
  /\ \A path \in Paths : Route(path) \in {"landing", "nearby", "profile", "game-detail"}
  /\ Fetched = {"/@name", "/games"}
  /\ Route("/@name") = "profile" /\ Route("/games") = "game-detail"
BY DEF Route, Paths, Fetched

LEMMA UrlIs ==
  ASSUME NEW p \in View, p.at \in DOMAIN p.hist
  PROVE  Url(p) \in Paths /\ Target(p) \in {"landing", "nearby", "profile", "game-detail"}
<1>1. Url(p) \in Paths
  BY DEF View, Url
<1> QED
  BY <1>1, RouteIs DEF Target

LEMMA Appended ==
  ASSUME NEW S, NEW s \in Seq(S), NEW a \in S, NEW t, t = Append(s, a)
  PROVE  /\ t \in Seq(S) /\ Len(s) \in Nat /\ Len(t) = Len(s) + 1
         /\ DOMAIN s = 1..Len(s) /\ DOMAIN t = 1..(Len(s) + 1)
         /\ \A i \in DOMAIN s : t[i] = s[i]
         /\ t[Len(s) + 1] = a
OBVIOUS

\* t is u and then v, of m and n elements of S.
Ends(S, u, v, m, n, t) ==
  /\ t \in Seq(S) /\ Len(t) = m + n /\ DOMAIN t = 1..(m + n)
  /\ \A j \in 1..m : t[j] = u[j]
  /\ \A j \in (m + 1)..(m + n) : t[j] = v[j - m]

LEMMA Joined ==
  ASSUME NEW S, NEW u \in Seq(S), NEW v \in Seq(S), NEW t, t = u \o v
  PROVE  Ends(S, u, v, Len(u), Len(v), t)
BY DEF Ends

\* t is s, in Seq(S), without its i-th element.
Without(S, s, i, t) ==
  /\ t \in Seq(S) /\ Len(t) = Len(s) - 1
  /\ DOMAIN t = 1..(Len(s) - 1) /\ DOMAIN s = 1..Len(s) /\ Len(s) \in Nat
  /\ \A j \in DOMAIN t : t[j] = s[IF j < i THEN j ELSE j + 1]
  /\ \A k \in DOMAIN s : k # i => /\ (IF k < i THEN k ELSE k - 1) \in DOMAIN t
                                  /\ t[IF k < i THEN k ELSE k - 1] = s[k]

\* RemoveAt of the community modules.
LEMMA Removed ==
  ASSUME NEW S, NEW s \in Seq(S), NEW i \in DOMAIN s, NEW t, t = RemoveAt(s, i)
  PROVE  Without(S, s, i, t)
<1>1. Len(s) \in Nat /\ i \in 1..Len(s) /\ DOMAIN s = 1..Len(s)
  OBVIOUS
<1> DEFINE u == SubSeq(s, 1, i - 1)
           v == SubSeq(s, i + 1, Len(s))
<1>2. t = u \o v
  BY DEF RemoveAt
<1>3. u \in Seq(S) /\ Len(u) = i - 1 /\ \A j \in 1..(i - 1) : u[j] = s[j]
  BY <1>1
<1>4. v \in Seq(S) /\ Len(v) = Len(s) - i /\ \A j \in 1..(Len(s) - i) : v[j] = s[j + i]
  BY <1>1
<1> HIDE DEF u, v
<1>5. /\ t \in Seq(S) /\ Len(t) = Len(s) - 1 /\ DOMAIN t = 1..(Len(s) - 1)
      /\ \A j \in 1..(i - 1) : t[j] = u[j]
      /\ \A j \in i..(Len(s) - 1) : t[j] = v[j - (i - 1)]
  <2>1. Len(u) = i - 1 /\ Len(v) = Len(s) - i
    BY <1>3, <1>4
  <2>2. u \in Seq(S) /\ v \in Seq(S)
    BY <1>3, <1>4
  <2>3. Ends(S, u, v, i - 1, Len(s) - i, t)
    BY <1>2, <2>1, <2>2, Joined
  <2> QED
    BY <1>1, <2>3 DEF Ends
<1>6. ASSUME NEW j \in 1..(Len(s) - 1) PROVE t[j] = s[IF j < i THEN j ELSE j + 1]
  <2>1. CASE j < i
    BY <1>1, <1>3, <1>5, <2>1
  <2>2. CASE j >= i
    <3>1. t[j] = v[j - (i - 1)] /\ j - (i - 1) \in 1..(Len(s) - i)
      BY <1>1, <1>5, <2>2
    <3>2. v[j - (i - 1)] = s[j - (i - 1) + i] /\ j - (i - 1) + i = j + 1
      BY <1>1, <1>4, <3>1
    <3> QED
      BY <1>1, <2>2, <3>1, <3>2
  <2> QED
    BY <1>1, <2>1, <2>2
<1>7. ASSUME NEW k \in DOMAIN s, k # i
      PROVE  /\ (IF k < i THEN k ELSE k - 1) \in DOMAIN t
             /\ t[IF k < i THEN k ELSE k - 1] = s[k]
  <2>1. CASE k < i
    BY <1>1, <1>5, <1>6, <2>1
  <2>2. CASE k > i
    <3>1. k - 1 \in 1..(Len(s) - 1) /\ ~(k - 1 < i) /\ k - 1 + 1 = k
      BY <1>1, <2>2
    <3>2. t[k - 1] = s[k]
      BY <1>6, <3>1
    <3> QED
      BY <1>1, <1>5, <2>2, <3>1, <3>2
  <2> QED
    BY <1>1, <1>7, <2>1, <2>2
<1> QED
  BY <1>1, <1>5, <1>6, <1>7 DEF Without

-----------------------------------------------------------------------------
(* What a swap and the sheet leave alone of the page.                      *)

\* The address is rewritten in step with the sheet, or else the ghost says so.
Readdressed(p, q) ==
  /\ p.rewritten => q.rewritten
  /\ Url(q) \in {Url(p), "/"}
  /\ q.rewritten \/ Url(q) = Url(p) \/ Url(p) = "/join"

Way(p, q) ==
  /\ q \in View /\ q.at \in DOMAIN q.hist /\ Readdressed(p, q)
  /\ q.token = p.token /\ q.fetching = p.fetching /\ q.net = p.net /\ q.origin = p.origin
  /\ q.saved = p.saved /\ q.ending = p.ending /\ q.overtaken = p.overtaken

Drawn(p) == p \in View /\ p.at \in DOMAIN p.hist

LEMMA WayTarget ==
  ASSUME NEW p, Drawn(p), NEW q, Way(p, q)
  PROVE  /\ q.rewritten \/ Target(q) = Target(p)
         /\ q.rewritten \/ Url(p) \notin Fetched \/ Url(q) \in Fetched
         /\ Url(p) = "/" => Url(q) = "/"
BY RouteIs, UrlIs DEF Way, Readdressed, Target, Drawn

LEMMA WayOn == ASSUME NEW p, NEW q, Way(p, q), NEW r, Way(q, r) PROVE Way(p, r)
BY DEF Way, Readdressed

LEMMA OnClosedIs ==
  ASSUME NEW p, Drawn(p)
  PROVE  LET q == OnClosed(p)
         IN  /\ Way(p, q) /\ q.soon = p.soon /\ q.active = p.active /\ q.sheet = p.sheet
<1>1. CASE Url(p) = "/"
  BY <1>1 DEF OnClosed, Way, Readdressed, Drawn
<1>2. CASE Url(p) # "/"
  <2> DEFINE h == [p.hist EXCEPT ![p.at] = "/"]
             q == [p EXCEPT !.hist = h, !.rewritten = p.rewritten \/ Url(p) # "/join"]
  <2>1. OnClosed(p) = q
    BY <1>2 DEF OnClosed, Replace, Drawn, View
  <2>2. h \in Seq(Paths) /\ DOMAIN h = DOMAIN p.hist /\ h[p.at] = "/"
    BY DEF Drawn, View, Paths
  <2> HIDE DEF h
  <2>3. /\ q \in View /\ q.hist = h /\ q.at = p.at
        /\ q.rewritten = (p.rewritten \/ Url(p) # "/join")
        /\ q.token = p.token /\ q.fetching = p.fetching /\ q.net = p.net /\ q.origin = p.origin
        /\ q.saved = p.saved /\ q.ending = p.ending /\ q.overtaken = p.overtaken
        /\ q.soon = p.soon /\ q.active = p.active /\ q.sheet = p.sheet
    BY <2>2 DEF Drawn, View
  <2> HIDE DEF q
  <2>4. Url(q) = "/"
    BY <2>2, <2>3 DEF Url
  <2>5. Way(p, q) /\ q.soon = p.soon /\ q.active = p.active /\ q.sheet = p.sheet
    BY <2>2, <2>3, <2>4 DEF Way, Readdressed, Drawn
  <2> QED
    BY <2>1, <2>5 DEF q
<1> QED
  BY <1>1, <1>2

LEMMA CloseNowIs ==
  ASSUME NEW p, Drawn(p)
  PROVE  LET q == CloseNow(p)
         IN  Way(p, q) /\ q.soon = p.soon /\ q.active = p.active /\ q.sheet = "closed"
<1>1. CASE p.sheet = "closed"
  BY <1>1 DEF CloseNow, Way, Readdressed, Drawn
<1>2. CASE p.sheet # "closed"
  <2> DEFINE r == [p EXCEPT !.sheet = "closed"]
  <2>1. Way(p, r) /\ Drawn(r) /\ r.soon = p.soon /\ r.active = p.active /\ r.sheet = "closed"
    BY DEF Way, Readdressed, Drawn, View, Url
  <2>2. CloseNow(p) = OnClosed(r)
    BY <1>2 DEF CloseNow
  <2> HIDE DEF r
  <2> QED
    BY <2>1, <2>2, OnClosedIs, WayOn
<1> QED
  BY <1>1, <1>2

LEMMA CommitIs ==
  ASSUME NEW p, Drawn(p), NEW id \in Ids
  PROVE  LET q == Commit(p, id)
         IN  /\ Way(p, q) /\ q.soon = p.soon /\ q.active = id
             /\ \/ q.sheet = "closed"
                \/ q.sheet = p.sheet /\ (p.active # "landing" \/ id = "landing")
<1>1. PICK r : /\ Commit(p, id) = [r EXCEPT !.active = id]
               /\ Way(p, r) /\ r.soon = p.soon
               /\ \/ r.sheet = "closed"
                  \/ r.sheet = p.sheet /\ (p.active # "landing" \/ id = "landing")
  <2>1. CASE p.active = "landing" /\ id # "landing"
    <3>1. Commit(p, id) = [CloseNow(p) EXCEPT !.active = id]
      BY <2>1 DEF Commit
    <3> QED
      BY <3>1, CloseNowIs
  <2>2. CASE ~(p.active = "landing" /\ id # "landing")
    <3>1. Commit(p, id) = [p EXCEPT !.active = id]
      BY <2>2 DEF Commit
    <3>2. Way(p, p)
      BY DEF Way, Readdressed, Drawn
    <3> QED
      BY <2>2, <3>1, <3>2
  <2> QED
    BY <2>1, <2>2
<1> DEFINE q == [r EXCEPT !.active = id]
<1>2. Way(r, q) /\ q.soon = r.soon /\ q.active = id /\ q.sheet = r.sheet
  BY <1>1 DEF Way, Readdressed, View, Url
<1> HIDE DEF q
<1> QED
  BY <1>1, <1>2, WayOn DEF q

\* Queued(p, q, do, to): q is p with one more thing to be done.
Queued(p, q, do, to) ==
  Way(p, q) /\ q.soon = Append(p.soon, [do |-> do, to |-> to, token |-> p.token])

Dos == {"commit", "show", "fetched", "refused", "join", "activate"}

LEMMA LaterIs ==
  ASSUME NEW p, Drawn(p), NEW do \in Dos, NEW id \in Ids
  PROVE  LET q == Later(p, do, id)
         IN  /\ Queued(p, q, do, id) /\ q.active = p.active /\ q.sheet = p.sheet
             /\ Url(q) = Url(p) /\ q.rewritten = p.rewritten
<1> DEFINE a == [do |-> do, to |-> id, token |-> p.token]
           s == Append(p.soon, a)
           q == [p EXCEPT !.soon = s]
<1>1. a \in Task
  BY DEF Task, Dos, Drawn, View
<1>2. s \in Seq(Task)
  BY <1>1 DEF Drawn, View
<1> HIDE DEF s
<1>3. q \in View /\ q.soon = s /\ q.active = p.active /\ q.sheet = p.sheet
  BY <1>2 DEF Drawn, View
<1>4. Way(p, q) /\ Url(q) = Url(p) /\ q.rewritten = p.rewritten
  BY <1>3 DEF Way, Readdressed, Drawn, View, Url
<1>5. Later(p, do, id) = q
  BY DEF Later, Drawn, View, s
<1> QED
  BY <1>3, <1>4, <1>5 DEF Queued, s

LEMMA ShowScreenIs ==
  ASSUME NEW p, Drawn(p), NEW id \in Ids
  PROVE  LET q == ShowScreen(p, id)
         IN  /\ Way(p, q) /\ q.active = p.active /\ q.sheet = p.sheet
             /\ Url(q) = Url(p) /\ q.rewritten = p.rewritten
             /\ \/ p.active = id /\ q.soon = p.soon
                \/ Queued(p, q, "commit", id)
<1>1. CASE p.active = id
  <2>1. ShowScreen(p, id) = p
    BY <1>1 DEF ShowScreen
  <2>2. Way(p, p)
    BY DEF Way, Readdressed, Drawn
  <2> QED
    BY <1>1, <2>1, <2>2
<1>2. CASE p.active # id
  <2>1. ShowScreen(p, id) = Later(p, "commit", id) /\ "commit" \in Dos
    BY <1>2 DEF ShowScreen, Dos
  <2> QED
    BY <2>1, LaterIs DEF Queued
<1> QED
  BY <1>1, <1>2

\* The page with its sheet that way and n slide-outs under way.
SheetSet(p, how, n) == [p EXCEPT !.sheet = how, !.finishes = n]

LEMMA SheetSetIs ==
  ASSUME NEW p, Drawn(p), NEW how \in {"closed", "open", "closing"}, NEW n \in Nat
  PROVE  LET q == SheetSet(p, how, n)
         IN  /\ Way(p, q) /\ q.soon = p.soon /\ q.active = p.active /\ Url(q) = Url(p)
             /\ q.rewritten = p.rewritten /\ q.sheet = how
<1> DEFINE q == [p EXCEPT !.sheet = how, !.finishes = n]
<1>1. /\ q \in View /\ q.hist = p.hist /\ q.at = p.at /\ q.rewritten = p.rewritten
      /\ q.token = p.token /\ q.fetching = p.fetching /\ q.net = p.net /\ q.origin = p.origin
      /\ q.saved = p.saved /\ q.ending = p.ending /\ q.overtaken = p.overtaken
      /\ q.soon = p.soon /\ q.active = p.active /\ q.sheet = how
  BY DEF Drawn, View
<1> HIDE DEF q
<1>2. /\ Way(p, q) /\ q.soon = p.soon /\ q.active = p.active /\ Url(q) = Url(p)
      /\ q.rewritten = p.rewritten /\ q.sheet = how
  BY <1>1 DEF Way, Readdressed, Drawn, Url
<1> QED
  BY <1>2 DEF SheetSet, q

LEMMA OpenSheetIs ==
  ASSUME NEW p, Drawn(p)
  PROVE  LET q == OpenSheet(p)
         IN  /\ Way(p, q) /\ q.soon = p.soon /\ q.active = p.active /\ Url(q) = Url(p)
             /\ q.rewritten = p.rewritten
<1>1. p.finishes \in Nat /\ p.sheet \in {"closed", "open", "closing"} /\ "open" # "closed"
  BY DEF Drawn, View
<1>2. OpenSheet(p) \in {SheetSet(p, "open", p.finishes), SheetSet(p, p.sheet, p.finishes)}
  BY DEF OpenSheet, SheetSet, Drawn, View
<1>3. CASE OpenSheet(p) = SheetSet(p, "open", p.finishes)
  BY <1>1, <1>3, SheetSetIs
<1>4. CASE OpenSheet(p) = SheetSet(p, p.sheet, p.finishes)
  BY <1>1, <1>4, SheetSetIs
<1> QED
  BY <1>2, <1>3, <1>4

LEMMA CloseSheetIs ==
  ASSUME NEW p, Drawn(p)
  PROVE  LET q == CloseSheet(p)
         IN  /\ Way(p, q) /\ q.soon = p.soon /\ q.active = p.active
             /\ q.sheet # "closed" => p.sheet # "closed"
<1>1. /\ p.finishes \in Nat /\ p.finishes + 1 \in Nat
      /\ p.sheet \in {"closed", "open", "closing"}
  BY DEF Drawn, View
<1>2. \/ p.sheet = "open" /\ CloseSheet(p) = SheetSet(p, "closing", p.finishes + 1)
      \/ CloseSheet(p) = SheetSet(p, p.sheet, p.finishes)
  BY DEF CloseSheet, SheetSet, Drawn, View
<1>3. CASE p.sheet = "open" /\ CloseSheet(p) = SheetSet(p, "closing", p.finishes + 1)
  BY <1>1, <1>3, SheetSetIs
<1>4. CASE CloseSheet(p) = SheetSet(p, p.sheet, p.finishes)
  BY <1>1, <1>4, SheetSetIs
<1> QED
  BY <1>2, <1>3, <1>4

-----------------------------------------------------------------------------
(* What is left to be done, and the sheet.                                 *)

Base(p) == Placed(p) /\ SheetFits(p)

LEMMA BaseDrawn == ASSUME NEW p, Base(p) PROVE Drawn(p)
BY DEF Base, Placed, Drawn

LEMMA BaseStays ==
  ASSUME NEW p, Base(p), NEW q, Way(p, q), q.soon = p.soon, q.active = p.active,
         q.sheet # "closed" => p.sheet # "closed"
  PROVE  Base(q)
BY DEF Base, Placed, Counted, SheetFits, Way, Commits

LEMMA QueuedIs ==
  ASSUME NEW p, Placed(p), NEW do \in Dos, NEW id \in Ids, NEW q, Queued(p, q, do, id)
  PROVE  /\ Placed(q) /\ DOMAIN q.soon = 1..(Len(p.soon) + 1)
         /\ DOMAIN p.soon = 1..Len(p.soon) /\ Len(p.soon) \in Nat
         /\ \A i \in DOMAIN p.soon : q.soon[i] = p.soon[i]
         /\ q.soon[Len(p.soon) + 1].do = do /\ q.soon[Len(p.soon) + 1].to = id
         /\ q.soon[Len(p.soon) + 1].token = p.token
<1> DEFINE a == [do |-> do, to |-> id, token |-> p.token]
<1>1. a \in Task /\ a.do = do /\ a.to = id /\ a.token = p.token
  BY DEF Task, Dos, Placed, View
<1> HIDE DEF a
<1>2. p.soon \in Seq(Task) /\ q.soon = Append(p.soon, a)
  BY DEF Placed, View, Queued, a
<1>3. /\ Len(p.soon) \in Nat
      /\ DOMAIN p.soon = 1..Len(p.soon) /\ DOMAIN q.soon = 1..(Len(p.soon) + 1)
      /\ \A i \in DOMAIN p.soon : q.soon[i] = p.soon[i]
      /\ q.soon[Len(p.soon) + 1] = a
  BY <1>1, <1>2, Appended
<1>4. p.token \in Nat /\ q.token = p.token /\ q.fetching = p.fetching
  BY DEF Placed, View, Queued, Way
<1>5. \A i \in DOMAIN q.soon : i \in DOMAIN p.soon \/ i = Len(p.soon) + 1
  BY <1>3
<1>6. Counted(q)
  BY <1>1, <1>3, <1>4, <1>5 DEF Counted, Placed
<1>7. Placed(q)
  BY <1>6 DEF Placed, Queued, Way
<1> QED
  BY <1>1, <1>3, <1>7

LEMMA BaseQueued ==
  ASSUME NEW p, Base(p), NEW do \in Dos, NEW id \in Ids, NEW q, Queued(p, q, do, id),
         q.active = p.active, q.sheet = p.sheet
  PROVE  Base(q)
<1>1. /\ Placed(q) /\ \A i \in DOMAIN p.soon : i \in DOMAIN q.soon /\ q.soon[i] = p.soon[i]
  BY QueuedIs DEF Base
<1> QED
  BY <1>1 DEF Base, SheetFits, Commits

LEMMA BaseLater ==
  ASSUME NEW p, Base(p), NEW do \in Dos, NEW id \in Ids
  PROVE  Base(Later(p, do, id))
BY BaseDrawn, LaterIs, BaseQueued

LEMMA BaseShows ==
  ASSUME NEW p, Base(p), NEW id \in Ids
  PROVE  Base(ShowScreen(p, id))
BY BaseDrawn, ShowScreenIs, BaseQueued, BaseStays DEF Dos

\* A swap is committed that was, or was not, left to be done.
LEMMA BaseCommit ==
  ASSUME NEW p, SheetFits(p), NEW r, Placed(r), r.sheet = p.sheet, r.active = p.active,
         NEW id \in Ids,
         id = "landing" \/ \A i \in DOMAIN p.soon :
           Commits(p, i, "landing") => \E j \in DOMAIN r.soon : Commits(r, j, "landing")
  PROVE  Base(Commit(r, id))
<1> DEFINE q == Commit(r, id)
<1>1. /\ Way(r, q) /\ q.soon = r.soon /\ q.active = id
      /\ \/ q.sheet = "closed"
         \/ q.sheet = r.sheet /\ (r.active # "landing" \/ id = "landing")
  BY CommitIs DEF Placed, Drawn
<1> HIDE DEF q
<1>2. Placed(q)
  BY <1>1 DEF Placed, Counted, Way
<1>3. SheetFits(q)
  BY <1>1 DEF SheetFits, Commits
<1> QED
  BY <1>2, <1>3 DEF Base, q

LEMMA ActivateIs ==
  ASSUME NEW p, Base(p), NEW id \in Ids
  PROVE  LET q == Activate(p, id)
         IN  /\ Base(q) /\ Way(p, q)
             /\ \/ q.soon = p.soon /\ q.active = id
                \/ Queued(p, q, "commit", id) /\ q.active = p.active
<1>1. CASE id = "nearby"
  <2>1. Activate(p, id) = Commit(p, id)
    BY <1>1 DEF Activate
  <2>2. Base(Commit(p, id))
    BY BaseCommit DEF Base
  <2> QED
    BY <2>1, <2>2, CommitIs, BaseDrawn
<1>2. CASE id # "nearby"
  <2>1. Activate(p, id) = ShowScreen(p, id)
    BY <1>2 DEF Activate
  <2> QED
    BY <2>1, BaseShows, ShowScreenIs, BaseDrawn
<1> QED
  BY <1>1, <1>2

\* The sheet opens over the landing screen, which is in view or has been asked for.
LEMMA OpenJoinIs ==
  ASSUME NEW p, Base(p)
  PROVE  LET q == OpenJoin(p)
         IN  /\ Base(q) /\ Way(p, q) /\ Url(q) = Url(p) /\ q.rewritten = p.rewritten
             /\ \/ q.soon = p.soon /\ q.active = "landing"
                \/ Queued(p, q, "commit", "landing") /\ q.active = p.active
<1> DEFINE r == ShowScreen(p, "landing")
           q == OpenSheet(r)
<1>1. "landing" \in Ids /\ "commit" \in Dos
  BY DEF Ids, Dos
<1>2. /\ Base(r) /\ Way(p, r) /\ r.active = p.active /\ Url(r) = Url(p)
      /\ r.rewritten = p.rewritten
      /\ \/ p.active = "landing" /\ r.soon = p.soon
         \/ Queued(p, r, "commit", "landing")
  BY <1>1, BaseShows, ShowScreenIs, BaseDrawn
<1> HIDE DEF r
<1>3. /\ Way(r, q) /\ q.soon = r.soon /\ q.active = r.active /\ Url(q) = Url(r)
      /\ q.rewritten = r.rewritten
  BY <1>2, BaseDrawn, OpenSheetIs
<1> HIDE DEF q
<1>4. Way(p, q)
  BY <1>2, <1>3, WayOn
<1>5. \/ q.soon = p.soon /\ q.active = "landing"
      \/ Queued(p, q, "commit", "landing") /\ q.active = p.active
  BY <1>2, <1>3, <1>4 DEF Queued
<1>6. Placed(q)
  BY <1>2, <1>3 DEF Base, Placed, Counted, Way
<1>7. SheetFits(q)
  <2>1. CASE q.active = "landing"
    BY <2>1 DEF SheetFits
  <2>2. CASE Queued(p, q, "commit", "landing")
    <3>1. Len(p.soon) + 1 \in DOMAIN q.soon /\ Commits(q, Len(p.soon) + 1, "landing")
      BY <1>1, <2>2, QueuedIs DEF Base, Commits
    <3> QED
      BY <3>1 DEF SheetFits
  <2> QED
    BY <1>5, <2>1, <2>2
<1>8. OpenJoin(p) = q
  BY DEF OpenJoin, q, r
<1> QED
  BY <1>2, <1>3, <1>4, <1>5, <1>6, <1>7, <1>8 DEF Base

-----------------------------------------------------------------------------
(* Where the page is heading.                                              *)

\* All that is left to be done leads to the target, or nowhere.
Aimed(p) ==
  /\ Fetching(p)
  /\ \A i \in DOMAIN p.soon :
       Stale(p, i) \/ Commits(p, i, Target(p)) \/ (Waits(p, i) /\ p.soon[i].to = Target(p))

LEMMA Heads ==
  ASSUME NEW p, Placed(p), Aimed(p), NEW q, Way(p, q), ~q.rewritten,
         NEW id, id = Target(p),
         \/ q.soon = p.soon /\ q.active = id
         \/ Queued(p, q, "commit", id)
  PROVE  Heading(q)
<1>1. Target(q) = Target(p) /\ q.token = p.token /\ q.fetching = p.fetching
  BY WayTarget DEF Placed, Drawn, Way
<1>2. Fetching(q)
  BY <1>1 DEF Fetching, Aimed
<1>3. CASE q.soon = p.soon /\ q.active = id
  BY <1>1, <1>2, <1>3 DEF Heading, Aimed, Nears, Stale, Commits, Waits
<1>4. CASE Queued(p, q, "commit", id)
  <2> DEFINE n == Len(p.soon) + 1
  <2>1. id \in Ids /\ "commit" \in Dos
    BY UrlIs DEF Placed, Ids, Dos
  <2>2. /\ n \in DOMAIN q.soon /\ Commits(q, n, id)
        /\ \A i \in DOMAIN q.soon : i = n \/ (i \in DOMAIN p.soon /\ q.soon[i] = p.soon[i])
    BY <1>4, <2>1, QueuedIs DEF Commits
  <2> HIDE DEF n
  <2>3. Nears(q, Target(q))
    BY <2>2 DEF Nears, Commits
  <2>4. \A i \in DOMAIN q.soon :
          Stale(q, i) \/ Commits(q, i, Target(q)) \/ (Waits(q, i) /\ q.soon[i].to = Target(q))
    BY <1>1, <2>2 DEF Aimed, Stale, Commits, Waits
  <2> QED
    BY <1>2, <2>3, <2>4 DEF Heading
<1> QED
  BY <1>3, <1>4

\* What the sheet does leaves the view alone.
LEMMA ViewStays ==
  ASSUME NEW p, Placed(p), ViewFits(p), NEW q, Way(p, q), q.soon = p.soon, q.active = p.active
  PROVE  ViewFits(q)
<1>1. CASE q.overtaken
  BY <1>1 DEF ViewFits
<1>2. CASE ~q.overtaken /\ q.rewritten
  BY <1>2, WayTarget DEF ViewFits, Way, Playing, Placed, Drawn
<1>3. CASE ~q.overtaken /\ ~q.rewritten
  <2>1. /\ ~p.overtaken /\ ~p.rewritten /\ Target(q) = Target(p)
        /\ Url(p) = "/" => Url(q) = "/"
        /\ Url(p) \in Fetched => Url(q) \in Fetched
    BY <1>3, WayTarget DEF Way, Readdressed, Placed, Drawn
  <2>2. q.token = p.token /\ q.fetching = p.fetching /\ q.net = p.net /\ q.origin = p.origin
        /\ q.saved = p.saved /\ q.ending = p.ending
    BY DEF Way
  <2>3. Alone(p) => Alone(q)
    <3>1. Fetching(p) => Fetching(q)
      BY <2>1, <2>2 DEF Fetching
    <3>2. \A id : Nears(p, id) => Nears(q, id)
      BY DEF Nears
    <3>3. \A i : /\ Stale(q, i) <=> Stale(p, i)
                 /\ Waits(q, i) <=> Waits(p, i)
                 /\ \A id : Commits(q, i, id) <=> Commits(p, i, id)
      BY <2>2 DEF Stale, Waits, Commits
    <3>4. Heading(p) => Heading(q)
      BY <2>1, <3>1, <3>2, <3>3 DEF Heading
    <3>5. Loading(p) => Loading(q)
      BY <2>1, <2>2, <3>1, <3>2, <3>3 DEF Loading
    <3>6. Returning(p) => Returning(q)
      BY <2>1, <2>2 DEF Returning
    <3>7. Resting(p) => Resting(q)
      BY <2>1, <2>2 DEF Resting
    <3> QED
      BY <2>2, <3>4, <3>5, <3>6, <3>7 DEF Alone
  <2> QED
    BY <1>3, <2>1, <2>2, <2>3 DEF ViewFits, Playing, Asking
<1> QED
  BY <1>1, <1>2, <1>3

\* As long as a game has a say, the address and the session matter only.
LEMMA AwayStays ==
  ASSUME NEW p, Placed(p), ViewFits(p), p.net # "none", NEW q, Way(p, q)
  PROVE  ViewFits(q)
BY WayTarget DEF ViewFits, Way, Readdressed, Playing, Asking, Placed, Drawn

-----------------------------------------------------------------------------
(* Swaps and waits that end.                                               *)

\* r is p without its i-th task.
Shorter(p, i, r) ==
  /\ Placed(r) /\ Way(p, r) /\ r.active = p.active /\ r.sheet = p.sheet
  /\ Url(r) = Url(p) /\ r.rewritten = p.rewritten
  /\ i \in Nat /\ DOMAIN r.soon \subseteq Nat /\ DOMAIN p.soon = 1..Len(p.soon)
  /\ Len(p.soon) \in Nat /\ Len(r.soon) = Len(p.soon) - 1
  /\ \A j \in DOMAIN r.soon :
       LET k == IF j < i THEN j ELSE j + 1
       IN  k \in DOMAIN p.soon /\ k # i /\ r.soon[j] = p.soon[k]
  /\ \A k \in DOMAIN p.soon : k # i => \E j \in DOMAIN r.soon : r.soon[j] = p.soon[k]

LEMMA TaskRemoved ==
  ASSUME NEW p, Placed(p), NEW i \in DOMAIN p.soon,
         NEW r, r = [p EXCEPT !.soon = RemoveAt(p.soon, i)]
  PROVE  Shorter(p, i, r)
<1> DEFINE t == RemoveAt(p.soon, i)
<1>1. p.soon \in Seq(Task)
  BY DEF Placed, View
<1>2. Without(Task, p.soon, i, t)
  BY <1>1, Removed
<1> HIDE DEF t
<1>3. /\ t \in Seq(Task) /\ Len(t) = Len(p.soon) - 1 /\ Len(p.soon) \in Nat
      /\ DOMAIN t = 1..(Len(p.soon) - 1) /\ DOMAIN p.soon = 1..Len(p.soon)
      /\ \A j \in DOMAIN t : t[j] = p.soon[IF j < i THEN j ELSE j + 1]
      /\ \A k \in DOMAIN p.soon : k # i =>
           /\ (IF k < i THEN k ELSE k - 1) \in DOMAIN t
           /\ t[IF k < i THEN k ELSE k - 1] = p.soon[k]
  BY <1>2 DEF Without
<1>4. /\ r \in View /\ r.soon = t /\ r.active = p.active /\ r.sheet = p.sheet
      /\ r.hist = p.hist /\ r.at = p.at /\ r.token = p.token /\ r.fetching = p.fetching
      /\ r.rewritten = p.rewritten
  BY <1>3 DEF Placed, View, t
<1>5. Way(p, r) /\ Url(r) = Url(p)
  BY <1>4 DEF Way, Readdressed, Placed, View, Url
<1>6. \A j \in DOMAIN t : LET k == IF j < i THEN j ELSE j + 1
                          IN  k \in DOMAIN p.soon /\ k # i /\ t[j] = p.soon[k]
  BY <1>3
<1>7. Counted(r)
  BY <1>4, <1>6 DEF Counted, Placed
<1>8. \A k \in DOMAIN p.soon : k # i => \E j \in DOMAIN t : t[j] = p.soon[k]
  BY <1>3
<1>9. i \in Nat /\ DOMAIN t \subseteq Nat
  BY <1>3
<1> QED
  BY <1>3, <1>4, <1>5, <1>6, <1>7, <1>8, <1>9 DEF Placed, Shorter

\* The task, the page without it, and what its handler does.
Runs(p, i, r, q) ==
  /\ r = [p EXCEPT !.soon = RemoveAt(p.soon, i)] /\ q = Do(r, p.soon[i])
  /\ i = 1 \/ p.soon[i].do = "commit"

LEMMA TaskIs ==
  ASSUME NEW p, Placed(p), NEW i \in DOMAIN p.soon
  PROVE  /\ p.soon[i].do \in Dos /\ p.soon[i].to \in Ids /\ p.soon[i].token \in Nat
         /\ p.soon[i].token <= p.token /\ p.token \in Nat
<1>1. p.soon[i] \in Task /\ p.token \in Nat
  BY DEF Placed, View
<1> QED
  BY <1>1 DEF Placed, Counted, Task, Dos

LEMMA TaskGone ==
  ASSUME NEW p, Placed(p), NEW i \in DOMAIN p.soon, NEW r, NEW q, Runs(p, i, r, q)
  PROVE  Shorter(p, i, r)
BY TaskRemoved DEF Runs

LEMMA BaseGone ==
  ASSUME NEW p, Base(p), NEW i \in DOMAIN p.soon, NEW r, NEW q, Runs(p, i, r, q)
  PROVE  Shorter(p, i, r)
BY TaskGone DEF Base

LEMMA RunsBase ==
  ASSUME NEW p, Base(p), NEW i \in DOMAIN p.soon, NEW r, NEW q, Runs(p, i, r, q)
  PROVE  Base(q) /\ Way(p, q)
<1> DEFINE a == p.soon[i]
<1>1. a.do \in Dos /\ a.to \in Ids
  BY TaskIs DEF Base
<1>2. /\ Placed(r) /\ Way(p, r) /\ r.active = p.active /\ r.sheet = p.sheet
      /\ \A k \in DOMAIN p.soon : k # i => \E j \in DOMAIN r.soon : r.soon[j] = p.soon[k]
  BY BaseGone DEF Shorter
<1>3. q = Do(r, a)
  BY DEF Runs
<1> HIDE DEF a
<1>4. CASE a.do = "commit"
  <2>1. q = Commit(r, a.to)
    BY <1>3, <1>4 DEF Do
  <2>2. a.to = "landing" \/ \A k \in DOMAIN p.soon :
          Commits(p, k, "landing") => \E j \in DOMAIN r.soon : Commits(r, j, "landing")
    BY <1>2 DEF Commits, a
  <2>3. Base(q)
    BY <1>1, <1>2, <2>1, <2>2, BaseCommit DEF Base
  <2>4. Way(r, q)
    BY <1>1, <1>2, <2>1, CommitIs DEF Placed, Drawn
  <2> QED
    BY <1>2, <2>3, <2>4, WayOn
<1>5. CASE a.do # "commit"
  <2>1. Base(r)
    BY <1>2, <1>5 DEF Base, SheetFits, Commits, a
  <2>2. Base(q) /\ Way(r, q)
    <3>1. Way(r, r)
      BY <2>1, BaseDrawn DEF Way, Readdressed, Drawn
    <3>2. q \in {ShowScreen(r, a.to), OpenJoin(r), Activate(r, a.to), r}
      BY <1>1, <1>3, <1>5 DEF Do, ShowFetched, Dos
    <3> QED
      BY <1>1, <2>1, <3>1, <3>2, BaseShows, BaseDrawn, ShowScreenIs, OpenJoinIs, ActivateIs
  <2> QED
    BY <1>2, <2>2, WayOn
<1> QED
  BY <1>4, <1>5

\* An answer that is not waited for any more shows nothing.
LEMMA StaleRuns ==
  ASSUME NEW p, Placed(p), NEW i \in DOMAIN p.soon, NEW r, NEW q, Runs(p, i, r, q), Stale(p, i)
  PROVE  q = r
<1>1. r.token = p.token
  BY TaskGone DEF Shorter, Way
<1> QED
  BY <1>1, TaskIs DEF Runs, Do, ShowFetched, Stale

LEMMA WaitRuns ==
  ASSUME NEW p, Placed(p), NEW i \in DOMAIN p.soon, NEW r, NEW q, Runs(p, i, r, q), Waits(p, i)
  PROVE  q = ShowScreen(r, p.soon[i].to)
<1>1. r.token = p.token
  BY TaskGone DEF Shorter, Way
<1> QED
  BY <1>1, TaskIs DEF Runs, Do, ShowFetched, Waits

LEMMA HeadingRuns ==
  ASSUME NEW p, Base(p), Heading(p), NEW i \in DOMAIN p.soon, NEW r, NEW q, Runs(p, i, r, q),
         ~q.rewritten
  PROVE  Heading(q)
<1>1. /\ Placed(r) /\ Way(p, r) /\ r.active = p.active /\ Target(r) = Target(p)
      /\ r.token = p.token /\ r.fetching = p.fetching
      /\ \A j \in DOMAIN r.soon : \E k \in DOMAIN p.soon : r.soon[j] = p.soon[k]
      /\ \A k \in DOMAIN p.soon : k # i => \E j \in DOMAIN r.soon : r.soon[j] = p.soon[k]
  BY BaseGone DEF Shorter, Way, Target
<1>2. Aimed(r)
  BY <1>1 DEF Aimed, Heading, Fetching, Stale, Commits, Waits
<1>3. Target(p) \in Ids
  BY UrlIs DEF Base, Placed, Ids
<1>4. CASE Stale(p, i)
  <2>1. q = r
    BY <1>4, StaleRuns DEF Base
  <2>2. Nears(r, Target(r))
    BY <1>1, <1>4 DEF Heading, Nears, Stale
  <2> QED
    BY <1>2, <2>1, <2>2 DEF Aimed, Heading
<1>5. CASE Commits(p, i, Target(p))
  <2>1. q = Commit(r, Target(p))
    BY <1>5 DEF Runs, Do, Commits
  <2>2. Way(r, q) /\ q.soon = r.soon /\ q.active = Target(p)
    BY <1>1, <1>3, <2>1, CommitIs DEF Placed, Drawn
  <2> QED
    BY <1>1, <1>2, <2>2, Heads
<1>6. CASE Waits(p, i) /\ p.soon[i].to = Target(p)
  <2>1. q = ShowScreen(r, Target(p))
    BY <1>6, WaitRuns DEF Base
  <2>2. /\ Way(r, q) /\ q.active = r.active
        /\ \/ r.active = Target(p) /\ q.soon = r.soon
           \/ Queued(r, q, "commit", Target(p))
    BY <1>1, <1>3, <2>1, ShowScreenIs DEF Placed, Drawn
  <2> QED
    BY <1>1, <1>2, <2>2, Heads
<1> QED
  BY <1>4, <1>5, <1>6 DEF Heading

LEMMA LoadingRuns ==
  ASSUME NEW p, Base(p), Loading(p), NEW i \in DOMAIN p.soon, NEW r, NEW q, Runs(p, i, r, q),
         ~q.rewritten
  PROVE  Heading(q) \/ Loading(q)
<1>1. /\ Placed(r) /\ Way(p, r) /\ r.active = p.active /\ Target(r) = Target(p)
      /\ Url(r) = Url(p) /\ r.rewritten = p.rewritten
      /\ r.token = p.token /\ r.fetching = p.fetching
      /\ i \in Nat /\ DOMAIN r.soon \subseteq Nat /\ DOMAIN p.soon \subseteq Nat
      /\ \A j \in DOMAIN r.soon : LET k == IF j < i THEN j ELSE j + 1
                                  IN  k \in DOMAIN p.soon /\ k # i /\ r.soon[j] = p.soon[k]
      /\ \A k \in DOMAIN p.soon : k # i => \E j \in DOMAIN r.soon : r.soon[j] = p.soon[k]
  BY BaseGone DEF Shorter, Way, Target
<1>2. /\ Target(p) \in Ids /\ "loading" \in Ids
  BY UrlIs DEF Base, Placed, Ids
<1>3. Fetching(r)
  BY <1>1 DEF Fetching, Loading
<1>4. \A j \in DOMAIN r.soon :
        Stale(r, j) \/ Commits(r, j, "loading") \/ (Waits(r, j) /\ r.soon[j].to = Target(r))
  BY <1>1 DEF Loading, Stale, Commits, Waits
<1>5. \A j, l \in DOMAIN r.soon : Waits(r, j) /\ r.soon[l].do = "commit" => l < j
  <2> SUFFICES ASSUME NEW j \in DOMAIN r.soon, NEW l \in DOMAIN r.soon,
                      Waits(r, j), r.soon[l].do = "commit"
               PROVE  l < j
    OBVIOUS
  <2> DEFINE kj == IF j < i THEN j ELSE j + 1
             kl == IF l < i THEN l ELSE l + 1
  <2>1. kj \in DOMAIN p.soon /\ kl \in DOMAIN p.soon /\ r.soon[j] = p.soon[kj]
        /\ r.soon[l] = p.soon[kl]
    BY <1>1
  <2>2. Waits(p, kj) /\ p.soon[kl].do = "commit"
    BY <1>1, <2>1 DEF Waits
  <2>3. kl < kj
    BY <2>1, <2>2 DEF Loading
  <2> QED
    BY <1>1, <2>3
<1>6. ~Waits(p, i) =>
        (\E f \in r.fetching : f[1] = r.token) \/ \E j \in DOMAIN r.soon : Waits(r, j)
  BY <1>1 DEF Loading, Waits
<1>7. CASE Stale(p, i)
  <2>1. q = r
    BY <1>7, StaleRuns DEF Base
  <2>2. ~Waits(p, i) /\ Nears(r, "loading")
    BY <1>1, <1>7, TaskIs DEF Base, Loading, Nears, Stale, Waits
  <2> QED
    BY <1>1, <1>3, <1>4, <1>5, <1>6, <2>1, <2>2 DEF Loading
<1>8. CASE Commits(p, i, "loading")
  <2>1. q = Commit(r, "loading")
    BY <1>8 DEF Runs, Do, Commits
  <2>2. Way(r, q) /\ q.soon = r.soon /\ q.active = "loading"
    BY <1>1, <1>2, <2>1, CommitIs DEF Placed, Drawn
  <2>3. q.token = r.token /\ q.fetching = r.fetching /\ Target(q) = Target(r)
        /\ Url(q) \in Fetched
    BY <1>1, <2>2, WayTarget DEF Way, Placed, Drawn, Loading
  <2>4. Fetching(q) /\ Nears(q, "loading")
    BY <1>3, <2>2, <2>3 DEF Fetching, Nears
  <2>5. ~Waits(p, i)
    BY <1>8 DEF Commits, Waits
  <2>6. (\E f \in q.fetching : f[1] = q.token) \/ \E j \in DOMAIN q.soon : Waits(q, j)
    BY <1>6, <2>2, <2>3, <2>5 DEF Waits
  <2>7. \A j \in DOMAIN q.soon :
          Stale(q, j) \/ Commits(q, j, "loading") \/ (Waits(q, j) /\ q.soon[j].to = Target(q))
    BY <1>4, <2>2, <2>3 DEF Stale, Commits, Waits
  <2>8. \A j, l \in DOMAIN q.soon : Waits(q, j) /\ q.soon[l].do = "commit" => l < j
    BY <1>5, <2>2, <2>3 DEF Waits
  <2> QED
    BY <2>3, <2>4, <2>6, <2>7, <2>8 DEF Loading
<1>9. CASE Waits(p, i) /\ p.soon[i].to = Target(p)
  <2>1. i = 1 /\ q = ShowScreen(r, Target(p))
    BY <1>9, WaitRuns DEF Base, Runs, Waits
  <2>2. \A k \in DOMAIN p.soon : p.soon[k].do # "commit"
    <3>1. \A k \in DOMAIN p.soon : k \in Nat /\ k >= 1
      BY BaseGone DEF Shorter
    <3> QED
      BY <1>9, <2>1, <3>1 DEF Loading
  <2>3. Aimed(r)
    BY <1>1, <1>3, <1>4, <2>2 DEF Aimed, Commits
  <2>4. /\ Way(r, q) /\ q.active = r.active
        /\ \/ r.active = Target(p) /\ q.soon = r.soon
           \/ Queued(r, q, "commit", Target(p))
    BY <1>1, <1>2, <2>1, ShowScreenIs DEF Placed, Drawn
  <2> QED
    BY <1>1, <2>3, <2>4, Heads
<1> QED
  BY <1>7, <1>8, <1>9 DEF Loading

LEMMA ReturningRuns ==
  ASSUME NEW p, Base(p), Returning(p), NEW i \in DOMAIN p.soon, NEW r, NEW q, Runs(p, i, r, q),
         ~q.rewritten
  PROVE  Heading(q)
<1> DEFINE a == p.soon[i]
<1>1. /\ Placed(r) /\ Way(p, r) /\ Target(r) = Target(p) /\ r.active = p.active
      /\ r.sheet = p.sheet /\ r.fetching = {} /\ i = 1 /\ DOMAIN r.soon = {}
  <2>1. i \in 1..Len(p.soon) /\ Len(p.soon) = 1 /\ Len(r.soon) = 0
    BY BaseGone DEF Shorter, Returning
  <2>2. DOMAIN r.soon = 1..Len(r.soon)
    BY BaseGone DEF Shorter, Placed, View
  <2> QED
    BY <2>1, <2>2, BaseGone DEF Shorter, Way, Target, Returning
<1>2. Aimed(r)
  BY <1>1 DEF Aimed, Fetching
<1>3. Target(p) \in Ids /\ "landing" \in Ids
  BY UrlIs DEF Base, Placed, Ids
<1>4. /\ a.to = Target(p)
      /\ \/ a.do \in {"show", "refused"} /\ q = ShowScreen(r, a.to)
         \/ a.do = "activate" /\ q = Activate(r, a.to)
         \/ a.do = "join" /\ Target(p) = "landing" /\ q = OpenJoin(r)
  BY <1>1 DEF Returning, Runs, Do
<1>5. Base(r)
  <2>1. a.do # "commit"
    BY <1>4
  <2>2. \A k \in DOMAIN p.soon : k # i => \E j \in DOMAIN r.soon : r.soon[j] = p.soon[k]
    BY BaseGone DEF Shorter
  <2> QED
    BY <1>1, <2>1, <2>2 DEF Base, SheetFits, Commits
<1> HIDE DEF a
<1>6. /\ Way(r, q)
      /\ \/ q.soon = r.soon /\ q.active = Target(p)
         \/ Queued(r, q, "commit", Target(p))
  BY <1>3, <1>4, <1>5, BaseDrawn, ShowScreenIs, ActivateIs, OpenJoinIs
<1> QED
  BY <1>1, <1>2, <1>6, Heads

LEMMA RunSoonKeeps == ScreensInv /\ RunSoon => ScreensInv'
<1> SUFFICES ASSUME ScreensInv, RunSoon PROVE ScreensInv'
  OBVIOUS
<1>1. PICK i \in DOMAIN page.soon :
        /\ \A j \in 1..(i - 1) : page.soon[j].do # "commit" /\ page.soon[i].do = "commit"
        /\ page' = Do([page EXCEPT !.soon = RemoveAt(page.soon, i)], page.soon[i])
  BY DEF RunSoon, ScreensInv, Placed, View
<1>2. i \in Nat /\ i >= 1
  <2>1. Shorter(page, i, [page EXCEPT !.soon = RemoveAt(page.soon, i)])
    BY TaskRemoved DEF ScreensInv
  <2> QED
    BY <2>1 DEF Shorter
<1>3. Base(page)
  BY DEF ScreensInv, Base
<1>4. i = 1 \/ page.soon[i].do = "commit"
  BY <1>1, <1>2
<1>5. PICK r : Runs(page, i, r, page')
  BY <1>1, <1>4 DEF Runs
<1>6. Base(page') /\ Way(page, page')
  BY <1>3, <1>5, RunsBase
<1>7. ViewFits(page')
  <2>1. CASE page.net # "none"
    BY <1>3, <1>6, <2>1, AwayStays DEF ScreensInv, Base
  <2>2. CASE page'.overtaken \/ (page'.rewritten /\ page.net = "none")
    BY <1>6, <2>2 DEF ViewFits, Way
  <2>3. CASE page.net = "none" /\ ~page'.overtaken /\ ~page'.rewritten
    <3>1. Alone(page) /\ page'.net = "none" /\ page'.ending = page.ending
      BY <1>6, <2>3 DEF ScreensInv, ViewFits, Way, Readdressed
    <3>2. ~Resting(page)
      BY DEF Resting
    <3>3. Heading(page') \/ Loading(page')
      BY <1>3, <1>5, <2>3, <3>1, <3>2, HeadingRuns, LoadingRuns, ReturningRuns DEF Alone
    <3> QED
      BY <3>1, <3>2, <3>3 DEF ViewFits, Alone
  <2> QED
    BY <2>1, <2>2, <2>3
<1> QED
  BY <1>6, <1>7 DEF ScreensInv, Base

LEMMA FetchDoneKeeps == ScreensInv /\ FetchDone => ScreensInv'
<1> SUFFICES ASSUME ScreensInv, FetchDone PROVE ScreensInv'
  OBVIOUS
<1>1. PICK f \in page.fetching :
        LET p == [page EXCEPT !.fetching = page.fetching \ {f}]
        IN  page' = IF f[1] = page.token THEN Later(p, "fetched", f[2]) ELSE p
  BY DEF FetchDone, ScreensInv, Placed, View
<1> DEFINE p == [page EXCEPT !.fetching = page.fetching \ {f}]
<1>2. f[1] \in Nat /\ f[2] \in Ids /\ "fetched" \in Dos
  BY DEF ScreensInv, Placed, View, Dos
<1>3. /\ p \in View /\ p.fetching = page.fetching \ {f} /\ p.soon = page.soon
      /\ p.active = page.active /\ p.sheet = page.sheet /\ p.token = page.token
      /\ p.hist = page.hist /\ p.at = page.at /\ p.net = page.net /\ p.origin = page.origin
      /\ p.saved = page.saved /\ p.ending = page.ending /\ p.rewritten = page.rewritten
      /\ p.overtaken = page.overtaken
  BY DEF ScreensInv, Placed, View
<1>4. page' = IF f[1] = page.token THEN Later(p, "fetched", f[2]) ELSE p
  BY <1>1
<1> HIDE DEF p
<1>5. Base(p) /\ Url(p) = Url(page) /\ Target(p) = Target(page)
  BY <1>3 DEF ScreensInv, Base, Placed, Counted, SheetFits, Commits, Url, Target
<1>6. CASE f[1] # page.token
  <2>1. page' = p
    BY <1>4, <1>6
  <2>2. \A i : /\ Stale(p, i) <=> Stale(page, i)
               /\ Waits(p, i) <=> Waits(page, i)
               /\ \A id : Commits(p, i, id) <=> Commits(page, i, id)
    BY <1>3 DEF Stale, Waits, Commits
  <2>3. \A id : Nears(p, id) <=> Nears(page, id)
    BY <1>3 DEF Nears
  <2>4. Fetching(page) => Fetching(p)
    BY <1>3, <1>5 DEF Fetching
  <2>5. Heading(page) => Heading(p)
    BY <1>3, <1>5, <2>2, <2>3, <2>4 DEF Heading
  <2>6. Loading(page) => Loading(p)
    BY <1>3, <1>5, <1>6, <2>2, <2>3, <2>4 DEF Loading
  <2>7. ViewFits(p)
    BY <1>3, <1>5, <2>5, <2>6 DEF ScreensInv, ViewFits, Alone, Resting, Returning, Asking, Playing
  <2> QED
    BY <1>5, <2>1, <2>7 DEF ScreensInv, Base
<1>7. CASE f[1] = page.token
  <2> DEFINE q == Later(p, "fetched", f[2])
             n == Len(p.soon) + 1
  <2>1. /\ Queued(p, q, "fetched", f[2]) /\ q.active = p.active /\ q.sheet = p.sheet
        /\ Url(q) = Url(p) /\ q.rewritten = p.rewritten
    BY <1>2, <1>5, LaterIs, BaseDrawn
  <2>2. page' = q
    BY <1>4, <1>7
  <2> HIDE DEF q
  <2>3. Base(q)
    BY <1>2, <1>5, <2>1, BaseQueued
  <2>4. /\ DOMAIN q.soon = 1..n /\ DOMAIN p.soon = 1..Len(p.soon) /\ Len(p.soon) \in Nat
        /\ \A i \in DOMAIN p.soon : q.soon[i] = p.soon[i]
        /\ q.soon[n].do = "fetched" /\ q.soon[n].to = f[2] /\ q.soon[n].token = p.token
    BY <1>2, <1>5, <2>1, QueuedIs DEF Base
  <2>5. /\ q.token = page.token /\ q.fetching = page.fetching \ {f} /\ q.net = page.net
        /\ q.origin = page.origin /\ q.saved = page.saved /\ q.ending = page.ending
        /\ q.overtaken = page.overtaken /\ q.rewritten = page.rewritten
        /\ Url(q) = Url(page) /\ Target(q) = Target(page)
    BY <1>3, <1>5, <2>1 DEF Queued, Way, Target
  <2>6. /\ n \in DOMAIN q.soon /\ Waits(q, n)
        /\ \A i \in DOMAIN q.soon : i = n \/ (i \in DOMAIN page.soon /\ q.soon[i] = page.soon[i])
        /\ \A i \in DOMAIN page.soon : i < n /\ i \in DOMAIN q.soon
    BY <1>3, <2>4, <2>5 DEF Waits
  <2>7. \A i \in DOMAIN page.soon :
          /\ Stale(q, i) <=> Stale(page, i)
          /\ Waits(q, i) <=> Waits(page, i)
          /\ \A id : Commits(q, i, id) <=> Commits(page, i, id)
          /\ q.soon[i].to = page.soon[i].to /\ q.soon[i].do = page.soon[i].do
    BY <1>3, <2>4, <2>5 DEF Stale, Waits, Commits
  <2>8. \A id : Nears(page, id) => Nears(q, id)
    BY <1>3, <2>1, <2>6, <2>7 DEF Nears
  <2>9. Fetching(page) => Fetching(q) /\ q.soon[n].to = Target(q)
    BY <1>7, <2>4, <2>5 DEF Fetching
  <2> HIDE DEF n
  <2>10. Heading(page) => Heading(q)
    BY <2>5, <2>6, <2>7, <2>8, <2>9 DEF Heading
  <2>11. q.soon[n].do # "commit"
    BY <2>6 DEF Waits
  <2>12. Loading(page) => Loading(q)
    <3> SUFFICES ASSUME Loading(page) PROVE Loading(q)
      OBVIOUS
    <3>1. \A i, j \in DOMAIN q.soon : Waits(q, i) /\ q.soon[j].do = "commit" => j < i
      BY <2>6, <2>7, <2>11 DEF Loading
    <3>2. \A i \in DOMAIN q.soon :
            Stale(q, i) \/ Commits(q, i, "loading") \/ (Waits(q, i) /\ q.soon[i].to = Target(q))
      BY <2>5, <2>6, <2>7, <2>9 DEF Loading
    <3> QED
      BY <2>5, <2>6, <2>8, <2>9, <3>1, <3>2 DEF Loading
  <2>13. ViewFits(q)
    BY <2>5, <2>10, <2>12 DEF ScreensInv, ViewFits, Alone, Resting, Returning, Asking, Playing
  <2> QED
    BY <2>2, <2>3, <2>13 DEF ScreensInv, Base
<1> QED
  BY <1>6, <1>7

LEMMA FinishSheetKeeps == ScreensInv /\ FinishSheet => ScreensInv'
<1> SUFFICES ASSUME ScreensInv, FinishSheet PROVE ScreensInv'
  OBVIOUS
<1> DEFINE p == SheetSet(page, "closed", page.finishes - 1)
<1>1. page \in View /\ Drawn(page)
  BY DEF ScreensInv, Placed, Drawn
<1>2. page' = OnClosed(p) /\ page.finishes - 1 \in Nat
  <2> DEFINE q == [page EXCEPT !.finishes = page.finishes - 1, !.sheet = "closed"]
  <2>1. q = p
    BY <1>1 DEF View, SheetSet
  <2>2. page' = OnClosed(q) /\ page.finishes > 0 /\ page.finishes \in Nat
    BY <1>1 DEF FinishSheet, View
  <2> HIDE DEF p, q
  <2> QED
    BY <2>1, <2>2
<1>3. Drawn(p) /\ Way(page, p) /\ p.soon = page.soon /\ p.active = page.active
      /\ p.sheet = "closed"
  <2>1. /\ Way(page, p) /\ p.soon = page.soon /\ p.active = page.active
        /\ p.sheet = "closed"
    BY <1>1, <1>2, SheetSetIs
  <2> QED
    BY <2>1 DEF Drawn, Way
<1> HIDE DEF p
<1>4. Way(page, page') /\ page'.soon = page.soon /\ page'.active = page.active
      /\ page'.sheet = "closed"
  BY <1>2, <1>3, OnClosedIs, WayOn
<1> QED
  BY <1>4, BaseStays, ViewStays DEF ScreensInv, Base

-----------------------------------------------------------------------------
(* Pages that are entered.                                                 *)

\* Nothing that counts is left to be done.
Free(p) ==
  ~p.ending /\ p.net = "none" /\ \A i \in DOMAIN p.soon : p.soon[i].do = "fetched"

Excused(p) == p.overtaken \/ (p.net = "none" /\ p.rewritten)

LEMMA ExcusedFits == ASSUME NEW p, Excused(p) PROVE ViewFits(p)
BY DEF Excused, ViewFits

\* The screen of a route that fetches, under the loading screen.
LEMMA EnterFits ==
  ASSUME NEW p, Base(p), Url(p) \in Fetched, Excused(p) \/ Free(p)
  PROVE  LET q == EnterFetched(p, Target(p))
         IN  Base(q) /\ ViewFits(q)
<1> DEFINE t == p.token + 1
           fs == p.fetching \cup {<<t, Target(p)>>}
           r == [p EXCEPT !.token = t, !.fetching = fs]
           q == ShowScreen(r, "loading")
<1>1. EnterFetched(p, Target(p)) = q
  BY DEF EnterFetched, ShowLoading, Base, Placed, View
<1>2. Target(p) \in Ids /\ "loading" \in Ids /\ "commit" \in Dos /\ p.token \in Nat
  BY UrlIs DEF Base, Placed, Ids, Dos, View
<1>3. t \in Nat /\ fs \in SUBSET (Nat \X Ids) /\ <<t, Target(p)>> \in fs
  BY <1>2 DEF Base, Placed, View
<1>4. \A f \in fs : f = <<t, Target(p)>> \/ f[1] < t
  BY <1>2 DEF Base, Placed, Counted, View
<1>5. \A i \in DOMAIN p.soon : p.soon[i].token < t
  BY <1>2, TaskIs DEF Base
<1> HIDE DEF fs, t
<1>6. /\ r \in View /\ r.token = t /\ r.fetching = fs /\ r.soon = p.soon /\ r.hist = p.hist
      /\ r.at = p.at /\ r.active = p.active /\ r.sheet = p.sheet /\ r.net = p.net
      /\ r.ending = p.ending /\ r.rewritten = p.rewritten /\ r.overtaken = p.overtaken
  BY <1>3 DEF Base, Placed, View
<1> HIDE DEF r
<1>7. Url(r) = Url(p) /\ Target(r) = Target(p)
  BY <1>6 DEF Url, Target
<1>8. Base(r)
  <2>1. \A i \in DOMAIN p.soon : p.soon[i].token \in Nat
    BY TaskIs DEF Base
  <2>2. \A f \in fs : f[1] <= t
    BY <1>3, <1>4
  <2>3. \A i \in DOMAIN p.soon : p.soon[i].token <= t
    BY <1>3, <1>5, <2>1
  <2> QED
    BY <1>6, <2>2, <2>3 DEF Base, Placed, Counted, SheetFits, Commits
<1>9. /\ Base(q) /\ Way(r, q) /\ q.active = r.active /\ Url(q) = Url(r)
      /\ q.rewritten = r.rewritten
      /\ \/ r.active = "loading" /\ q.soon = r.soon
         \/ Queued(r, q, "commit", "loading")
  BY <1>2, <1>8, BaseShows, BaseDrawn, ShowScreenIs
<1> HIDE DEF q
<1>10. /\ q.token = t /\ q.fetching = fs /\ Target(q) = Target(p) /\ q.net = p.net
       /\ q.overtaken = p.overtaken /\ q.rewritten = p.rewritten /\ q.ending = p.ending
  BY <1>6, <1>7, <1>9 DEF Way, Target
<1>11. CASE Excused(p)
  BY <1>9, <1>10, <1>11, ExcusedFits, <1>1 DEF Excused
<1>12. CASE Free(p)
  <2> DEFINE n == Len(r.soon) + 1
  <2>1. \A i \in DOMAIN q.soon :
          \/ i \in DOMAIN p.soon /\ q.soon[i] = p.soon[i]
          \/ /\ q.soon[i].do = "commit" /\ q.soon[i].to = "loading"
             /\ Queued(r, q, "commit", "loading")
    BY <1>2, <1>6, <1>8, <1>9, QueuedIs DEF Base
  <2>2. \A i \in DOMAIN q.soon : Stale(q, i) \/ Commits(q, i, "loading")
    BY <1>5, <1>10, <1>12, <2>1 DEF Free, Stale, Commits
  <2>3. Nears(q, "loading")
    <3>1. Queued(r, q, "commit", "loading") =>
            Len(r.soon) + 1 \in DOMAIN q.soon /\ q.soon[Len(r.soon) + 1].do = "commit"
      BY <1>2, <1>8, QueuedIs DEF Base
    <3> QED
      BY <1>9, <3>1 DEF Nears
  <2>4. Fetching(q)
    BY <1>3, <1>4, <1>10 DEF Fetching
  <2>5. \E f \in q.fetching : f[1] = q.token
    BY <1>3, <1>10
  <2>6. \A i \in DOMAIN q.soon : ~Waits(q, i)
    BY <1>3, <1>10, <2>2, TaskIs DEF Stale, Waits, Commits
  <2>7. Url(q) \in Fetched
    BY <1>7, <1>9
  <2>8. Loading(q)
    BY <2>2, <2>3, <2>4, <2>5, <2>6, <2>7 DEF Loading
  <2>9. ViewFits(q)
    BY <1>10, <1>12, <2>8 DEF ViewFits, Alone, Free
  <2> QED
    BY <1>1, <1>9, <2>9
<1> QED
  BY <1>11, <1>12

\* Nor is there an answer that could still count.
Clear(p) ==
  /\ Free(p)
  /\ \A f \in p.fetching : f[1] # p.token
  /\ \A i \in DOMAIN p.soon : p.soon[i].token # p.token

\* The screen of another route.
LEMMA HeadsFree ==
  ASSUME NEW p, Base(p), Excused(p) \/ Clear(p), NEW q, Way(p, q), NEW id, id = Target(p),
         \/ q.soon = p.soon /\ q.active = id
         \/ Queued(p, q, "commit", id)
  PROVE  ViewFits(q)
<1>1. CASE Excused(p)
  BY <1>1, ExcusedFits DEF Excused, Way, Readdressed
<1>2. CASE Clear(p) /\ q.rewritten
  BY <1>2, ExcusedFits DEF Excused, Clear, Free, Way
<1>3. CASE Clear(p) /\ ~q.rewritten
  <2>1. Aimed(p)
    BY <1>3, TaskIs DEF Aimed, Fetching, Clear, Free, Stale, Base
  <2>2. Heading(q)
    BY <1>3, <2>1, Heads DEF Base
  <2> QED
    BY <1>3, <2>2 DEF ViewFits, Alone, Clear, Free, Way
<1> QED
  BY <1>1, <1>2, <1>3

\* One thing to be done, and the address leads there.
LEMMA ReturnsFit ==
  ASSUME NEW p, Base(p),
         Excused(p) \/ (Free(p) /\ p.soon = <<>> /\ p.fetching = {}),
         NEW do \in {"show", "refused", "activate", "join"}, NEW id \in Ids,
         Excused(p) \/ id = Target(p), do = "join" => id = "landing"
  PROVE  LET q == Later(p, do, id)
         IN  Base(q) /\ ViewFits(q)
<1> DEFINE q == Later(p, do, id)
<1>1. do \in Dos
  BY DEF Dos
<1>2. /\ Queued(p, q, do, id) /\ Base(q)
      /\ Url(q) = Url(p) /\ q.rewritten = p.rewritten
  BY <1>1, LaterIs, BaseLater, BaseDrawn
<1> HIDE DEF q
<1>3. /\ q.net = p.net /\ q.ending = p.ending /\ q.overtaken = p.overtaken
      /\ q.fetching = p.fetching /\ Target(q) = Target(p)
  BY <1>2 DEF Queued, Way, Target
<1>4. CASE Excused(p)
  BY <1>2, <1>3, <1>4, ExcusedFits DEF Excused, q
<1>5. CASE Free(p) /\ p.soon = <<>> /\ p.fetching = {} /\ id = Target(p)
  <2>1. q.soon[1].do = do /\ q.soon[1].to = id /\ Len(q.soon) = 1
    BY <1>1, <1>2, <1>5 DEF Queued
  <2>2. Returning(q)
    BY <1>3, <1>5, <2>1 DEF Returning
  <2>3. ViewFits(q)
    BY <1>3, <1>5, <2>2 DEF ViewFits, Alone, Free
  <2> QED
    BY <1>2, <2>3 DEF q
<1> QED
  BY <1>4, <1>5

\* The page but for the game, the counts and the ghost.
Alike(p, q) ==
  /\ q \in View /\ q.active = p.active /\ q.soon = p.soon /\ q.hist = p.hist /\ q.at = p.at
  /\ q.token = p.token /\ q.fetching = p.fetching /\ q.sheet = p.sheet
  /\ q.rewritten = p.rewritten

LEMMA AlikeIs ==
  ASSUME NEW p, Base(p), NEW q, Alike(p, q)
  PROVE  Base(q) /\ Url(q) = Url(p) /\ Target(q) = Target(p)
BY DEF Base, Placed, Counted, SheetFits, Commits, Alike, Url, Target

LEMMA PushIs ==
  ASSUME NEW p, Base(p), NEW path \in Paths
  PROVE  LET q == Push(p, path)
         IN  /\ Base(q) /\ Url(q) = path /\ q.soon = p.soon /\ q.fetching = p.fetching
             /\ q.token = p.token /\ q.net = p.net /\ q.ending = p.ending /\ q.active = p.active
             /\ q.overtaken = p.overtaken /\ q.rewritten = p.rewritten /\ q.sheet = p.sheet
<1> DEFINE h == Append(SubSeq(p.hist, 1, p.at), path)
           q == [p EXCEPT !.hist = h, !.at = p.at + 1]
<1>1. Push(p, path) = q
  BY DEF Push, Base, Placed, View
<1>2. /\ p.hist \in Seq(Paths) /\ p.at \in 1..Len(p.hist) /\ p.at \in Nat
      /\ p \in View /\ p.at + 1 \in Nat
  BY DEF Base, Placed, View
<1>3. SubSeq(p.hist, 1, p.at) \in Seq(Paths) /\ Len(SubSeq(p.hist, 1, p.at)) = p.at
  BY <1>2
<1>4. h \in Seq(Paths) /\ p.at + 1 \in DOMAIN h /\ h[p.at + 1] = path
  BY <1>2, <1>3, Appended
<1> HIDE DEF h
<1>5. /\ q \in View /\ q.hist = h /\ q.at = p.at + 1 /\ q.soon = p.soon
      /\ q.fetching = p.fetching
      /\ q.token = p.token /\ q.net = p.net /\ q.ending = p.ending /\ q.active = p.active
      /\ q.overtaken = p.overtaken /\ q.rewritten = p.rewritten /\ q.sheet = p.sheet
  BY <1>2, <1>4 DEF View
<1> HIDE DEF q
<1>6. Base(q) /\ Url(q) = path
  BY <1>4, <1>5 DEF Base, Placed, Counted, SheetFits, Commits, Url
<1> QED
  BY <1>1, <1>5, <1>6

\* A tap, with nothing in hand.
LEMMA NavigateFits ==
  ASSUME NEW p, Base(p), p.overtaken \/ (Free(p) /\ p.soon = <<>> /\ p.fetching = {}),
         NEW path \in {"/", "/nearby"}
  PROVE  LET q == Navigate(p, path)
         IN  Base(q) /\ ViewFits(q)
<1> DEFINE r == Push(p, path)
<1>1. path \in Paths
  BY DEF Paths
<1>2. /\ Base(r) /\ Url(r) = path /\ r.soon = p.soon /\ r.fetching = p.fetching
      /\ r.net = p.net /\ r.ending = p.ending /\ r.overtaken = p.overtaken
  BY <1>1, PushIs
<1>3. Navigate(p, path) = Activate(r, Route(path))
  BY DEF Navigate
<1> HIDE DEF r
<1>4. Excused(r) \/ Clear(r)
  BY <1>2 DEF Excused, Clear, Free
<1>5. Route(path) = Target(r) /\ Route(path) \in Ids
  BY <1>2, RouteIs DEF Target, Ids
<1> QED
  BY <1>2, <1>3, <1>4, <1>5, ActivateIs, HeadsFree

LEMMA PopStateFits ==
  ASSUME NEW b, Base(b), Excused(b) \/ Free(b)
  PROVE  Base(PopState(b)) /\ ViewFits(PopState(b))
<1> DEFINE p == [b EXCEPT !.token = b.token + 1]
<1>1. b.token \in Nat /\ b \in View /\ b.token + 1 \in Nat
  BY DEF Base, Placed, View
<1>2. /\ p \in View /\ p.token = b.token + 1 /\ p.soon = b.soon /\ p.fetching = b.fetching
      /\ p.hist = b.hist /\ p.at = b.at /\ p.active = b.active /\ p.sheet = b.sheet
      /\ p.net = b.net /\ p.ending = b.ending /\ p.rewritten = b.rewritten
      /\ p.overtaken = b.overtaken
  BY <1>1 DEF View
<1>3. /\ \A f \in p.fetching : f[1] \in Nat /\ f[1] < p.token
      /\ \A i \in DOMAIN p.soon : p.soon[i].token \in Nat /\ p.soon[i].token < p.token
  <2>1. \A f \in b.fetching : f[1] \in Nat /\ f[1] <= b.token
    <3>1. b.fetching \subseteq Nat \X Ids
      BY <1>1 DEF View
    <3> QED
      BY <3>1 DEF Base, Placed, Counted
  <2>2. \A i \in DOMAIN b.soon : b.soon[i].token \in Nat /\ b.soon[i].token <= b.token
    BY TaskIs DEF Base
  <2>3. \A n \in Nat : n <= b.token => n < b.token + 1
    BY <1>1
  <2>4. p.token = b.token + 1 /\ p.soon = b.soon /\ p.fetching = b.fetching
    BY <1>2
  <2> HIDE DEF p
  <2> QED
    BY <2>1, <2>2, <2>3, <2>4
<1>4. PopState(b) =
        CASE Url(p) \in Fetched -> EnterFetched(p, Route(Url(p)))
          [] Url(p) = "/join" -> OpenJoin(p)
          [] OTHER -> CloseSheet(Activate(p, Route(Url(p))))
  BY DEF PopState, Base, Placed, View
<1> HIDE DEF p
<1>5. Base(p)
  <2>1. Counted(p)
    BY <1>1, <1>2, <1>3 DEF Counted
  <2> QED
    BY <1>2, <2>1 DEF Base, Placed, SheetFits, Commits
<1>6. Excused(p) \/ Clear(p)
  BY <1>1, <1>2, <1>3 DEF Excused, Free, Clear
<1>7. Target(p) \in Ids /\ Url(p) \in Paths
  BY <1>5, UrlIs DEF Base, Placed, Ids
<1>8. CASE Url(p) \in Fetched
  <2>1. PopState(b) = EnterFetched(p, Target(p))
    BY <1>4, <1>8, RouteIs DEF Target
  <2> QED
    BY <1>5, <1>6, <1>8, <2>1, EnterFits DEF Clear
<1>9. CASE Url(p) = "/join"
  <2>1. PopState(b) = OpenJoin(p) /\ Target(p) = "landing"
    BY <1>4, <1>9, RouteIs DEF Target
  <2> QED
    BY <1>5, <1>6, <2>1, OpenJoinIs, HeadsFree
<1>10. CASE Url(p) \notin Fetched /\ Url(p) # "/join"
  <2> DEFINE r == Activate(p, Target(p))
             q == CloseSheet(r)
  <2>1. PopState(b) = q
    BY <1>4, <1>10, RouteIs DEF Target
  <2>2. /\ Base(r) /\ Way(p, r)
        /\ \/ r.soon = p.soon /\ r.active = Target(p)
           \/ Queued(p, r, "commit", Target(p)) /\ r.active = p.active
    BY <1>5, <1>7, ActivateIs
  <2> HIDE DEF r
  <2>3. Way(r, q) /\ q.soon = r.soon /\ q.active = r.active
        /\ (q.sheet # "closed" => r.sheet # "closed")
    BY <2>2, CloseSheetIs, BaseDrawn
  <2> HIDE DEF q
  <2>4. Base(q)
    BY <2>2, <2>3, BaseStays
  <2>5. ViewFits(r)
    BY <1>5, <1>6, <2>2, HeadsFree
  <2>6. ViewFits(q)
    BY <2>2, <2>3, <2>5, ViewStays DEF Base
  <2> QED
    BY <2>1, <2>4, <2>6
<1> QED
  BY <1>8, <1>9, <1>10

LEMMA BootstrapFits ==
  ASSUME NEW b, Drawn(b)
  PROVE  Base(Bootstrap(b)) /\ ViewFits(Bootstrap(b))
<1> DEFINE p == [b EXCEPT !.active = "loading", !.soon = <<>>, !.fetching = {}, !.token = 0,
                          !.sheet = "closed", !.finishes = 0, !.net = "none",
                          !.origin = "none", !.ending = FALSE, !.overtaken = FALSE]
<1>1. b \in View /\ <<>> \in Seq(Task) /\ {} \in SUBSET (Nat \X Ids) /\ "loading" \in Ids
  BY DEF Drawn, Ids
<1>2. /\ p \in View /\ p.soon = <<>> /\ p.fetching = {} /\ p.net = "none" /\ p.ending = FALSE
      /\ p.sheet = "closed" /\ p.saved = b.saved /\ p.hist = b.hist /\ p.at = b.at
      /\ p.overtaken = FALSE
  BY <1>1 DEF View
<1>3. Bootstrap(b) =
        CASE Url(b) \in Fetched -> EnterFetched(p, Route(Url(b)))
          [] Url(b) = "/nearby" -> Later(p, "activate", "nearby")
          [] Url(b) = "/join" -> Later(p, "join", "landing")
          [] OTHER -> IF b.saved THEN [p EXCEPT !.net = "lost"] ELSE Later(p, "show", "landing")
  BY DEF Bootstrap
<1> HIDE DEF p
<1>4. Base(p) /\ Free(p) /\ Url(p) = Url(b)
  BY <1>2 DEF Base, Placed, Counted, SheetFits, Free, Drawn, Url
<1>5. Url(p) \in Paths /\ Target(p) \in Ids
  BY <1>4, UrlIs DEF Base, Placed, Ids
<1>6. CASE Url(p) \in Fetched
  <2>1. Bootstrap(b) = EnterFetched(p, Target(p))
    BY <1>3, <1>4, <1>6, RouteIs DEF Target
  <2> QED
    BY <1>4, <1>6, <2>1, EnterFits
<1>7. CASE Url(p) = "/nearby"
  <2>1. Bootstrap(b) = Later(p, "activate", Target(p))
    BY <1>3, <1>4, <1>7, RouteIs DEF Target
  <2> QED
    BY <1>2, <1>4, <1>5, <2>1, ReturnsFit
<1>8. CASE Url(p) = "/join"
  <2>1. Bootstrap(b) = Later(p, "join", Target(p)) /\ Target(p) = "landing"
    BY <1>3, <1>4, <1>8, RouteIs DEF Target
  <2> QED
    BY <1>2, <1>4, <1>5, <2>1, ReturnsFit
<1>9. CASE Url(p) = "/"
  <2>1. Target(p) = "landing"
    BY <1>9, RouteIs DEF Target
  <2>2. CASE b.saved
    <3> DEFINE q == [p EXCEPT !.net = "lost"]
    <3>1. Bootstrap(b) = q
      BY <1>3, <1>4, <1>9, <2>2, RouteIs
    <3>2. Alike(p, q) /\ q.net = "lost" /\ q.saved = b.saved /\ q.ending = FALSE
      BY <1>2 DEF Alike, View
    <3> HIDE DEF q
    <3>3. Base(q) /\ Url(q) = "/"
      BY <1>4, <1>9, <3>2, AlikeIs
    <3>4. ViewFits(q)
      BY <2>2, <3>2, <3>3 DEF ViewFits, Playing
    <3> QED
      BY <3>1, <3>3, <3>4
  <2>3. CASE ~b.saved
    <3>1. Bootstrap(b) = Later(p, "show", Target(p))
      BY <1>3, <1>4, <1>9, <2>1, <2>3, RouteIs
    <3> QED
      BY <1>2, <1>4, <1>5, <3>1, ReturnsFit
  <2> QED
    BY <2>2, <2>3
<1> QED
  BY <1>5, <1>6, <1>7, <1>8, <1>9, RouteIs DEF Paths

-----------------------------------------------------------------------------
(* The player.                                                             *)

LEMMA MovedIs ==
  ASSUME NEW p, Base(p)
  PROVE  LET q == Moved(p)
         IN  /\ Base(q) /\ Alike(p, q) /\ q.net = p.net /\ q.started = p.started
             /\ q.origin = p.origin /\ q.saved = p.saved /\ q.ending = p.ending
             /\ q.overtaken = (p.overtaken \/ InHand(p))
<1> DEFINE o == p.overtaken \/ InHand(p)
           q == [p EXCEPT !.moves = p.moves + 1, !.overtaken = o]
<1>1. p \in View /\ p.moves + 1 \in Nat /\ o \in BOOLEAN
  BY DEF Base, Placed, View, InHand
<1>2. Moved(p) = q
  BY <1>1 DEF Moved, View
<1> HIDE DEF o
<1>3. /\ Alike(p, q) /\ q.net = p.net /\ q.started = p.started
      /\ q.origin = p.origin /\ q.saved = p.saved /\ q.ending = p.ending /\ q.overtaken = o
  BY <1>1 DEF Alike, View
<1> HIDE DEF q
<1> QED
  BY <1>2, <1>3, AlikeIs DEF o

\* What is open over the page is the sheet's affair only.
LEMMA MovedFits ==
  ASSUME NEW p, Base(p), ViewFits(p)
  PROVE  ViewFits(Moved(p))
<1>1. CASE Moved(p).overtaken
  BY <1>1 DEF ViewFits
<1>2. CASE ~Moved(p).overtaken
  <2>1. Way(p, Moved(p))
    BY <1>2, MovedIs, AlikeIs DEF Way, Readdressed, Alike, Base, Placed, View
  <2> QED
    BY <2>1, MovedIs, ViewStays DEF Alike, Base
<1> QED
  BY <1>1, <1>2

LEMMA LeftIs ==
  ASSUME NEW p, Base(p)
  PROVE  LET q == Left(p)
         IN  /\ Base(q) /\ Alike(p, q) /\ q.net = p.net
             /\ q.overtaken \/ (Free(q) /\ q.soon = <<>> /\ q.fetching = {})
             /\ p.net # "none" => q.overtaken
<1> DEFINE m == Moved(p)
           o == InHand(p) \/ p.soon # <<>> \/ p.fetching # {}
           q == [m EXCEPT !.overtaken = o]
<1>1. Left(p) = q /\ o \in BOOLEAN
  BY DEF Left, InHand
<1>2. Base(m) /\ Alike(p, m) /\ m.net = p.net /\ m.ending = p.ending
  BY MovedIs
<1> HIDE DEF m
<1>3. Alike(p, q) /\ q.net = p.net /\ q.ending = p.ending /\ q.overtaken = o
  BY <1>1, <1>2 DEF Alike, View
<1> HIDE DEF q
<1>4. ~o => ~p.ending /\ p.net = "none" /\ p.soon = <<>> /\ p.fetching = {}
  BY DEF InHand
<1>5. p.net # "none" => o
  BY DEF InHand
<1> HIDE DEF o
<1>6. ~o => Free(q) /\ q.soon = <<>> /\ q.fetching = {}
  BY <1>3, <1>4 DEF Free, Alike
<1> QED
  BY <1>1, <1>3, <1>5, <1>6, AlikeIs

LEMMA TapsKeep ==
  ScreensInv /\ (TapNearby \/ TapBack \/ TapProfile \/ TapLeave) => ScreensInv'
<1> SUFFICES ASSUME ScreensInv, TapNearby \/ TapBack \/ TapProfile \/ TapLeave PROVE ScreensInv'
  OBVIOUS
<1> DEFINE l == Left(page)
<1>1. /\ Base(l) /\ Alike(page, l) /\ l.net = page.net
      /\ l.overtaken \/ (Free(l) /\ l.soon = <<>> /\ l.fetching = {})
      /\ page.net # "none" => l.overtaken
  BY LeftIs DEF ScreensInv, Base
<1>2. CASE TapNearby
  <2>1. page' = Navigate(l, "/nearby")
    BY <1>2 DEF TapNearby
  <2> HIDE DEF l
  <2> QED
    BY <1>1, <2>1, NavigateFits DEF ScreensInv, Base
<1>3. CASE TapBack
  <2>1. page' = Navigate(l, "/")
    BY <1>3 DEF TapBack
  <2> HIDE DEF l
  <2> QED
    BY <1>1, <2>1, NavigateFits DEF ScreensInv, Base
<1>4. CASE TapLeave
  <2> DEFINE p == [l EXCEPT !.net = "none", !.saved = FALSE]
  <2>1. page' = Navigate(p, "/") /\ l.overtaken
    BY <1>1, <1>4 DEF TapLeave
  <2> HIDE DEF l
  <2>2. Alike(l, p) /\ p.overtaken
    BY <1>1, <2>1 DEF Alike, Base, Placed, View
  <2> HIDE DEF p
  <2>3. Base(p)
    BY <1>1, <2>2, AlikeIs
  <2> QED
    BY <2>1, <2>2, <2>3, NavigateFits DEF ScreensInv, Base
<1>5. CASE TapProfile
  <2> DEFINE r == Push(l, "/@name")
  <2>1. page' = EnterFetched(r, "profile")
    BY <1>5 DEF TapProfile
  <2> HIDE DEF l
  <2>2. /\ Base(r) /\ Url(r) = "/@name" /\ r.soon = l.soon
        /\ r.net = l.net /\ r.ending = l.ending /\ r.overtaken = l.overtaken
    BY <1>1, PushIs DEF Paths
  <2> HIDE DEF r
  <2>3. Url(r) \in Fetched /\ Target(r) = "profile" /\ (Excused(r) \/ Free(r))
    BY <1>1, <2>2, RouteIs DEF Target, Excused, Free
  <2> QED
    BY <2>1, <2>2, <2>3, EnterFits DEF ScreensInv, Base
<1> QED
  BY <1>2, <1>3, <1>4, <1>5

LEMMA SheetKeeps == ScreensInv /\ (TapJoin \/ TapClose) => ScreensInv'
<1> SUFFICES ASSUME ScreensInv, TapJoin \/ TapClose PROVE ScreensInv'
  OBVIOUS
<1> DEFINE m == Moved(page)
<1>1. Base(m) /\ Alike(page, m) /\ ViewFits(m)
  BY MovedIs, MovedFits DEF ScreensInv, Base
<1>2. CASE TapJoin
  <2>1. page' = OpenSheet(m) /\ page.active = "landing"
    BY <1>2 DEF TapJoin, OnPage
  <2> HIDE DEF m
  <2>2. Way(m, page') /\ page'.soon = m.soon /\ page'.active = "landing"
    BY <1>1, <2>1, OpenSheetIs, BaseDrawn DEF Alike
  <2>3. ViewFits(page')
    BY <1>1, <2>1, <2>2, ViewStays DEF Base, Alike
  <2>4. Base(page')
    BY <1>1, <2>2 DEF Base, Placed, Counted, SheetFits, Way
  <2> QED
    BY <2>3, <2>4 DEF ScreensInv, Base
<1>3. CASE TapClose
  <2>1. page' = CloseSheet(m)
    BY <1>3 DEF TapClose
  <2> HIDE DEF m
  <2>2. /\ Way(m, page') /\ page'.soon = m.soon /\ page'.active = m.active
        /\ page'.sheet # "closed" => m.sheet # "closed"
    BY <1>1, <2>1, CloseSheetIs, BaseDrawn
  <2> QED
    BY <1>1, <2>2, BaseStays, ViewStays DEF ScreensInv, Base
<1> QED
  BY <1>2, <1>3

\* What is asked for from a screen in view is asked for from where the address leads.
LEMMA AskKeeps == ScreensInv /\ Ask => ScreensInv'
<1> SUFFICES ASSUME ScreensInv, Ask PROVE ScreensInv'
  OBVIOUS
<1> DEFINE m == Moved(page)
           origin == CASE page.active = "nearby" -> "nearby"
                       [] page.sheet = "open" -> "join" [] OTHER -> "landing"
           p == [m EXCEPT !.net = "asked", !.started = FALSE, !.origin = origin]
           q == ShowScreen(p, "loading")
<1>1. /\ page' = q /\ page.net = "none" /\ page.active \in {"landing", "nearby"}
      /\ page.active = "nearby" => page.sheet = "closed"
  BY DEF Ask, ShowLoading
<1>2. /\ Base(m) /\ Alike(page, m) /\ m.net = page.net /\ m.ending = page.ending
      /\ m.overtaken = (page.overtaken \/ InHand(page))
  BY MovedIs DEF ScreensInv, Base
<1>3. /\ origin \in {"nearby", "join", "landing"}
      /\ origin = "nearby" <=> page.active = "nearby"
  BY <1>1
<1> HIDE DEF m, origin
<1>4. /\ Alike(page, p) /\ p.net = "asked" /\ p.origin = origin /\ p.ending = page.ending
      /\ p.overtaken = (page.overtaken \/ InHand(page))
  BY <1>2, <1>3 DEF Alike, View
<1> HIDE DEF p
<1>5. Base(p) /\ Target(p) = Target(page)
  BY <1>4, AlikeIs DEF ScreensInv, Base
<1>6. Base(q) /\ Way(p, q) /\ Url(q) = Url(p) /\ q.rewritten = p.rewritten
  BY <1>5, BaseShows, ShowScreenIs, BaseDrawn DEF Ids
<1> HIDE DEF q
<1>7. ASSUME ~p.overtaken, ~p.rewritten PROVE page.active = Target(page)
  <2>1. ~page.overtaken /\ ~InHand(page) /\ ~page.rewritten
    BY <1>4, <1>7 DEF Alike
  <2>2. ~page.ending /\ \A i \in DOMAIN page.soon : page.soon[i].do = "fetched"
    BY <2>1 DEF InHand
  <2>3. Alone(page)
    BY <1>1, <2>1 DEF ScreensInv, ViewFits
  <2>4. ~Returning(page)
    <3>1. Returning(page) => 1 \in DOMAIN page.soon
      BY DEF Returning, ScreensInv, Placed, View
    <3> QED
      BY <2>2, <3>1 DEF Returning
  <2>5. ~Loading(page)
    BY <1>1, <2>2 DEF Loading, Nears
  <2>6. Heading(page)
    BY <2>2, <2>3, <2>4, <2>5 DEF Alone, Resting
  <2> QED
    BY <2>2, <2>6 DEF Heading, Nears
<1>8. ~p.overtaken => ~p.ending
  BY <1>4 DEF InHand
<1>9. ViewFits(p)
  BY <1>1, <1>3, <1>4, <1>5, <1>7, <1>8 DEF ViewFits, Asking
<1>10. ViewFits(q)
  BY <1>4, <1>5, <1>6, <1>9, AwayStays DEF Base
<1> QED
  BY <1>1, <1>6, <1>10 DEF ScreensInv, Base

LEMMA GoKeeps == ScreensInv /\ Go => ScreensInv'
<1> SUFFICES ASSUME ScreensInv, Go PROVE ScreensInv'
  OBVIOUS
<1>1. PICK at \in {page.at - 1, page.at + 1} \cap DOMAIN page.hist :
        page' = PopState([Popped(page) EXCEPT !.at = at])
  BY DEF Go
<1> DEFINE m == Moved(page)
           o == InHand(page)
           b == [[m EXCEPT !.overtaken = o] EXCEPT !.at = at]
<1>2. page' = PopState(b) /\ o \in BOOLEAN
  BY <1>1 DEF Popped, InHand
<1>3. Base(m) /\ Alike(page, m) /\ m.net = page.net /\ m.ending = page.ending
  BY MovedIs DEF ScreensInv, Base
<1>4. at \in Nat
  BY DEF ScreensInv, Placed, View
<1>5. ~o => ~page.ending /\ page.net = "none"
            /\ \A i \in DOMAIN page.soon : page.soon[i].do = "fetched"
  BY DEF InHand
<1> HIDE DEF m, o
<1>6. /\ b \in View /\ b.active = m.active /\ b.soon = m.soon /\ b.hist = m.hist /\ b.at = at
      /\ b.token = m.token /\ b.fetching = m.fetching /\ b.sheet = m.sheet
      /\ b.net = m.net /\ b.ending = m.ending /\ b.overtaken = o
  BY <1>2, <1>3, <1>4 DEF Alike, View
<1> HIDE DEF b
<1>7. Base(b)
  BY <1>3, <1>6 DEF Base, Placed, Counted, SheetFits, Commits, Alike
<1>8. Excused(b) \/ Free(b)
  BY <1>3, <1>5, <1>6 DEF Excused, Free, Alike
<1> QED
  BY <1>2, <1>7, <1>8, PopStateFits DEF ScreensInv, Base

LEMMA ReloadKeeps == ScreensInv /\ Reload => ScreensInv'
<1> SUFFICES ASSUME ScreensInv, Reload PROVE ScreensInv'
  OBVIOUS
<1>1. Drawn(Moved(page)) /\ page' = Bootstrap(Moved(page))
  BY MovedIs, BaseDrawn DEF ScreensInv, Base, Reload
<1> QED
  BY <1>1, BootstrapFits DEF ScreensInv, Base

LEMMA ShowDetailKeeps == ScreensInv /\ ShowDetail => ScreensInv'
<1> SUFFICES ASSUME ScreensInv, ShowDetail PROVE ScreensInv'
  OBVIOUS
<1> DEFINE p == [page EXCEPT !.ending = FALSE]
           r == Push(p, "/games")
<1>1. page.ending /\ page' = IF Url(p) = "/games" THEN p ELSE EnterFetched(r, "game-detail")
  BY DEF ShowDetail
<1>2. /\ Alike(page, p) /\ p.ending = FALSE /\ p.net = page.net
      /\ p.overtaken = page.overtaken
  BY DEF Alike, ScreensInv, Placed, View
<1> HIDE DEF p
<1>3. Base(p) /\ Url(p) = Url(page)
  BY <1>2, AlikeIs DEF ScreensInv, Base
<1>4. Excused(page) \/ (page.net = "none" /\ Resting(page))
  BY <1>1 DEF ScreensInv, ViewFits, Alone, Excused
<1>5. CASE Url(p) = "/games"
  <2>1. Excused(page)
    BY <1>3, <1>4, <1>5 DEF Resting
  <2> QED
    BY <1>1, <1>2, <1>3, <1>5, <2>1, ExcusedFits DEF ScreensInv, Base, Excused, Alike
<1>6. CASE Url(p) # "/games"
  <2>1. /\ Base(r) /\ Url(r) = "/games" /\ r.soon = p.soon /\ r.net = p.net
        /\ r.ending = p.ending /\ r.overtaken = p.overtaken /\ r.rewritten = p.rewritten
    BY <1>3, PushIs DEF Paths
  <2> HIDE DEF r
  <2>2. Excused(r) \/ Free(r)
    BY <1>2, <1>4, <2>1 DEF Excused, Free, Resting, Alike
  <2>3. Url(r) \in Fetched /\ Target(r) = "game-detail"
    BY <2>1, RouteIs DEF Target
  <2>4. page' = EnterFetched(r, Target(r))
    BY <1>1, <1>6, <2>3
  <2> QED
    BY <2>1, <2>2, <2>3, <2>4, EnterFits DEF ScreensInv, Base
<1> QED
  BY <1>5, <1>6

-----------------------------------------------------------------------------
(* The server.                                                             *)

LEMMA CameIs ==
  ASSUME NEW p, Base(p)
  PROVE  LET q == Came(p)
         IN  /\ Base(q) /\ Alike(p, q) /\ q.net = p.net /\ q.saved = p.saved
             /\ q.ending = p.ending
             /\ q.overtaken = (p.overtaken \/ p.soon # <<>> \/ p.fetching # {})
<1> DEFINE o == p.overtaken \/ p.soon # <<>> \/ p.fetching # {}
           q == [p EXCEPT !.frames = p.frames + 1, !.overtaken = o]
<1>1. p \in View /\ p.frames + 1 \in Nat /\ o \in BOOLEAN
  BY DEF Base, Placed, View
<1>2. Came(p) = q
  BY <1>1 DEF Came, View
<1> HIDE DEF o
<1>3. /\ Alike(p, q) /\ q.net = p.net /\ q.saved = p.saved
      /\ q.ending = p.ending /\ q.overtaken = o
  BY <1>1 DEF Alike, View
<1> HIDE DEF q
<1> QED
  BY <1>2, <1>3, AlikeIs DEF o

LEMMA FrameKeeps == ScreensInv /\ Frame => ScreensInv'
<1> SUFFICES ASSUME ScreensInv, Frame PROVE ScreensInv'
  OBVIOUS
<1>1. PICK started \in {page.started, TRUE}, away \in BOOLEAN :
        LET p == [Came(page) EXCEPT !.net = "live", !.started = started]
        IN  page' = IF started /\ away THEN ShowWaiting(p) ELSE ShowFor(p)
  BY DEF Frame
<1> DEFINE c == Came(page)
           p == [c EXCEPT !.net = "live", !.started = started]
           h == [page.hist EXCEPT ![page.at] = "/"]
           r == [[p EXCEPT !.origin = "none", !.saved = TRUE] EXCEPT !.hist[p.at] = "/"]
<1>2. Base(c) /\ Alike(page, c) /\ c.ending = page.ending
      /\ (page.overtaken => c.overtaken) /\ started \in BOOLEAN /\ page.net # "none"
  BY CameIs DEF ScreensInv, Base, Placed, View, Frame
<1>3. \/ page' = ShowScreen(r, "loading")
      \/ \E id \in {"game", "lobby"} : page' = Later(r, "show", id)
  BY <1>1 DEF ShowWaiting, ShowFor, ShowLoading, Replace
<1> HIDE DEF c
<1>4. h \in Seq(Paths) /\ DOMAIN h = DOMAIN page.hist /\ h[page.at] = "/"
  BY DEF ScreensInv, Placed, View, Paths
<1> HIDE DEF h
<1>5. /\ r \in View /\ r.soon = page.soon /\ r.active = page.active /\ r.sheet = page.sheet
      /\ r.token = page.token /\ r.fetching = page.fetching /\ r.hist = h /\ r.at = page.at
      /\ r.net = "live" /\ r.saved = TRUE /\ r.ending = page.ending
      /\ r.overtaken = c.overtaken
  <2>1. p \in View /\ p.hist = page.hist /\ p.at = page.at /\ p.soon = page.soon
        /\ p.active = page.active /\ p.sheet = page.sheet /\ p.token = page.token
        /\ p.fetching = page.fetching /\ p.net = "live" /\ p.ending = page.ending
        /\ p.overtaken = c.overtaken
    BY <1>2 DEF Alike, View
  <2> HIDE DEF p
  <2>2. r = [p EXCEPT !.origin = "none", !.saved = TRUE, !.hist = h]
    BY <2>1 DEF View, h
  <2> QED
    BY <1>4, <2>1, <2>2 DEF View
<1> HIDE DEF r
<1>6. Base(r) /\ Url(r) = "/"
  BY <1>4, <1>5 DEF ScreensInv, Base, Placed, Counted, SheetFits, Commits, Url
<1>7. ViewFits(r)
  BY <1>2, <1>5, <1>6 DEF ViewFits, Playing, ScreensInv
<1>8. {"loading", "game", "lobby"} \subseteq Ids /\ "show" \in Dos
  BY DEF Ids, Dos
<1>9. Base(page') /\ Way(r, page')
  <2>1. CASE page' = ShowScreen(r, "loading")
    BY <1>6, <1>8, <2>1, BaseShows, ShowScreenIs, BaseDrawn
  <2>2. ASSUME NEW id \in {"game", "lobby"}, page' = Later(r, "show", id)
        PROVE  Base(page') /\ Way(r, page')
    <3>1. Base(Later(r, "show", id))
      BY <1>6, <1>8, BaseLater
    <3>2. Queued(r, Later(r, "show", id), "show", id)
      BY <1>6, <1>8, LaterIs, BaseDrawn
    <3> QED
      BY <2>2, <3>1, <3>2 DEF Queued
  <2> QED
    BY <1>3, <2>1, <2>2
<1>10. ViewFits(page')
  BY <1>5, <1>6, <1>7, <1>9, AwayStays DEF Base
<1> QED
  BY <1>9, <1>10 DEF ScreensInv, Base

LEMMA RefusedKeeps == ScreensInv /\ Refused => ScreensInv'
<1> SUFFICES ASSUME ScreensInv, Refused PROVE ScreensInv'
  OBVIOUS
<1> DEFINE c == Came(page)
           p == [c EXCEPT !.net = "none", !.origin = "none"]
<1>1. /\ page.net = "asked"
      /\ \/ page.origin = "nearby" /\ page' = Later(p, "refused", "nearby")
         \/ page.origin = "join" /\ page' = Later(p, "join", "landing")
         \/ page.origin \notin {"nearby", "join"} /\ page' = Later(p, "refused", "landing")
  BY DEF Refused
<1>2. /\ Base(c) /\ Alike(page, c) /\ c.ending = page.ending
      /\ c.overtaken = (page.overtaken \/ page.soon # <<>> \/ page.fetching # {})
  BY CameIs DEF ScreensInv, Base
<1> HIDE DEF c
<1>3. /\ Alike(page, p) /\ p.net = "none" /\ p.ending = page.ending
      /\ p.overtaken = (page.overtaken \/ page.soon # <<>> \/ page.fetching # {})
  BY <1>2 DEF Alike, View
<1> HIDE DEF p
<1>4. Base(p) /\ Target(p) = Target(page)
  BY <1>3, AlikeIs DEF ScreensInv, Base
<1>5. CASE Excused(p)
  BY <1>1, <1>4, <1>5, ReturnsFit DEF ScreensInv, Base, Ids
<1>6. CASE ~Excused(p)
  <2>1. /\ ~page.overtaken /\ page.soon = <<>> /\ page.fetching = {}
        /\ p.soon = page.soon /\ p.fetching = page.fetching
    BY <1>3, <1>6 DEF Excused, Alike
  <2>2. ~p.ending
    BY <1>1, <1>3, <2>1 DEF ScreensInv, ViewFits
  <2>3. /\ Free(p) /\ p.soon = <<>> /\ p.fetching = {}
    BY <1>3, <2>1, <2>2 DEF Free
  <2>4. Target(p) = IF page.origin = "nearby" THEN "nearby" ELSE "landing"
    BY <1>1, <1>3, <1>4, <1>6 DEF Excused, Alike, ScreensInv, ViewFits, Asking
  <2> QED
    BY <1>1, <1>4, <2>3, <2>4, ReturnsFit DEF ScreensInv, Base, Ids
<1> QED
  BY <1>5, <1>6

LEMMA GameOverKeeps == ScreensInv /\ (Expired \/ GameEnded \/ LoseSocket) => ScreensInv'
<1> SUFFICES ASSUME ScreensInv, Expired \/ GameEnded \/ LoseSocket PROVE ScreensInv'
  OBVIOUS
<1> DEFINE c == Came(page)
<1>1. /\ Base(c) /\ Alike(page, c) /\ c.ending = page.ending /\ c.saved = page.saved
      /\ c.overtaken = (page.overtaken \/ page.soon # <<>> \/ page.fetching # {})
  BY CameIs DEF ScreensInv, Base
<1>2. page.net \in {"live", "lost"}
  BY DEF Expired, GameEnded, LoseSocket
<1>3. ~page.overtaken => ~page.ending /\ Url(page) = "/" /\ page.saved
  BY <1>2 DEF ScreensInv, ViewFits, Playing
<1>4. CASE Expired
  <2> DEFINE p == [c EXCEPT !.net = "none", !.saved = FALSE]
  <2>1. page' = Later(p, "show", "landing")
    BY <1>4 DEF Expired
  <2> HIDE DEF c
  <2>2. /\ Alike(page, p) /\ p.net = "none" /\ p.ending = page.ending
        /\ p.overtaken = (page.overtaken \/ page.soon # <<>> \/ page.fetching # {})
    BY <1>1 DEF Alike, View
  <2> HIDE DEF p
  <2>3. Base(p) /\ Url(p) = Url(page)
    BY <2>2, AlikeIs DEF ScreensInv, Base
  <2>4. p.overtaken \/ (Free(p) /\ p.soon = <<>> /\ p.fetching = {} /\ Target(p) = "landing")
    <3>1. CASE p.overtaken
      BY <3>1
    <3>2. CASE ~p.overtaken
      <4>1. /\ ~page.overtaken /\ page.soon = <<>> /\ page.fetching = {}
            /\ p.soon = page.soon /\ p.fetching = page.fetching
        BY <2>2, <3>2 DEF Alike
      <4>2. ~p.ending /\ Target(p) = "landing"
        BY <1>3, <2>2, <2>3, <4>1, RouteIs DEF Target
      <4> QED
        BY <2>2, <4>1, <4>2 DEF Free
    <3> QED
      BY <3>1, <3>2
  <2> QED
    BY <2>1, <2>3, <2>4, ReturnsFit DEF ScreensInv, Base, Ids, Excused
<1>5. CASE GameEnded
  <2> DEFINE p == [c EXCEPT !.net = "none", !.saved = FALSE, !.ending = TRUE]
  <2>1. page' = p
    BY <1>5 DEF GameEnded
  <2> HIDE DEF c
  <2>2. /\ Alike(page, p) /\ p.net = "none" /\ p.ending = TRUE
        /\ p.overtaken = (page.overtaken \/ page.soon # <<>> \/ page.fetching # {})
    BY <1>1 DEF Alike, View
  <2> HIDE DEF p
  <2>3. Base(p) /\ Url(p) = Url(page)
    BY <2>2, AlikeIs DEF ScreensInv, Base
  <2>4. ViewFits(p)
    BY <1>3, <2>2, <2>3 DEF ViewFits, Alone, Resting, Alike
  <2> QED
    BY <2>1, <2>3, <2>4 DEF ScreensInv, Base
<1>6. CASE LoseSocket
  <2> DEFINE p == [c EXCEPT !.net = "lost"]
  <2>1. page' = ShowScreen(p, "loading")
    BY <1>6 DEF LoseSocket, ShowLoading
  <2> HIDE DEF c
  <2>2. /\ Alike(page, p) /\ p.net = "lost" /\ p.ending = page.ending /\ p.saved = page.saved
        /\ p.overtaken = (page.overtaken \/ page.soon # <<>> \/ page.fetching # {})
    BY <1>1 DEF Alike, View
  <2> HIDE DEF p
  <2>3. Base(p) /\ Url(p) = Url(page)
    BY <2>2, AlikeIs DEF ScreensInv, Base
  <2>4. ViewFits(p)
    BY <1>3, <2>2, <2>3 DEF ViewFits, Playing
  <2>5. Base(page') /\ Way(p, page')
    BY <2>1, <2>3, BaseShows, ShowScreenIs, BaseDrawn DEF Ids
  <2> QED
    BY <2>2, <2>3, <2>4, <2>5, AwayStays DEF ScreensInv, Base
<1> QED
  BY <1>4, <1>5, <1>6

LEMMA ScreensStart == ScreensInit => ScreensInv
<1> SUFFICES ASSUME ScreensInit PROVE ScreensInv
  OBVIOUS
<1>1. PICK path \in {"/", "/join", "/nearby"} :
        page = Bootstrap([active |-> "loading", soon |-> <<>>, hist |-> <<path>>, at |-> 1,
             token |-> 0, fetching |-> {}, sheet |-> "closed", finishes |-> 0, net |-> "none",
             started |-> FALSE, origin |-> "none", saved |-> FALSE, ending |-> FALSE,
             rewritten |-> FALSE, overtaken |-> FALSE, moves |-> 0, frames |-> 0])
  BY DEF ScreensInit
<1> DEFINE b == [active |-> "loading", soon |-> <<>>, hist |-> <<path>>, at |-> 1,
             token |-> 0, fetching |-> {}, sheet |-> "closed", finishes |-> 0, net |-> "none",
             started |-> FALSE, origin |-> "none", saved |-> FALSE, ending |-> FALSE,
             rewritten |-> FALSE, overtaken |-> FALSE, moves |-> 0, frames |-> 0]
<1>2. Drawn(b)
  BY DEF Drawn, View, Ids, Paths
<1> HIDE DEF b
<1>3. page = Bootstrap(b)
  BY <1>1 DEF b
<1> QED
  BY <1>2, <1>3, BootstrapFits DEF ScreensInv, Base

LEMMA ScreensStep == ScreensInv /\ [ScreensNext]_page => ScreensInv'
<1> SUFFICES ASSUME ScreensInv, ScreensNext PROVE ScreensInv'
  BY DEF ScreensInv, Placed, Counted, SheetFits, Commits, ViewFits, Alone, Playing, Asking,
         Heading, Loading, Returning, Resting, Fetching, Nears, Stale, Waits, Target, Url
<1> QED
  BY RunSoonKeeps, FetchDoneKeeps, FinishSheetKeeps, ShowDetailKeeps, TapsKeep, SheetKeeps,
     AskKeeps, GoKeeps, ReloadKeeps, FrameKeeps, RefusedKeeps, GameOverKeeps DEF ScreensNext

LEMMA ScreensKept == ScreensSpec => []ScreensInv
BY ScreensStart, ScreensStep, PTL DEF ScreensSpec

\* The modal sheet is over the landing screen and nowhere else, once the swap under way is
\* done: whatever leaves the landing screen closes it (sheet.js, landing-screen.js's leave).
THEOREM SheetKept == ScreensSpec => []SheetOnLanding
<1>1. ScreensInv => SheetOnLanding
  BY DEF ScreensInv, SheetFits, Commits, SheetOnLanding, Committing
<1> QED
  BY <1>1, ScreensKept, PTL

\* With no game in hand the screen in view is that of the address bar, in whatever order
\* fetches, waits and swaps of several navigations end (router.js, transitions.js).
THEOREM UrlKept == ScreensSpec => []UrlShowsScreen
<1>1. ASSUME ScreensInv, Still, page.net = "none", ~page.rewritten, ~page.overtaken
      PROVE  page.active = Route(Url(page))
  <2>1. Alone(page) /\ ~page.ending /\ page.soon = <<>> /\ page.fetching = {}
    BY <1>1 DEF ScreensInv, ViewFits, Still
  <2>2. ~Returning(page) /\ ~Loading(page)
    BY <2>1 DEF Returning, Loading
  <2> QED
    BY <2>1, <2>2 DEF Alone, Resting, Heading, Nears, Target
<1>2. ScreensInv => UrlShowsScreen
  BY <1>1 DEF UrlShowsScreen
<1> QED
  BY <1>2, ScreensKept, PTL

\* A refresh of the lobby or the board resumes the game: its address leads nowhere else and
\* the session is saved (showFor of router.js, net.js).
THEOREM RefreshKept == ScreensSpec => []RefreshResumes
<1>1. ScreensInv => RefreshResumes
  BY DEF ScreensInv, ViewFits, Playing, RefreshResumes
<1> QED
  BY <1>1, ScreensKept, PTL

-----------------------------------------------------------------------------
(* A code in the air: the melody and the decoder.                          *)

\* An ear as the module builds it; what its frames and its box hold is left open.
Shaped(e) ==
  /\ DOMAIN e = {"phase", "signal", "box", "message", "dec", "whole", "noise", "wrong", "broken"}
  /\ DOMAIN e.dec = {"run", "length", "last", "collecting", "letters", "frames"}
  /\ e.phase \in {"off", "asking", "on"}
  /\ e.dec.run \in 0..29 /\ e.dec.length \in 0..6
  /\ e.dec.letters \in Seq(Nat)

\* A run that is long enough has been reported.
Confirmed(e) == e.dec.length >= Needed(e.dec.run) => e.dec.last = e.dec.run

\* Who does not listen has a decoder at rest, and a code in the box ends the listening.
AtRest(e) ==
  /\ e.phase # "on" => e.dec = NoRun
  /\ e.box # NoCode => e.phase = "off"
  /\ e.box = NoCode /\ e.phase # "on" => e.whole = 0

EarOK(e) == Shaped(e) /\ (e.phase = "on" => Confirmed(e)) /\ AtRest(e)

AirOK(a) ==
  a = Quiet \/ (DOMAIN a = {"code", "repeat", "slot"} /\ a.code \in Codes /\ a.repeat \in Nat
                /\ a.slot \in 1..14)

\* What the decoder has of the repetition in the air, when it has heard all of it.
HasHeard(e, a) ==
  /\ a # Quiet /\ e.whole = a.slot - 1 /\ e.whole \in 1..12
  /\ e.dec.collecting = TRUE
  /\ e.dec.run = Melody(a.code)[e.whole] /\ e.dec.last = e.dec.run
  /\ Len(e.dec.letters) = e.whole \div 2
  /\ \A i \in 1..(e.whole \div 2) : e.dec.letters[i] = Framed(a.code)[i]

Heard(e, a) ==
  e.phase = "on" /\ e.box = NoCode =>
    /\ a.slot = 1 => e.dec.run = Silence /\ e.dec.last = Silence
    /\ e.whole = 0 \/ HasHeard(e, a)

AudioInv == AirOK(air) /\ EarOK(ear) /\ Heard(ear, air)

LEMMA FiveOf ==
  ASSUME NEW s \in Seq(Letters), Len(s) = 5
  PROVE  DOMAIN s = 1..5 /\ \A i \in 1..5 : s[i] \in Letters
OBVIOUS

SixthIs(s, a, t) == t[6] = a /\ \A i \in 1..5 : t[i] = s[i]

LEMMA FiveAndOne ==
  ASSUME NEW s \in Seq(Letters), Len(s) = 5, NEW a \in Letters, NEW t, t = Append(s, a)
  PROVE  SixthIs(s, a, t)
<1>1. t[Len(s) + 1] = a /\ \A i \in DOMAIN s : t[i] = s[i]
  BY Appended
<1>2. DOMAIN s = 1..5 /\ 5 + 1 = 6
  BY FiveOf
<1> QED
  BY <1>1, <1>2 DEF SixthIs

LEMMA NotEmpty == ASSUME NEW s, Len(s) = 5 PROVE s # <<>>
OBVIOUS

LEMMA FiveLong == ASSUME NEW s \in Seq(Nat), Len(s) = 6 PROVE Len(SubSeq(s, 1, 5)) = 5
OBVIOUS

LEMMA FirstFive ==
  ASSUME NEW s \in Seq(Nat), Len(s) = 6
  PROVE  SubSeq(s, 1, 5) # <<>>
BY FiveLong, NotEmpty, Zenon

LEMMA ChecksumIs ==
  ASSUME NEW s, \A i \in 1..5 : s[i] \in Letters
  PROVE  Checksum(s) \in Letters
<1>1. s[1] \in Int /\ s[2] \in Int /\ s[3] \in Int /\ s[4] \in Int /\ s[5] \in Int
  BY DEF Letters
<1>2. PICK n \in Int : n = s[1] + s[2] + s[3] + s[4] + s[5]
  BY <1>1
<1>3. n % 26 \in 0..25
  OBVIOUS
<1> QED
  BY <1>2, <1>3 DEF Checksum, Letters

\* A code of five letters and its checksum.
LEMMA FramedIs ==
  ASSUME NEW code \in Codes
  PROVE  /\ \A i \in 1..5 : Framed(code)[i] = code[i] /\ code[i] \in Letters
         /\ Framed(code)[6] = Checksum(code) /\ Checksum(code) \in Letters
<1>1. code \in Seq(Letters) /\ Len(code) = 5
  BY AudioConstants DEF CodeLen
<1>2. \A i \in 1..5 : code[i] \in Letters
  BY <1>1, FiveOf
<1>3. PICK c \in Letters : c = Checksum(code)
  BY <1>2, ChecksumIs
<1>4. PICK t : t = Append(code, c)
  OBVIOUS
<1>5. SixthIs(code, c, t)
  BY <1>1, <1>4, FiveAndOne
<1>6. Framed(code) = t
  BY <1>3, <1>4 DEF Framed
<1> QED
  BY <1>2, <1>3, <1>5, <1>6 DEF SixthIs

LEMMA MelodyIs ==
  ASSUME NEW code \in Codes
  PROVE  /\ \A i \in 1..6 : Framed(code)[i] \in Letters
         /\ Melody(code)[1] = Start /\ Melody(code)[13] = End /\ Melody(code)[14] = Silence
         /\ \A i \in 1..6 : Melody(code)[2 * i] = Framed(code)[i] + 1
         /\ \A i \in 1..5 : Melody(code)[2 * i + 1] = Sep
<1>3. \A i \in 1..6 : Framed(code)[i] \in Letters
  <2> TAKE i \in 1..6
  <2>1. i \in 1..5 \/ i = 6
    OBVIOUS
  <2> QED
    BY <2>1, FramedIs
<1>4. \A i \in 1..14 :
        Melody(code)[i] = CASE i = 1 -> 0
                            [] i = 13 -> 28
                            [] i = 14 -> 29
                            [] i % 2 = 0 /\ i <= 12 -> Framed(code)[i \div 2] + 1
                            [] OTHER -> 27
  BY DEF Melody, CodeLen, Start, End, Silence, Sep, Letter
<1>5. \A i \in 1..6 : Melody(code)[2 * i] = Framed(code)[i] + 1
  <2> TAKE i \in 1..6
  <2>1. 2 * i \in 1..14 /\ (2 * i) % 2 = 0 /\ (2 * i) \div 2 = i /\ 2 * i <= 12
    OBVIOUS
  <2> QED
    BY <2>1, <1>4
<1>6. \A i \in 1..5 : Melody(code)[2 * i + 1] = 27
  <2> TAKE i \in 1..5
  <2>1. 2 * i + 1 \in 1..14 /\ (2 * i + 1) % 2 = 1 /\ 2 * i + 1 \notin {1, 13, 14}
    OBVIOUS
  <2> QED
    BY <2>1, <1>4
<1>7. Melody(code)[1] = 0 /\ Melody(code)[13] = 28 /\ Melody(code)[14] = 29
  BY <1>4
<1> QED
  BY <1>3, <1>5, <1>6, <1>7 DEF Start, End, Silence, Sep

\* A frame of six letters that ends with their checksum is valid, and it has a code.
LEMMA FrameIs ==
  ASSUME NEW code \in Codes, NEW letters \in Seq(Nat), Len(letters) = 6,
         \A i \in 1..6 : letters[i] = Framed(code)[i]
  PROVE  ValidFrame(letters) /\ SubSeq(letters, 1, CodeLen) # NoCode
<1>2. \A i \in 1..5 : letters[i] = code[i]
  BY FramedIs
<1>3. letters[6] = Checksum(code)
  BY FramedIs
<1>4. Checksum(letters) = Checksum(code)
  BY <1>2 DEF Checksum
<1>5. SubSeq(letters, 1, 5) # <<>>
  BY FirstFive
<1> QED
  BY <1>3, <1>4, <1>5 DEF ValidFrame, CodeLen, NoCode

-----------------------------------------------------------------------------
(* A stretch of polls.                                                     *)

Polled(e, s, n) ==
  LET so_far == IF s = e.dec.run THEN e.dec.length ELSE 0
  IN  [e EXCEPT !.dec.run = s, !.dec.length = IF so_far + n > 6 THEN 6 ELSE so_far + n]

\* p is e with n more polls of s counted.
PolledTo(e, s, n, p) ==
  /\ Shaped(p) /\ p.phase = e.phase /\ p.box = e.box /\ p.whole = e.whole
  /\ p.dec.run = s /\ p.dec.last = e.dec.last
  /\ p.dec.collecting = e.dec.collecting /\ p.dec.letters = e.dec.letters
  /\ n > 6 => p.dec.length = 6
  /\ e.dec.run # s /\ n <= 6 => p.dec.length = n
  /\ e.dec.run = s /\ e.dec.length + n <= 6 => p.dec.length = e.dec.length + n
  /\ e.dec.run = s /\ e.dec.length + n > 6 => p.dec.length = 6

LEMMA PolledIs ==
  ASSUME NEW e, Shaped(e), NEW s \in 0..29, NEW n \in Nat, NEW p, p = Polled(e, s, n)
  PROVE  PolledTo(e, s, n, p)
<1> DEFINE so == IF s = e.dec.run THEN e.dec.length ELSE 0
           len == IF so + n > 6 THEN 6 ELSE so + n
<1>1. so \in 0..6 /\ len \in 0..6
  BY DEF Shaped
<1> HIDE DEF len
<1> DEFINE q == [e EXCEPT !.dec.run = s, !.dec.length = len]
<1>2. p = q
  BY DEF Polled, len
<1>3. /\ DOMAIN q = DOMAIN e /\ DOMAIN q.dec = DOMAIN e.dec
      /\ q.phase = e.phase /\ q.box = e.box /\ q.whole = e.whole
      /\ q.dec.run = s /\ q.dec.length = len /\ q.dec.last = e.dec.last
      /\ q.dec.collecting = e.dec.collecting /\ q.dec.letters = e.dec.letters
  BY DEF Shaped
<1> HIDE DEF q
<1>4. Shaped(p)
  BY <1>1, <1>2, <1>3 DEF Shaped
<1> QED
  BY <1>1, <1>2, <1>3, <1>4 DEF len, Shaped, PolledTo

\* What holds of an ear between two stretches of polls of one tone.
Attends(e) ==
  /\ Shaped(e) /\ e.phase \in {"on", "off"}
  /\ e.phase = "on" => Confirmed(e) /\ e.box = NoCode
  /\ e.phase = "off" => e.dec = NoRun

\* f differs from e in what a confirmed tone may change while the listening goes on.
Follows(e, f) ==
  /\ f.phase = "on" /\ f.box = e.box
  /\ f.dec.run = e.dec.run /\ f.dec.length = e.dec.length

Stopped(f) == f.phase = "off" /\ f.dec = NoRun

LEMMA NoRunShaped ==
  ASSUME NEW e, DOMAIN e = {"phase", "signal", "box", "message", "dec", "whole", "noise", "wrong", "broken"},
         e.phase \in {"off", "asking", "on"}, e.dec = NoRun
  PROVE  Shaped(e)
<1>1. /\ DOMAIN NoRun = {"run", "length", "last", "collecting", "letters", "frames"}
      /\ NoRun.run = 29 /\ NoRun.length = 0 /\ NoRun.letters = <<>>
  BY DEF NoRun, Silence
<1> QED
  BY <1>1 DEF Shaped

LEMMA FoundIs ==
  ASSUME NEW e, Shaped(e), NEW frame
  PROVE  /\ Shaped(Found(e, frame)) /\ Stopped(Found(e, frame))
         /\ Found(e, frame).box = SubSeq(frame, 1, CodeLen)
         /\ Found(e, frame).whole = e.whole
<1> DEFINE f == Found(e, frame)
<1>1. /\ DOMAIN f = DOMAIN e /\ f.phase = "off" /\ f.dec = NoRun /\ f.whole = e.whole
      /\ f.box = SubSeq(frame, 1, CodeLen)
  BY DEF Found, Shaped
<1> HIDE DEF f
<1> QED
  BY <1>1, NoRunShaped DEF Stopped, Shaped, f

LEMMA EndFrameIs ==
  ASSUME NEW e, Shaped(e), e.phase = "on"
  PROVE  LET f == EndFrame(e) IN
         /\ Shaped(f) /\ f.whole = e.whole
         /\ Stopped(f) \/ (Follows(e, f) /\ f.dec.last = e.dec.last)
         /\ ValidFrame(e.dec.letters) => f = Found(e, e.dec.letters)
<1> DEFINE frames == IF Len(e.dec.letters) = CodeLen + 1 THEN Append(e.dec.frames, e.dec.letters)
                     ELSE e.dec.frames
           recovered == IF frames # e.dec.frames THEN Recover(frames) ELSE NoCode
           g == [e EXCEPT !.dec.frames = frames, !.dec.collecting = FALSE, !.dec.letters = <<>>]
           f == EndFrame(e)
<1>1. f = IF ValidFrame(e.dec.letters) THEN Found(e, e.dec.letters)
          ELSE IF recovered # NoCode THEN Found(e, recovered) ELSE g
  BY DEF EndFrame
<1> HIDE DEF frames, recovered, f
<1>2. /\ DOMAIN g = DOMAIN e /\ DOMAIN g.dec = DOMAIN e.dec /\ g.phase = e.phase
      /\ g.box = e.box /\ g.whole = e.whole /\ g.dec.run = e.dec.run
      /\ g.dec.length = e.dec.length /\ g.dec.last = e.dec.last /\ g.dec.letters = <<>>
  BY DEF Shaped
<1> HIDE DEF g
<1>3. Shaped(g) /\ g.whole = e.whole /\ Follows(e, g) /\ g.dec.last = e.dec.last
  BY <1>2 DEF Shaped, Follows
<1> QED
  BY <1>1, <1>3, FoundIs DEF f

LEMMA BeginIs ==
  ASSUME NEW e, Shaped(e), e.phase = "on"
  PROVE  LET f == BeginFrame(e) IN
         /\ Shaped(f) /\ f.whole = e.whole /\ Follows(e, f) /\ f.dec.last = e.dec.last
         /\ f.dec.collecting = TRUE /\ f.dec.letters = <<>>
<1> DEFINE f == BeginFrame(e)
<1>1. /\ DOMAIN f = DOMAIN e /\ DOMAIN f.dec = DOMAIN e.dec /\ f.phase = e.phase
      /\ f.box = e.box /\ f.whole = e.whole /\ f.dec.run = e.dec.run
      /\ f.dec.length = e.dec.length /\ f.dec.last = e.dec.last /\ f.dec.letters = <<>>
      /\ f.dec.collecting = TRUE
  BY DEF BeginFrame, Shaped
<1> HIDE DEF f
<1> QED
  BY <1>1 DEF Shaped, Follows, f

\* f has one letter more than e, unless e has six.
MoreTo(e, l, f) ==
  /\ Shaped(f) /\ f.whole = e.whole /\ Follows(e, f) /\ f.dec.last = e.dec.last
  /\ Len(e.dec.letters) <= CodeLen =>
       f.dec.collecting = e.dec.collecting /\ f.dec.letters = Append(e.dec.letters, l)

LEMMA MoreIs ==
  ASSUME NEW e, Shaped(e), e.phase = "on", NEW l \in Nat
  PROVE  MoreTo(e, l, MoreLetters(e, l))
<1> DEFINE letters == IF Len(e.dec.letters) > CodeLen THEN <<>> ELSE Append(e.dec.letters, l)
           f == MoreLetters(e, l)
<1>1. letters \in Seq(Nat)
  BY DEF Shaped
<1>2. Len(e.dec.letters) \in Nat
  BY DEF Shaped
<1>3. /\ DOMAIN f = DOMAIN e /\ DOMAIN f.dec = DOMAIN e.dec /\ f.phase = e.phase
      /\ f.box = e.box /\ f.whole = e.whole /\ f.dec.run = e.dec.run
      /\ f.dec.length = e.dec.length /\ f.dec.last = e.dec.last /\ f.dec.letters = letters
      /\ ~(Len(e.dec.letters) > CodeLen) => f.dec.collecting = e.dec.collecting
  BY DEF MoreLetters, Shaped
<1>4. Len(e.dec.letters) <= CodeLen => ~(Len(e.dec.letters) > CodeLen)
  BY <1>2 DEF CodeLen
<1>5. ~(Len(e.dec.letters) > CodeLen) => letters = Append(e.dec.letters, l)
  OBVIOUS
<1> HIDE DEF f, letters
<1> QED
  BY <1>1, <1>3, <1>4, <1>5 DEF Shaped, Follows, MoreTo, f

\* A tone is reported: nothing else about it matters here but what follows from it.
\* What becomes of e when s is reported.
ConfirmedTo(e, s, f) ==
  /\ Shaped(f) /\ f.whole = e.whole
  /\ Stopped(f) \/ (Follows(e, f) /\ f.dec.last = s)
  /\ s = e.dec.last \/ s \in {Silence, Sep} =>
       /\ Follows(e, f) /\ f.dec.collecting = e.dec.collecting
       /\ f.dec.letters = e.dec.letters
  /\ s # e.dec.last /\ s = Start =>
       Follows(e, f) /\ f.dec.collecting = TRUE /\ f.dec.letters = <<>>
  /\ s # e.dec.last /\ s = End /\ e.dec.collecting = TRUE /\ ValidFrame(e.dec.letters) =>
       Stopped(f) /\ f.box = SubSeq(e.dec.letters, 1, CodeLen)
  /\ s # e.dec.last /\ s \in 1..26 /\ e.dec.collecting = TRUE
       /\ Len(e.dec.letters) <= CodeLen =>
       /\ Follows(e, f) /\ f.dec.collecting = TRUE
       /\ f.dec.letters = Append(e.dec.letters, s - 1)

LEMMA ConfirmIs ==
  ASSUME NEW e, Shaped(e), e.phase = "on", NEW s \in 0..29, NEW f, f = ConfirmSegment(e, s)
  PROVE  ConfirmedTo(e, s, f)
<1> DEFINE d == [e EXCEPT !.dec.last = s]
<1>1. /\ DOMAIN d = DOMAIN e /\ DOMAIN d.dec = DOMAIN e.dec /\ d.phase = e.phase
      /\ d.box = e.box /\ d.whole = e.whole /\ d.dec.run = e.dec.run
      /\ d.dec.length = e.dec.length /\ d.dec.last = s /\ d.dec.letters = e.dec.letters
      /\ d.dec.collecting = e.dec.collecting
  BY DEF Shaped
<1>2. /\ s = e.dec.last \/ s \in {Silence, Sep} => f = d
      /\ s # e.dec.last /\ s = Start => f = BeginFrame(d)
      /\ s # e.dec.last /\ s = End /\ d.dec.collecting => f = EndFrame(d)
      /\ s # e.dec.last /\ s = End /\ ~d.dec.collecting => f = d
      /\ s # e.dec.last /\ s \in 1..26 /\ d.dec.collecting => f = MoreLetters(d, s - 1)
      /\ s # e.dec.last /\ s \in 1..26 /\ ~d.dec.collecting => f = d
  BY DEF ConfirmSegment, Silence, Sep, Start, End
<1> HIDE DEF d
<1>3. Shaped(d) /\ d.phase = "on"
  BY <1>1 DEF Shaped
<1>4. s \in {Silence, Sep} \/ s = Start \/ s = End \/ (s \in 1..26 /\ s - 1 \in Nat)
  BY DEF Silence, Sep, Start, End
<1>5. ASSUME s = e.dec.last \/ s \in {Silence, Sep}
      PROVE  f = d
  BY <1>2, <1>5
<1> USE DEF Follows, ConfirmedTo
<1>6. CASE s = e.dec.last \/ s \in {Silence, Sep}
  <2>1. s # e.dec.last => ~(s = Start) /\ ~(s = End) /\ ~(s \in 1..26)
    BY <1>6 DEF Silence, Sep, Start, End
  <2> QED
    BY <1>1, <1>3, <1>5, <1>6, <2>1
<1>7. CASE s # e.dec.last /\ s = Start
  <2>1. f = BeginFrame(d)
    BY <1>2, <1>7
  <2>2. ~(s \in {Silence, Sep}) /\ s # End /\ ~(s \in 1..26)
    BY <1>7 DEF Silence, Sep, Start, End
  <2>3. /\ Shaped(f) /\ f.whole = d.whole /\ Follows(d, f) /\ f.dec.last = d.dec.last
        /\ f.dec.collecting = TRUE /\ f.dec.letters = <<>>
    BY <1>3, <2>1, BeginIs
  <2> QED
    BY <1>1, <1>7, <2>2, <2>3
<1>8. CASE s # e.dec.last /\ s = End
  <2>1. ~(s \in {Silence, Sep}) /\ s # Start /\ ~(s \in 1..26)
    BY <1>8 DEF Silence, Sep, Start, End
  <2>2. CASE d.dec.collecting
    <3>1. f = EndFrame(d)
      BY <1>2, <1>8, <2>2
    <3>2. /\ Shaped(f) /\ f.whole = d.whole
          /\ Stopped(f) \/ (Follows(d, f) /\ f.dec.last = d.dec.last)
          /\ ValidFrame(d.dec.letters) => f = Found(d, d.dec.letters)
      BY <1>3, <3>1, EndFrameIs
    <3>3. ValidFrame(d.dec.letters) => Stopped(f) /\ f.box = SubSeq(e.dec.letters, 1, CodeLen)
      BY <1>1, <1>3, <3>2, FoundIs
    <3> QED
      BY <1>1, <1>8, <2>1, <3>2, <3>3
  <2>3. CASE ~d.dec.collecting
    <3>1. f = d
      BY <1>2, <1>8, <2>3
    <3> QED
      BY <1>1, <1>3, <1>8, <2>1, <2>3, <3>1
  <2> QED
    BY <2>2, <2>3
<1>9. CASE s # e.dec.last /\ s \in 1..26
  <2>1. ~(s \in {Silence, Sep}) /\ s # Start /\ s # End
    BY <1>9 DEF Silence, Sep, Start, End
  <2>2. CASE d.dec.collecting
    <3>1. f = MoreLetters(d, s - 1) /\ s - 1 \in Nat
      BY <1>2, <1>9, <2>2
    <3>2. /\ Shaped(f) /\ f.whole = d.whole /\ Follows(d, f) /\ f.dec.last = d.dec.last
          /\ Len(d.dec.letters) <= CodeLen =>
               f.dec.collecting = d.dec.collecting /\ f.dec.letters = Append(d.dec.letters, s - 1)
      <4>1. MoreTo(d, s - 1, f)
        BY <1>3, <3>1, MoreIs
      <4> QED
        BY <4>1 DEF MoreTo
    <3> QED
      BY <1>1, <1>9, <2>1, <3>2
  <2>3. CASE ~d.dec.collecting
    <3>1. f = d
      BY <1>2, <1>9, <2>3
    <3> QED
      BY <1>1, <1>3, <1>9, <2>1, <2>3, <3>1
  <2> QED
    BY <2>2, <2>3
<1> QED
  BY <1>4, <1>6, <1>7, <1>8, <1>9

LEMMA NeededIs ==
  ASSUME NEW s \in 0..29
  PROVE  /\ Needed(s) \in {2, 3, 6} /\ Needed(Start) = 6 /\ Needed(Sep) = 2 /\ Needed(End) = 3
         /\ Needed(Silence) = 3 /\ (s \in 1..26 => Needed(s) = 3)
BY DEF Needed, Start, Sep, End, Silence

\* f is e after the polls: p, or p with s reported.
PollTo(e, s, n, p, f) ==
  /\ e.dec.run # s /\ n >= Needed(s) => f = ConfirmSegment(p, s)
  /\ e.dec.run # s /\ n < Needed(s) => f = p
  /\ e.dec.run = s /\ e.dec.length < Needed(s) /\ e.dec.length + n >= Needed(s) =>
       f = ConfirmSegment(p, s)
  /\ e.dec.run = s /\ ~(e.dec.length < Needed(s) /\ e.dec.length + n >= Needed(s)) =>
       f = p

LEMMA PollIs ==
  ASSUME NEW e, Shaped(e), e.phase = "on", NEW s \in 0..29, NEW n \in Nat,
         NEW p, p = Polled(e, s, n), NEW f, f = Poll(e, s, n)
  PROVE  PollTo(e, s, n, p, f)
<1> DEFINE so == IF s = e.dec.run THEN e.dec.length ELSE 0
<1>1. f = IF e.phase = "on" /\ so < Needed(s) /\ so + n >= Needed(s)
                      THEN ConfirmSegment(p, s) ELSE IF e.phase = "on" THEN p ELSE e
  BY DEF Poll, Polled
<1>2. Needed(s) \in {2, 3, 6}
  BY NeededIs
<1> QED
  BY <1>1, <1>2 DEF PollTo

\* The last polls are of s, six or more of them when n are.
RunIs(f, s, n) == f.phase = "on" => f.dec.run = s /\ (n >= 6 => f.dec.length = 6)

\* A stretch of polls, of whatever tone and length.
LEMMA PollKeeps ==
  ASSUME NEW e, Attends(e), NEW s \in 0..29, NEW n \in Nat, NEW f, f = Poll(e, s, n)
  PROVE  Attends(f) /\ RunIs(f, s, n)
<1> USE DEF RunIs
<1> DEFINE p == Polled(e, s, n)
<1>0. Needed(s) \in {2, 3, 6} /\ Needed(e.dec.run) \in {2, 3, 6}
  BY NeededIs DEF Attends, Shaped
<1>1. CASE e.phase # "on"
  <2>1. f = e
    BY <1>1 DEF Poll
  <2> QED
    BY <1>1, <2>1
<1>2. CASE e.phase = "on"
  <2> HIDE DEF p
  <2>1. Shaped(e) /\ Confirmed(e) /\ e.box = NoCode /\ e.dec.length \in 0..6
    BY <1>2 DEF Attends, Shaped
  <2>2. /\ Shaped(p) /\ p.phase = e.phase /\ p.box = e.box
        /\ p.whole = e.whole /\ p.dec.run = s /\ p.dec.last = e.dec.last
        /\ n > 6 => p.dec.length = 6
        /\ e.dec.run # s /\ n <= 6 => p.dec.length = n
        /\ e.dec.run = s /\ e.dec.length + n <= 6 => p.dec.length = e.dec.length + n
        /\ e.dec.run = s /\ e.dec.length + n > 6 => p.dec.length = 6
    <3>1. PolledTo(e, s, n, p)
      BY <2>1, PolledIs DEF p
    <3> QED
      BY <3>1 DEF PolledTo
  <2>3. n >= 6 => p.dec.length = 6
    BY <2>1, <2>2
  <2>4. CASE f = ConfirmSegment(p, s)
    <3>1. /\ Shaped(f) /\ f.whole = p.whole
          /\ Stopped(f) \/ (Follows(p, f) /\ f.dec.last = s)
      <4>1. ConfirmedTo(p, s, f)
        BY <1>2, <2>2, <2>4, ConfirmIs
      <4> QED
        BY <4>1 DEF ConfirmedTo
    <3>2. CASE Stopped(f)
      BY <2>2, <3>1, <3>2 DEF Stopped, Attends
    <3>3. CASE Follows(p, f) /\ f.dec.last = s
      BY <2>1, <2>2, <2>3, <3>1, <3>3 DEF Follows, Attends, Confirmed
    <3> QED
      BY <3>1, <3>2, <3>3
  <2>5. CASE f = p /\ (e.dec.run # s => n < Needed(s))
                   /\ (e.dec.run = s => ~(e.dec.length < Needed(s) /\ e.dec.length + n >= Needed(s)))
    <3>1. Confirmed(p)
      <4> SUFFICES ASSUME p.dec.length >= Needed(s) PROVE p.dec.last = s
        BY <2>2 DEF Confirmed
      <4>1. e.dec.run = s /\ ~(e.dec.length < Needed(s))
        BY <1>0, <2>1, <2>2, <2>5
      <4> QED
        BY <1>0, <2>1, <2>2, <4>1 DEF Confirmed
    <3> QED
      BY <1>2, <2>1, <2>2, <2>3, <2>5, <3>1 DEF Attends
  <2>6. \/ f = ConfirmSegment(p, s)
        \/ /\ f = p
           /\ e.dec.run # s => n < Needed(s)
           /\ e.dec.run = s => ~(e.dec.length < Needed(s) /\ e.dec.length + n >= Needed(s))
    <3>1. PollTo(e, s, n, p, f)
      BY <1>2, <2>1, PollIs DEF p
    <3> QED
      BY <1>0, <2>1, <3>1 DEF PollTo
  <2> QED
    BY <2>4, <2>5, <2>6
<1> QED
  BY <1>1, <1>2

-----------------------------------------------------------------------------
(* The tones of a repetition, heard one after the other.                   *)

\* A tone other than the one before, long enough to be believed.
\* p is e with the tone counted, f with the tone reported.
Reports(e, s, p, f) ==
  /\ f = ConfirmSegment(p, s)
  /\ Shaped(p) /\ p.phase = "on" /\ p.dec.run = s /\ p.dec.last = e.dec.last
  /\ p.dec.collecting = e.dec.collecting /\ p.dec.letters = e.dec.letters

LEMMA NewTone ==
  ASSUME NEW e, Attends(e), e.phase = "on", NEW s \in 0..29, NEW n \in Nat,
         e.dec.run # s, n >= Needed(s), NEW f, f = Poll(e, s, n), NEW p, p = Polled(e, s, n)
  PROVE  Reports(e, s, p, f)
<1>1. Shaped(e)
  BY DEF Attends
<1>2. f = ConfirmSegment(p, s)
  <2>1. PollTo(e, s, n, p, f)
    BY <1>1, PollIs
  <2> QED
    BY <2>1 DEF PollTo
<1>3. /\ Shaped(p) /\ p.phase = "on" /\ p.dec.run = s /\ p.dec.last = e.dec.last
      /\ p.dec.collecting = e.dec.collecting /\ p.dec.letters = e.dec.letters
  <2>1. PolledTo(e, s, n, p)
    BY <1>1, PolledIs
  <2> QED
    BY <2>1 DEF PolledTo
<1> QED
  BY <1>2, <1>3 DEF Reports

LEMMA HearStart ==
  ASSUME NEW e, Attends(e), e.phase = "on", e.dec.run # Start, e.dec.last # Start,
         NEW n \in Nat, n >= 6, NEW f, f = Poll(e, Start, n)
  PROVE  /\ f.phase = "on" /\ f.dec.collecting = TRUE /\ f.dec.letters = <<>>
         /\ f.dec.run = Start /\ f.dec.last = Start
<1>0. PICK p : p = Polled(e, Start, n)
  OBVIOUS
<1>1. Start \in 0..29 /\ Needed(Start) = 6 /\ Start # Silence /\ Start # Sep
  BY NeededIs DEF Start, Sep, Silence
<1>2. /\ f = ConfirmSegment(p, Start)
      /\ Shaped(p) /\ p.phase = "on" /\ p.dec.run = Start /\ p.dec.last = e.dec.last
  <2>1. Reports(e, Start, p, f)
    BY <1>0, <1>1, NewTone
  <2> QED
    BY <2>1 DEF Reports
<1>3. /\ Follows(p, f) /\ f.dec.collecting = TRUE /\ f.dec.letters = <<>>
      /\ Stopped(f) \/ f.dec.last = Start
  <2>1. ConfirmedTo(p, Start, f)
    BY <1>1, <1>2, ConfirmIs
  <2> QED
    BY <1>1, <1>2, <2>1 DEF ConfirmedTo
<1> QED
  BY <1>2, <1>3 DEF Follows, Stopped

\* f has heard the letter tone s after e.
LetterTo(e, s, f) ==
  /\ f.phase = "on" /\ f.dec.collecting = TRUE
  /\ f.dec.letters = Append(e.dec.letters, s - 1)
  /\ f.dec.run = s /\ f.dec.last = s

LEMMA HearLetter ==
  ASSUME NEW e, Attends(e), e.phase = "on", NEW s \in 1..26, e.dec.run # s, e.dec.last # s,
         NEW n \in Nat, n >= 3, e.dec.collecting = TRUE, Len(e.dec.letters) <= 5, NEW f, f = Poll(e, s, n)
  PROVE  LetterTo(e, s, f)
<1>0. PICK p : p = Polled(e, s, n)
  OBVIOUS
<1>1. s \in 0..29 /\ Needed(s) = 3
  <2>1. s \in 0..29
    OBVIOUS
  <2> QED
    BY <2>1, NeededIs
<1>2. /\ f = ConfirmSegment(p, s)
      /\ Shaped(p) /\ p.phase = "on" /\ p.dec.run = s /\ p.dec.last = e.dec.last
      /\ p.dec.collecting = e.dec.collecting /\ p.dec.letters = e.dec.letters
  <2>1. Reports(e, s, p, f)
    BY <1>0, <1>1, NewTone
  <2> QED
    BY <2>1 DEF Reports
<1>3. /\ Follows(p, f) /\ f.dec.collecting = TRUE /\ f.dec.letters = Append(p.dec.letters, s - 1)
      /\ Stopped(f) \/ f.dec.last = s
  <2>1. ConfirmedTo(p, s, f)
    BY <1>1, <1>2, ConfirmIs
  <2> QED
    BY <1>1, <1>2, <2>1 DEF ConfirmedTo, CodeLen
<1> QED
  BY <1>2, <1>3 DEF Follows, Stopped, LetterTo

\* f has heard s after e, and it has added nothing.
AddsNothing(e, s, f) ==
  /\ f.phase = "on" /\ f.dec.collecting = e.dec.collecting
  /\ f.dec.letters = e.dec.letters /\ f.dec.run = s /\ f.dec.last = s

\* A separator, or a tone that has been reported already.
LEMMA HearOn ==
  ASSUME NEW e, Attends(e), e.phase = "on", NEW s \in 0..29, e.dec.run # s,
         s = Sep \/ s = e.dec.last, NEW n \in Nat, n >= Needed(s), NEW f, f = Poll(e, s, n)
  PROVE  AddsNothing(e, s, f)
<1>0. PICK p : p = Polled(e, s, n)
  OBVIOUS
<1>1. /\ f = ConfirmSegment(p, s)
      /\ Shaped(p) /\ p.phase = "on" /\ p.dec.run = s /\ p.dec.last = e.dec.last
      /\ p.dec.collecting = e.dec.collecting /\ p.dec.letters = e.dec.letters
  <2>1. Reports(e, s, p, f)
    BY <1>0, NewTone
  <2> QED
    BY <2>1 DEF Reports
<1>2. /\ Follows(p, f) /\ f.dec.collecting = p.dec.collecting /\ f.dec.letters = p.dec.letters
      /\ Stopped(f) \/ f.dec.last = s
  <2>1. ConfirmedTo(p, s, f)
    BY <1>1, ConfirmIs
  <2> QED
    BY <1>1, <2>1 DEF ConfirmedTo
<1> QED
  BY <1>1, <1>2 DEF Follows, Stopped, AddsNothing

\* A flicker: too short to be reported.
LEMMA HearBlip ==
  ASSUME NEW e, Attends(e), e.phase = "on", NEW s \in 0..29, e.dec.run # s, s \in {Silence, Sep},
         NEW f, f = Poll(e, s, 1)
  PROVE  /\ f.phase = "on" /\ f.dec.collecting = e.dec.collecting
         /\ f.dec.letters = e.dec.letters /\ f.dec.run = s /\ f.dec.last = e.dec.last
<1>1. 1 \in Nat /\ 1 < Needed(s) /\ Shaped(e)
  BY NeededIs DEF Attends
<1>2. PICK p : p = Polled(e, s, 1)
  OBVIOUS
<1>3. f = p
  <2>1. PollTo(e, s, 1, p, f)
    BY <1>1, <1>2, PollIs
  <2> QED
    BY <1>1, <2>1 DEF PollTo
<1>4. /\ p.phase = "on" /\ p.dec.run = s /\ p.dec.last = e.dec.last
      /\ p.dec.collecting = e.dec.collecting /\ p.dec.letters = e.dec.letters
  <2>1. PolledTo(e, s, 1, p)
    BY <1>1, <1>2, PolledIs
  <2> QED
    BY <2>1 DEF PolledTo
<1> QED
  BY <1>3, <1>4

LEMMA HearEnd ==
  ASSUME NEW e, Attends(e), e.phase = "on", e.dec.run # End, e.dec.last # End,
         NEW n \in Nat, n >= 3, e.dec.collecting = TRUE, ValidFrame(e.dec.letters),
         NEW f, f = Poll(e, End, n)
  PROVE  f.phase = "off" /\ f.box = SubSeq(e.dec.letters, 1, CodeLen)
<1>0. PICK p : p = Polled(e, End, n)
  OBVIOUS
<1>1. End \in 0..29 /\ Needed(End) = 3
  BY NeededIs DEF End
<1>2. /\ f = ConfirmSegment(p, End)
      /\ Shaped(p) /\ p.phase = "on" /\ p.dec.run = End /\ p.dec.last = e.dec.last
      /\ p.dec.collecting = e.dec.collecting /\ p.dec.letters = e.dec.letters
  <2>1. Reports(e, End, p, f)
    BY <1>0, <1>1, NewTone
  <2> QED
    BY <2>1 DEF Reports
<1>3. Stopped(f) /\ f.box = SubSeq(p.dec.letters, 1, CodeLen)
  <2>1. ConfirmedTo(p, End, f)
    BY <1>1, <1>2, ConfirmIs
  <2> QED
    BY <1>1, <1>2, <2>1 DEF ConfirmedTo
<1> QED
  BY <1>2, <1>3 DEF Stopped

\* The place of a tone in the melody, and which tone it is.
LEMMA ToneAt ==
  ASSUME NEW code \in Codes, NEW i \in 1..14, NEW s, s = Melody(code)[i]
  PROVE  \/ i = 1 /\ s = Start
         \/ \E k \in 1..6 : i = 2 * k /\ s = Framed(code)[k] + 1 /\ s \in 1..26
         \/ \E k \in 1..5 : i = 2 * k + 1 /\ s = Sep
         \/ i = 13 /\ s = End
         \/ i = 14 /\ s = Silence
<1>1. \/ i \in {1, 13, 14} \/ (\E k \in 1..6 : i = 2 * k) \/ \E k \in 1..5 : i = 2 * k + 1
  <2>1. i \in {2, 4, 6, 8, 10, 12} => i = 2 * (i \div 2) /\ i \div 2 \in 1..6
    OBVIOUS
  <2>2. i \in {3, 5, 7, 9, 11} => i = 2 * (i \div 2) + 1 /\ i \div 2 \in 1..5
    OBVIOUS
  <2>3. i \in {1, 13, 14} \cup {2, 4, 6, 8, 10, 12} \cup {3, 5, 7, 9, 11}
    OBVIOUS
  <2> QED
    BY <2>1, <2>2, <2>3
<1>2. CASE i \in {1, 13, 14}
  BY <1>2, MelodyIs
<1>3. CASE \E k \in 1..6 : i = 2 * k
  <2>1. PICK k \in 1..6 : i = 2 * k
    BY <1>3
  <2>2. s = Framed(code)[k] + 1 /\ Framed(code)[k] \in Letters
    BY <2>1, MelodyIs
  <2> QED
    BY <2>1, <2>2 DEF Letters
<1>4. CASE \E k \in 1..5 : i = 2 * k + 1
  BY <1>4, MelodyIs
<1> QED
  BY <1>1, <1>2, <1>3, <1>4

LEMMA PollsEnough ==
  ASSUME NEW s \in 0..29
  PROVE  /\ Polls(s) \in Nat /\ Polls(s) >= Needed(s)
         /\ Polls(Start) >= 6 /\ Polls(Silence) >= 6
         /\ s \in 1..26 => Polls(s) >= 3
BY DEF Polls, Needed, Start, Sep, End, Silence

\* e has all of the repetition up to its i-th tone.
Has(e, code, i) ==
  /\ e.dec.collecting = TRUE
  /\ e.dec.run = Melody(code)[i] /\ e.dec.last = e.dec.run
  /\ Len(e.dec.letters) = i \div 2
  /\ \A j \in 1..(i \div 2) : e.dec.letters[j] = Framed(code)[j]

LEMMA LettersGrow ==
  ASSUME NEW letters \in Seq(Nat), NEW g, NEW k \in 1..6, Len(letters) = k - 1, g[k] \in Nat,
         \A j \in 1..(k - 1) : letters[j] = g[j], NEW t, t = Append(letters, g[k])
  PROVE  Len(t) = k /\ \A j \in 1..k : t[j] = g[j]
<1>1. /\ Len(t) = Len(letters) + 1 /\ DOMAIN letters = 1..Len(letters)
      /\ t[Len(letters) + 1] = g[k] /\ \A j \in DOMAIN letters : t[j] = letters[j]
  BY Appended
<1>2. Len(letters) + 1 = k
  OBVIOUS
<1>3. \A j \in 1..k : j = k \/ j \in 1..(k - 1)
  OBVIOUS
<1> QED
  BY <1>1, <1>2, <1>3

\* A letter after the start or a separator.
LEMMA LetterHeard ==
  ASSUME NEW e, Attends(e), e.phase = "on", NEW code \in Codes, NEW k \in 1..6,
         Has(e, code, 2 * k - 1), NEW n \in Nat, n >= 3, NEW f, f = Poll(e, Melody(code)[2 * k], n)
  PROVE  f.phase = "on" /\ Has(f, code, 2 * k) /\ Melody(code)[2 * k] \in 1..26
<1> DEFINE s == Melody(code)[2 * k]
           g == Framed(code)
<1>1. s = g[k] + 1 /\ g[k] \in Letters
  BY MelodyIs
<1>2. s \in 1..26 /\ s - 1 = g[k] /\ g[k] \in Nat
  BY <1>1 DEF Letters
<1>3. Melody(code)[2 * k - 1] \in {Start, Sep}
  <2>1. k = 1 \/ (k - 1 \in 1..5 /\ 2 * k - 1 = 2 * (k - 1) + 1)
    OBVIOUS
  <2> QED
    BY <2>1, MelodyIs
<1>4. (2 * k - 1) \div 2 = k - 1 /\ (2 * k) \div 2 = k
  OBVIOUS
<1>0. f = Poll(e, s, n)
  OBVIOUS
<1> HIDE DEF s, g
<1>5. /\ e.dec.collecting = TRUE /\ e.dec.run \in {Start, Sep} /\ e.dec.last = e.dec.run
      /\ Len(e.dec.letters) = k - 1 /\ \A j \in 1..(k - 1) : e.dec.letters[j] = g[j]
  BY <1>3, <1>4 DEF Has, g
<1>6. e.dec.run # s /\ e.dec.last # s /\ Len(e.dec.letters) <= 5
  BY <1>2, <1>5 DEF Start, Sep
<1>7. /\ f.phase = "on" /\ f.dec.collecting = TRUE
      /\ f.dec.letters = Append(e.dec.letters, s - 1)
      /\ f.dec.run = s /\ f.dec.last = s
  <2>1. LetterTo(e, s, f)
    BY <1>0, <1>2, <1>5, <1>6, HearLetter
  <2> QED
    BY <2>1 DEF LetterTo
<1>8. e.dec.letters \in Seq(Nat)
  BY DEF Attends, Shaped
<1>9. Len(f.dec.letters) = k /\ \A j \in 1..k : f.dec.letters[j] = g[j]
  BY <1>2, <1>5, <1>7, <1>8, LettersGrow
<1> QED
  BY <1>2, <1>4, <1>7, <1>9 DEF Has, s, g

\* A separator after a letter.
LEMMA SepHeard ==
  ASSUME NEW e, Attends(e), e.phase = "on", NEW code \in Codes, NEW k \in 1..5,
         Has(e, code, 2 * k), NEW n \in Nat, n >= 2, NEW f, f = Poll(e, Sep, n)
  PROVE  f.phase = "on" /\ Has(f, code, 2 * k + 1)
<1>1. Melody(code)[2 * k] \in 1..26
  BY MelodyIs DEF Letters
<1>2. Melody(code)[2 * k + 1] = Sep /\ Sep \in 0..29 /\ Needed(Sep) = 2
  BY MelodyIs, NeededIs DEF Sep
<1>3. (2 * k + 1) \div 2 = k /\ (2 * k) \div 2 = k
  OBVIOUS
<1>4. e.dec.run # Sep
  <2>1. e.dec.run = Melody(code)[2 * k]
    BY DEF Has
  <2> QED
    BY <1>1, <2>1 DEF Sep
<1>5. /\ f.phase = "on" /\ f.dec.collecting = e.dec.collecting
      /\ f.dec.letters = e.dec.letters /\ f.dec.run = Sep /\ f.dec.last = Sep
  <2>1. AddsNothing(e, Sep, f)
    BY <1>2, <1>4, HearOn
  <2> QED
    BY <2>1 DEF AddsNothing
<1> QED
  BY <1>2, <1>3, <1>5 DEF Has

\* The end tone after six letters.
LEMMA EndHeard ==
  ASSUME NEW e, Attends(e), e.phase = "on", NEW code \in Codes,
         Has(e, code, 12), NEW n \in Nat, n >= 3, NEW f, f = Poll(e, End, n)
  PROVE  f.phase = "off" /\ f.box # NoCode
<1>1. Melody(code)[12] \in 1..26
  <2>1. 2 * 6 = 12
    OBVIOUS
  <2> QED
    BY <2>1, MelodyIs DEF Letters
<1>2. 12 \div 2 = 6
  OBVIOUS
<1>3. /\ e.dec.run # End /\ e.dec.last # End /\ e.dec.collecting = TRUE
      /\ Len(e.dec.letters) = 6 /\ \A j \in 1..6 : e.dec.letters[j] = Framed(code)[j]
  BY <1>1, <1>2 DEF Has, End
<1>4. e.dec.letters \in Seq(Nat)
  BY DEF Attends, Shaped
<1>5. ValidFrame(e.dec.letters) /\ SubSeq(e.dec.letters, 1, CodeLen) # NoCode
  BY <1>3, <1>4, FrameIs
<1>6. f.phase = "off" /\ f.box = SubSeq(e.dec.letters, 1, CodeLen)
  BY <1>3, <1>5, HearEnd
<1> QED
  BY <1>5, <1>6

\* The start tone after the gap.
LEMMA StartHeard ==
  ASSUME NEW e, Attends(e), e.phase = "on", NEW code \in Codes, e.dec.run = Silence,
         e.dec.last = Silence, NEW n \in Nat, n >= 6, NEW f, f = Poll(e, Start, n)
  PROVE  f.phase = "on" /\ Has(f, code, 1)
<1>1. Silence # Start
  BY DEF Silence, Start
<1>2. /\ f.phase = "on" /\ f.dec.collecting = TRUE /\ f.dec.letters = <<>>
      /\ f.dec.run = Start /\ f.dec.last = Start
  BY <1>1, HearStart
<1>3. 1 \div 2 = 0 /\ Len(<<>>) = 0
  OBVIOUS
<1> QED
  BY <1>2, <1>3, MelodyIs DEF Has

-----------------------------------------------------------------------------
(* The invariant.                                                          *)

\* A new count of what was heard changes nothing else.
LEMMA CountIs ==
  ASSUME NEW f, Attends(f), NEW w, NEW e, e = [f EXCEPT !.whole = w]
  PROVE  /\ Attends(e) /\ e.whole = w /\ e.phase = f.phase /\ e.box = f.box /\ e.dec = f.dec
<1>1. /\ DOMAIN e = DOMAIN f /\ e.whole = w /\ e.phase = f.phase /\ e.box = f.box
      /\ e.dec = f.dec
  BY DEF Attends, Shaped
<1> QED
  BY <1>1 DEF Attends, Shaped, Confirmed

LEMMA AirIs ==
  ASSUME AirOK(air), air # Quiet
  PROVE  /\ air.code \in Codes /\ air.slot \in 1..14
         /\ Tone \in 0..29 /\ (Tone # Silence => air.slot \in 1..13)
         /\ AirOK(Advanced)
         /\ air.slot < 14 =>
              Advanced # Quiet /\ Advanced.slot = air.slot + 1 /\ Advanced.code = air.code
         /\ Advanced.slot = 1 => air.slot = 14
<1>1. /\ DOMAIN air = {"code", "repeat", "slot"} /\ air.code \in Codes /\ air.repeat \in Nat
      /\ air.slot \in 1..14
  BY DEF AirOK
<1>2. Tone \in 0..29 /\ (air.slot = 14 => Tone = Silence)
  BY <1>1, ToneAt DEF Tone, Start, Sep, End, Silence
<1>3. air.code # NoCode
  <2>1. air.code \in Seq(Letters) /\ Len(air.code) = 5
    BY <1>1, AudioConstants DEF CodeLen
  <2> QED
    BY <2>1 DEF NoCode
<1>4. CASE air.slot < 14
  <2>1. Advanced = [air EXCEPT !.slot = air.slot + 1]
    BY <1>4 DEF Advanced, CodeLen
  <2>2. /\ DOMAIN Advanced = DOMAIN air /\ Advanced.slot = air.slot + 1
        /\ Advanced.code = air.code /\ Advanced.repeat = air.repeat
    BY <1>1, <2>1
  <2>3. Advanced # Quiet
    BY <1>3, <2>2 DEF Quiet
  <2> QED
    BY <1>1, <1>2, <1>4, <2>2, <2>3 DEF AirOK
<1>5. CASE air.slot = 14
  <2>1. Advanced = Quiet \/ Advanced = [air EXCEPT !.slot = 1, !.repeat = air.repeat + 1]
    BY <1>5 DEF Advanced, CodeLen
  <2>2. CASE Advanced = Quiet
    BY <1>1, <1>2, <1>5, <2>2 DEF AirOK
  <2>3. CASE Advanced = [air EXCEPT !.slot = 1, !.repeat = air.repeat + 1]
    <3>1. /\ DOMAIN Advanced = DOMAIN air /\ Advanced.slot = 1
          /\ Advanced.code = air.code /\ Advanced.repeat = air.repeat + 1
      BY <1>1, <2>3
    <3> QED
      BY <1>1, <1>2, <1>5, <3>1 DEF AirOK
  <2> QED
    BY <2>1, <2>2, <2>3
<1> QED
  BY <1>1, <1>4, <1>5

\* The last step of every tone: what was heard is counted, and the melody goes on.
LEMMA ToneCounted ==
  ASSUME AirOK(air), air # Quiet, NEW f, Attends(f), NEW w,
         \/ w = 0
         \/ w = air.slot /\ air.slot \in 1..12 /\ f.phase = "on" /\ Has(f, air.code, air.slot)
         \/ f.phase = "off" /\ f.box # NoCode,
         air.slot = 14 /\ f.phase = "on" => f.dec.run = Silence /\ f.dec.last = Silence,
         ear' = [f EXCEPT !.whole = w], air' = Advanced
  PROVE  AudioInv'
<1>1. /\ Attends(ear') /\ ear'.whole = w /\ ear'.phase = f.phase /\ ear'.box = f.box
      /\ ear'.dec = f.dec
  BY CountIs
<1>2. /\ air.code \in Codes /\ air.slot \in 1..14 /\ AirOK(air')
      /\ air.slot < 14 => air' # Quiet /\ air'.slot = air.slot + 1 /\ air'.code = air.code
      /\ air'.slot = 1 => air.slot = 14
  BY AirIs
<1>3. EarOK(ear')
  BY <1>1 DEF Attends, EarOK, AtRest
<1>4. Heard(ear', air')
  <2> SUFFICES ASSUME ear'.phase = "on", ear'.box = NoCode
               PROVE  /\ air'.slot = 1 => ear'.dec.run = Silence /\ ear'.dec.last = Silence
                      /\ ear'.whole = 0 \/ HasHeard(ear', air')
    BY DEF Heard
  <2>1. air'.slot = 1 => ear'.dec.run = Silence /\ ear'.dec.last = Silence
    BY <1>1, <1>2
  <2>2. CASE w = 0
    BY <1>1, <2>1, <2>2
  <2>3. CASE w = air.slot /\ air.slot \in 1..12 /\ f.phase = "on" /\ Has(f, air.code, air.slot)
    <3>1. air' # Quiet /\ air'.slot = air.slot + 1 /\ air'.code = air.code
      BY <1>2, <2>3
    <3>2. /\ ear'.dec.collecting = TRUE /\ ear'.dec.run = Melody(air'.code)[ear'.whole]
          /\ ear'.dec.last = ear'.dec.run /\ Len(ear'.dec.letters) = ear'.whole \div 2
          /\ \A i \in 1..(ear'.whole \div 2) : ear'.dec.letters[i] = Framed(air'.code)[i]
      BY <1>1, <2>3, <3>1 DEF Has
    <3>3. ear'.whole = air'.slot - 1 /\ ear'.whole \in 1..12
      BY <1>1, <2>3, <3>1
    <3> QED
      BY <2>1, <3>1, <3>2, <3>3 DEF HasHeard
  <2> QED
    BY <1>1, <2>1, <2>2, <2>3
<1> QED
  BY <1>2, <1>3, <1>4 DEF AudioInv

\* Who listens and has no code attends, and has all of the repetition or counts nothing.
LEMMA Listening ==
  ASSUME AudioInv, ear.phase = "on"
  PROVE  /\ Attends(ear) /\ ear.box = NoCode
         /\ air.slot = 1 => ear.whole = 0 /\ ear.dec.run = Silence /\ ear.dec.last = Silence
         /\ ear.whole = 0 \/ (/\ ear.whole = air.slot - 1 /\ ear.whole \in 1..12
                              /\ Has(ear, air.code, ear.whole))
<1>1. Shaped(ear) /\ Confirmed(ear) /\ ear.box = NoCode /\ Heard(ear, air)
  BY DEF AudioInv, EarOK, AtRest
<1>2. Attends(ear)
  BY <1>1 DEF Attends
<1>3. ear.whole = 0 \/ (/\ ear.whole = air.slot - 1 /\ ear.whole \in 1..12
                        /\ Has(ear, air.code, ear.whole))
  BY <1>1 DEF Heard, HasHeard, Has
<1>4. air.slot = 1 => ear.dec.run = Silence /\ ear.dec.last = Silence
  BY <1>1 DEF Heard
<1>5. air.slot = 1 => ear.whole = 0
  BY <1>3
<1> QED
  BY <1>1, <1>2, <1>3, <1>4, <1>5

\* What is counted with a tone that was heard as it was played, or through a flicker:
\* all of the repetition so far or nothing.
LEMMA HeardTone ==
  ASSUME NEW e, Attends(e), e.phase = "on", NEW code \in Codes, NEW i \in 1..14,
         NEW s, s = Melody(code)[i], NEW f, f = Poll(e, s, Polls(s)),
         i = 1 => e.dec.run = Silence /\ e.dec.last = Silence,
         i # 1 => i - 1 \in 1..12 /\ Has(e, code, i - 1)
  PROVE  \/ i \in 1..12 /\ f.phase = "on" /\ Has(f, code, i)
         \/ f.phase = "off" /\ f.box # NoCode
<1>0. s \in 0..29
  BY ToneAt DEF Start, Sep, End, Silence
<1>1. CASE i = 1 /\ s = Start
  <2>1. Polls(s) \in Nat /\ Polls(s) >= 6
    BY <1>0, <1>1, PollsEnough
  <2>2. f.phase = "on" /\ Has(f, code, 1)
    BY <1>1, <2>1, StartHeard
  <2> QED
    BY <1>1, <2>2
<1>2. CASE \E k \in 1..6 : i = 2 * k /\ s \in 1..26
  <2>1. PICK k \in 1..6 : i = 2 * k
    BY <1>2
  <2>2. Polls(s) \in Nat /\ Polls(s) >= 3
    BY <1>0, <1>2, PollsEnough
  <2>3. f = Poll(e, Melody(code)[2 * k], Polls(s)) /\ Has(e, code, 2 * k - 1)
    BY <2>1
  <2>4. f.phase = "on" /\ Has(f, code, 2 * k)
    BY <2>2, <2>3, LetterHeard
  <2> QED
    BY <2>1, <2>4
<1>3. CASE \E k \in 1..5 : i = 2 * k + 1 /\ s = Sep
  <2>1. PICK k \in 1..5 : i = 2 * k + 1
    BY <1>3
  <2>2. Polls(s) \in Nat /\ Polls(s) >= 2
    BY <1>0, <1>3, PollsEnough, NeededIs
  <2>3. i - 1 = 2 * k
    BY <2>1
  <2>4. Has(e, code, 2 * k)
    BY <2>1, <2>3
  <2>5. f.phase = "on" /\ Has(f, code, 2 * k + 1)
    BY <1>3, <2>2, <2>4, SepHeard
  <2> QED
    BY <2>1, <2>5
<1>4. CASE i = 13 /\ s = End
  <2>1. Polls(s) \in Nat /\ Polls(s) >= 3
    BY <1>0, <1>4, PollsEnough, NeededIs
  <2>2. Has(e, code, 12)
    <3>1. i - 1 = 12
      BY <1>4
    <3> QED
      BY <1>4, <3>1
  <2> QED
    BY <1>4, <2>1, <2>2, EndHeard
<1>5. i # 14
  OBVIOUS
<1> QED
  BY <1>1, <1>2, <1>3, <1>4, <1>5, ToneAt

LEMMA HearKeeps == AudioInv /\ HearTone => AudioInv'
<1> SUFFICES ASSUME AudioInv, HearTone PROVE AudioInv'
  OBVIOUS
<1>1. AirOK(air) /\ air # Quiet /\ air' = Advanced
  BY DEF AudioInv, HearTone
<1>2. /\ air.code \in Codes /\ air.slot \in 1..14 /\ Tone \in 0..29 /\ AirOK(air')
      /\ Tone = Melody(air.code)[air.slot]
  BY <1>1, AirIs DEF Tone
<1>3. CASE ear.phase # "on"
  <2>1. ear' = ear
    BY <1>3 DEF HearTone
  <2> QED
    BY <1>2, <1>3, <2>1 DEF AudioInv, EarOK, Heard
<1>4. CASE ear.phase = "on"
  <2>1. PICK f : f = Poll(ear, Tone, Polls(Tone))
    OBVIOUS
  <2>2. ear' = [f EXCEPT !.whole = Whole]
    BY <1>4, <2>1 DEF HearTone
  <2>3. /\ Attends(ear) /\ ear.box = NoCode
        /\ air.slot = 1 => ear.whole = 0 /\ ear.dec.run = Silence /\ ear.dec.last = Silence
        /\ ear.whole = 0 \/ (/\ ear.whole = air.slot - 1 /\ ear.whole \in 1..12
                             /\ Has(ear, air.code, ear.whole))
    BY <1>4, Listening
  <2>4. Polls(Tone) \in Nat /\ (Tone = Silence => Polls(Tone) >= 6)
    BY <1>2, PollsEnough
  <2>5. Attends(f) /\ RunIs(f, Tone, Polls(Tone))
    BY <1>2, <2>1, <2>3, <2>4, PollKeeps
  <2>6. air.slot = 14 /\ f.phase = "on" => f.dec.run = Silence /\ f.dec.last = Silence
    <3> SUFFICES ASSUME air.slot = 14, f.phase = "on"
                 PROVE  f.dec.run = Silence /\ f.dec.last = Silence
      OBVIOUS
    <3>1. Tone = Silence
      BY <1>2, MelodyIs
    <3>2. f.dec.run = Silence /\ f.dec.length = 6 /\ Confirmed(f)
      BY <2>4, <2>5, <3>1 DEF Attends, RunIs
    <3>3. Needed(Silence) = 3
      BY NeededIs DEF Silence
    <3> QED
      BY <3>2, <3>3 DEF Confirmed
  <2>7. \/ Whole = 0
        \/ Whole = air.slot /\ air.slot = 1
        \/ Whole = air.slot /\ air.slot # 1 /\ ear.whole = air.slot - 1
    BY <1>2 DEF Whole
  <2>8. \/ Whole = 0
        \/ Whole = air.slot /\ air.slot \in 1..12 /\ f.phase = "on" /\ Has(f, air.code, air.slot)
        \/ f.phase = "off" /\ f.box # NoCode
    <3> SUFFICES ASSUME Whole # 0
                 PROVE  \/ Whole = air.slot /\ air.slot \in 1..12 /\ f.phase = "on"
                              /\ Has(f, air.code, air.slot)
                        \/ f.phase = "off" /\ f.box # NoCode
      OBVIOUS
    <3>1. Whole = air.slot
      BY <2>7
    <3>2. air.slot # 1 => air.slot - 1 \in 1..12 /\ Has(ear, air.code, air.slot - 1)
      BY <1>2, <2>3, <2>7
    <3>3. \/ air.slot \in 1..12 /\ f.phase = "on" /\ Has(f, air.code, air.slot)
          \/ f.phase = "off" /\ f.box # NoCode
      BY <1>2, <1>4, <2>1, <2>3, <3>2, HeardTone
    <3> QED
      BY <3>1, <3>3
  <2> QED
    BY <1>1, <2>2, <2>5, <2>6, <2>8, ToneCounted
<1> QED
  BY <1>3, <1>4

\* A tone disturbed leaves the decoder and the button as they are.
LEMMA DisturbedIs ==
  ASSUME Attends(ear)
  PROVE  /\ Attends(Disturbed) /\ Disturbed.phase = ear.phase /\ Disturbed.dec = ear.dec
         /\ \A s : Attends(Mistaken(s)) /\ Mistaken(s).phase = ear.phase
<1>1. /\ DOMAIN Disturbed = DOMAIN ear /\ Disturbed.phase = ear.phase
      /\ Disturbed.dec = ear.dec /\ Disturbed.box = ear.box
  BY DEF Disturbed, Attends, Shaped
<1>2. Attends(Disturbed)
  BY <1>1 DEF Attends, Shaped, Confirmed
<1>3. ASSUME NEW s
      PROVE  Attends(Mistaken(s)) /\ Mistaken(s).phase = ear.phase
  <2> DEFINE d == Disturbed
             m == Mistaken(s)
  <2>1. m = [d EXCEPT !.wrong = d.wrong + 1] \/ m = [d EXCEPT !.broken = TRUE]
    BY DEF Mistaken
  <2>2. Shaped(d)
    BY <1>2 DEF Attends
  <2> HIDE DEF d, m
  <2>3. /\ DOMAIN m = DOMAIN d /\ m.phase = d.phase /\ m.dec = d.dec /\ m.box = d.box
    BY <2>1, <2>2 DEF Shaped
  <2> QED
    BY <1>1, <1>2, <2>3 DEF d, m, Attends, Shaped, Confirmed
<1> QED
  BY <1>1, <1>2, <1>3

LEMMA NoiseKeeps == AudioInv /\ (MissTone \/ MishearTone) => AudioInv'
<1> SUFFICES ASSUME AudioInv, MissTone \/ MishearTone PROVE AudioInv'
  OBVIOUS
<1>1. /\ AirOK(air) /\ air # Quiet /\ air' = Advanced /\ ear.phase = "on" /\ Tone # Silence
  BY DEF AudioInv, MissTone, MishearTone
<1>2. Tone \in 0..29 /\ air.slot \in 1..13
  BY <1>1, AirIs
<1>3. Attends(ear)
  BY <1>1, Listening
<1>4. Needed(Tone) - 1 \in Nat /\ \A s \in 0..28 : s \in 0..29
  BY <1>2, NeededIs
<1>5. Polls(Tone) \in Nat
  BY <1>2, PollsEnough
<1>6. PICK f : Attends(f) /\ ear' = [f EXCEPT !.whole = 0]
  <2>1. CASE MissTone
    <3>1. \/ ear' = [Disturbed EXCEPT !.whole = 0]
          \/ ear' = [Poll(Disturbed, Tone, Needed(Tone) - 1) EXCEPT !.whole = 0]
      BY <2>1 DEF MissTone
    <3>2. Attends(Disturbed)
      BY <1>3, DisturbedIs
    <3>3. Attends(Poll(Disturbed, Tone, Needed(Tone) - 1))
      BY <1>2, <1>4, <3>2, PollKeeps
    <3> QED
      BY <3>1, <3>2, <3>3
  <2>2. CASE MishearTone
    <3>1. PICK s \in 0..28 : ear' = [Poll(Mistaken(s), s, Polls(Tone)) EXCEPT !.whole = 0]
      BY <2>2 DEF MishearTone
    <3>2. Attends(Mistaken(s))
      BY <1>3, DisturbedIs
    <3>3. Attends(Poll(Mistaken(s), s, Polls(Tone)))
      BY <1>4, <1>5, <3>2, PollKeeps
    <3> QED
      BY <3>1, <3>3
  <2> QED
    BY <2>1, <2>2
<1>7. air.slot # 14
  BY <1>2
<1> QED
  BY <1>1, <1>6, <1>7, ToneCounted

\* A letter with a false poll in its middle is heard once.
LEMMA FlickerKeeps == AudioInv /\ FlickerTone => AudioInv'
<1> SUFFICES ASSUME AudioInv, FlickerTone PROVE AudioInv'
  OBVIOUS
<1>1. /\ AirOK(air) /\ air # Quiet /\ air' = Advanced /\ ear.phase = "on" /\ Tone \in 1..26
  BY DEF AudioInv, FlickerTone
<1>2. PICK s \in {Silence, Sep} :
        ear' = [Poll(Poll(Poll(Disturbed, Tone, 4), s, 1), Tone, 4) EXCEPT !.whole = Whole]
  BY DEF FlickerTone
<1>3. /\ air.code \in Codes /\ Tone \in 0..29 /\ s \in 0..29 /\ s # Tone
      /\ Tone = Melody(air.code)[air.slot] /\ air.slot \in 1..14
  BY <1>1, AirIs DEF Tone, Silence, Sep
<1>4. /\ Attends(ear)
      /\ air.slot = 1 => ear.whole = 0 /\ ear.dec.run = Silence /\ ear.dec.last = Silence
      /\ ear.whole = 0 \/ (/\ ear.whole = air.slot - 1 /\ ear.whole \in 1..12
                           /\ Has(ear, air.code, ear.whole))
  BY <1>1, Listening
<1>5. Attends(Disturbed) /\ Disturbed.phase = "on" /\ Disturbed.dec = ear.dec
  BY <1>1, <1>4, DisturbedIs
<1>6. PICK f1 : f1 = Poll(Disturbed, Tone, 4)
  OBVIOUS
<1>7. PICK f2 : f2 = Poll(f1, s, 1)
  OBVIOUS
<1>8. PICK f3 : f3 = Poll(f2, Tone, 4)
  OBVIOUS
<1>9. Attends(f1) /\ Attends(f2) /\ Attends(f3)
  <2>1. Attends(f1)
    BY <1>3, <1>5, <1>6, PollKeeps
  <2>2. Attends(f2)
    BY <1>3, <1>7, <2>1, PollKeeps
  <2>3. Attends(f3)
    BY <1>3, <1>8, <2>2, PollKeeps
  <2> QED
    BY <2>1, <2>2, <2>3
<1>10. PICK k \in 1..6 : air.slot = 2 * k
  <2>1. Tone # Start /\ Tone # Sep /\ Tone # End /\ Tone # Silence
    BY <1>1 DEF Start, Sep, End, Silence
  <2> QED
    BY <1>3, <2>1, ToneAt
<1>11. ear' = [f3 EXCEPT !.whole = Whole]
  BY <1>2, <1>6, <1>7, <1>8
<1>12. Whole = 0 \/ (Whole = air.slot /\ ear.whole = air.slot - 1)
  BY <1>10 DEF Whole
<1>13. air.slot # 14 /\ air.slot \in 1..12
  BY <1>10
<1>14. CASE Whole = 0
  BY <1>1, <1>9, <1>11, <1>13, <1>14, ToneCounted
<1>15. CASE Whole = air.slot /\ ear.whole = air.slot - 1
  <2>1. Has(ear, air.code, 2 * k - 1)
    BY <1>4, <1>10, <1>15
  <2>2. Has(Disturbed, air.code, 2 * k - 1)
    BY <1>5, <2>1 DEF Has
  <2>3. f1.phase = "on" /\ Has(f1, air.code, 2 * k)
    BY <1>3, <1>5, <1>6, <1>10, <2>2, LetterHeard
  <2>4. f1.dec.run = Tone /\ f1.dec.last = Tone
    BY <1>3, <1>10, <2>3 DEF Has
  <2>5. /\ f2.phase = "on" /\ f2.dec.collecting = f1.dec.collecting
        /\ f2.dec.letters = f1.dec.letters /\ f2.dec.run = s /\ f2.dec.last = f1.dec.last
    BY <1>3, <1>7, <1>9, <2>3, <2>4, HearBlip
  <2>6. 4 >= Needed(Tone) /\ f2.dec.run # Tone /\ Tone = f2.dec.last
    BY <1>1, <1>3, <2>4, <2>5, NeededIs
  <2>7. /\ f3.phase = "on" /\ f3.dec.collecting = f2.dec.collecting
        /\ f3.dec.letters = f2.dec.letters /\ f3.dec.run = Tone /\ f3.dec.last = Tone
    <3>1. AddsNothing(f2, Tone, f3)
      BY <1>3, <1>8, <1>9, <2>5, <2>6, HearOn
    <3> QED
      BY <3>1 DEF AddsNothing
  <2>8. Has(f3, air.code, air.slot)
    BY <1>3, <1>10, <2>3, <2>5, <2>7 DEF Has
  <2> QED
    BY <1>1, <1>9, <1>11, <1>13, <1>15, <2>7, <2>8, ToneCounted
<1> QED
  BY <1>12, <1>14, <1>15

\* The button is not listening: nothing has been counted unless a code is in the field.
LEMMA ButtonOff ==
  ASSUME AudioInv, ear' = Settle(ear, "none") \/ ear' = Settle(ear, "unsupported")
                   \/ ear' = Settle(ear, "permission") \/ ear' = Settle(ear, "timeout"),
         ear.phase # "off", UNCHANGED air
  PROVE  AudioInv'
<1>1. Shaped(ear) /\ AtRest(ear)
  BY DEF AudioInv, EarOK
<1>2. /\ DOMAIN ear' = DOMAIN ear /\ ear'.phase = "off" /\ ear'.dec = NoRun /\ ear'.whole = 0
      /\ ear'.box = ear.box
  BY <1>1 DEF Settle, Shaped
<1>3. Shaped(ear')
  BY <1>1, <1>2, NoRunShaped DEF Shaped
<1>4. EarOK(ear') /\ Heard(ear', air')
  BY <1>1, <1>2, <1>3 DEF EarOK, AtRest, Heard
<1> QED
  BY <1>4 DEF AudioInv

LEMMA ButtonKeeps ==
  AudioInv /\ (Listen \/ CancelListen \/ Microphone \/ ListenTimeout) => AudioInv'
<1> SUFFICES ASSUME AudioInv, Listen \/ CancelListen \/ Microphone \/ ListenTimeout
             PROVE  AudioInv'
  OBVIOUS
<1>1. Shaped(ear) /\ AtRest(ear) /\ AirOK(air) /\ EarOK(ear)
  BY DEF AudioInv, EarOK
<1>2. CASE Listen
  <2>1. /\ ear.phase = "off" /\ ear.box = NoCode
        /\ ear' = [ear EXCEPT !.phase = "asking", !.message = "none"] /\ air' = air
    BY <1>2 DEF Listen
  <2>2. /\ DOMAIN ear' = DOMAIN ear /\ ear'.phase = "asking" /\ ear'.dec = ear.dec
        /\ ear'.whole = ear.whole /\ ear'.box = ear.box
    BY <1>1, <2>1 DEF Shaped
  <2>3. EarOK(ear') /\ Heard(ear', air')
    BY <1>1, <2>1, <2>2 DEF EarOK, Shaped, AtRest, Heard
  <2> QED
    BY <1>1, <2>1, <2>3 DEF AudioInv
<1>3. CASE ear.phase # "off" /\ ear' = [ear EXCEPT !.signal = TRUE] /\ ear.phase # "on"
           /\ air' = air
  <2>1. /\ DOMAIN ear' = DOMAIN ear /\ ear'.phase = ear.phase /\ ear'.dec = ear.dec
        /\ ear'.whole = ear.whole /\ ear'.box = ear.box
    BY <1>1, <1>3 DEF Shaped
  <2>2. EarOK(ear') /\ Heard(ear', air')
    BY <1>1, <1>3, <2>1 DEF EarOK, Shaped, AtRest, Heard
  <2> QED
    BY <1>1, <1>3, <2>2 DEF AudioInv
<1>4. CASE ear.phase = "asking" /\ ear' = [ear EXCEPT !.phase = "on"] /\ air' = air
  <2>1. /\ DOMAIN ear' = DOMAIN ear /\ ear'.phase = "on" /\ ear'.dec = ear.dec
        /\ ear'.whole = ear.whole /\ ear'.box = ear.box
    BY <1>1, <1>4 DEF Shaped
  <2>2. ear.dec = NoRun /\ ear.box = NoCode /\ ear.whole = 0
    BY <1>1, <1>4 DEF AtRest
  <2>3. NoRun.run = Silence /\ NoRun.last = Silence /\ NoRun.length = 0
    BY DEF NoRun
  <2>4. Shaped(ear') /\ Confirmed(ear') /\ AtRest(ear')
    BY <1>1, <2>1, <2>2, <2>3 DEF Shaped, Confirmed, AtRest
  <2>5. Heard(ear', air')
    BY <2>1, <2>2, <2>3 DEF Heard
  <2> QED
    BY <1>1, <1>4, <2>4, <2>5 DEF AudioInv, EarOK
<1>5. CASE /\ ear.phase # "off" /\ air' = air
           /\ \/ ear' = Settle(ear, "none") \/ ear' = Settle(ear, "unsupported")
              \/ ear' = Settle(ear, "permission") \/ ear' = Settle(ear, "timeout")
  BY <1>5, ButtonOff
<1>6. CASE CancelListen
  BY <1>3, <1>5, <1>6 DEF CancelListen
<1>7. CASE Microphone
  BY <1>4, <1>5, <1>7 DEF Microphone
<1>8. CASE ListenTimeout
  BY <1>5, <1>8 DEF ListenTimeout
<1> QED
  BY <1>2, <1>6, <1>7, <1>8

LEMMA PlayKeeps == AudioInv /\ PlayCode => AudioInv'
<1> SUFFICES ASSUME AudioInv, PlayCode PROVE AudioInv'
  OBVIOUS
<1>1. PICK code \in Codes : air' = [Quiet EXCEPT !.code = code]
  BY DEF PlayCode
<1>2. air = Quiet /\ ear' = ear /\ EarOK(ear) /\ Heard(ear, air)
  BY DEF PlayCode, AudioInv
<1>3. /\ DOMAIN air' = {"code", "repeat", "slot"} /\ air'.code = code /\ air'.repeat = 1
      /\ air'.slot = 1 /\ air.slot = 1
  BY <1>1, <1>2 DEF Quiet
<1>4. AirOK(air')
  BY <1>3 DEF AirOK
<1>5. Heard(ear', air')
  BY <1>2, <1>3 DEF Heard, HasHeard
<1> QED
  BY <1>2, <1>4, <1>5 DEF AudioInv

LEMMA AudioStarts == AudioInit => AudioInv
<1> SUFFICES ASSUME AudioInit PROVE AudioInv
  OBVIOUS
<1>1. /\ DOMAIN ear = {"phase", "signal", "box", "message", "dec", "whole", "noise", "wrong", "broken"}
      /\ ear.phase = "off" /\ ear.dec = NoRun /\ ear.whole = 0 /\ ear.box = NoCode
  BY DEF AudioInit, Deaf
<1>2. Shaped(ear)
  BY <1>1, NoRunShaped
<1> QED
  BY <1>1, <1>2 DEF AudioInit, AudioInv, AirOK, EarOK, AtRest, Heard

LEMMA AudioStep == AudioInv /\ [AudioNext]_audioVars => AudioInv'
<1>1. CASE UNCHANGED audioVars
  BY <1>1 DEF audioVars, AudioInv
<1> QED
  BY <1>1, PlayKeeps, HearKeeps, NoiseKeeps, FlickerKeeps, ButtonKeeps DEF AudioNext

\* Whatever the decoder has heard before, missed or mistaken, and however often the
\* button was tapped: one repetition that arrives as it was played, the flickers aside,
\* puts a code in the field with its end tone.
THEOREM OneFrameKept == AudioSpec => []OneFrameIsEnough
<1>1. AudioInv => OneFrameIsEnough
  <2> SUFFICES ASSUME AudioInv, ear.whole >= 13, ear.box = NoCode PROVE FALSE
    BY DEF OneFrameIsEnough, CodeLen
  <2>1. CASE ear.phase = "on"
    <3>1. ear.whole = 0 \/ ear.whole \in 1..12
      BY <2>1, Listening
    <3> QED
      BY <3>1
  <2>2. CASE ear.phase # "on"
    BY <2>2 DEF AudioInv, EarOK, AtRest
  <2> QED
    BY <2>1, <2>2
<1> QED
  BY <1>1, AudioStarts, AudioStep, PTL DEF AudioSpec

===============================================================================
