-------------------------------- MODULE Signup --------------------------------
(***************************************************************************)
(* Signing up: two requests of a browser, and the transaction of the second *)
(* (auth.py), which creates the account and hands it the history that was  *)
(* kept under the browser's player id, while the telemetry writer goes on  *)
(* adding to histories.                                                    *)
(*                                                                         *)
(* A sign-up is also the id of the account it creates.  Postgres runs      *)
(* transactions at READ COMMITTED: others see a row when it is committed,  *)
(* and who meets a row not yet committed waits for it.                     *)
(***************************************************************************)
EXTENDS Integers, FiniteSets

CONSTANTS Pids,       \* ids of players without an account
          Names,      \* usernames
          MaxSignups  \* bound: sign-ups

ASSUME SignupConstants ==
  MaxSignups \in Nat /\ Pids \cap 0..MaxSignups = {} /\ Names # {}

AccountIds == 1..MaxSignups
NoPid == 0
Keys == Pids \cup AccountIds

VARIABLES users,    \* the rows of users
          history,  \* player_stats: whose play the row of each key has counted
          signups   \* the requests; claim: the legacy_pid of the row to insert

signupVars == <<users, history, signups>>

SignupInit ==
  /\ users = {}
  /\ history = [k \in Keys |-> {}]
  /\ signups = [s \in AccountIds |-> [pc |-> "none", name |-> CHOOSE n \in Names : TRUE,
                               legacy |-> NoPid, claim |-> NoPid, moved |-> {}]]

SignupTypeOK ==
  /\ users \subseteq [id : AccountIds, name : Names, claim : Keys \cup {NoPid}]
  /\ history \in [Keys -> SUBSET Keys]
  /\ signups \in [AccountIds -> [pc : {"none", "asked", "popped", "selected", "inserted",
                                       "moved", "over"},
                          name : Names, legacy : Keys \cup {NoPid}, claim : Keys \cup {NoPid},
                          moved : SUBSET Keys]]

-----------------------------------------------------------------------------

Registered == {u.id : u \in users}

Over(s) == signups' = [signups EXCEPT ![s] = [pc |-> "over", name |-> signups[s].name,
                                                   legacy |-> NoPid, claim |-> NoPid,
                                                   moved |-> {}]]

\* The rows other transactions have inserted and not committed.
Pending(s) == {t \in AccountIds \ {s} : signups[t].pc \in {"inserted", "moved"}}

SameName(s, r) == r.name = signups[s].name
SameClaim(s, r) == r.claim = signups[s].claim /\ r.claim # NoPid

\* register_options, of a browser whose player id, if it has one, is an old guest's or an
\* account's.
RegisterOptions(s) ==
  /\ signups[s].pc = "none" /\ \A t \in 1..(s - 1) : signups[t].pc # "none"
  /\ \E name \in Names, legacy \in Pids \cup Registered \cup {NoPid} :
       /\ ~\E u \in users : u.name = name
       /\ signups' = [signups EXCEPT ![s].pc = "asked", ![s].name = name,
                                     ![s].legacy = legacy]
  /\ UNCHANGED <<users, history>>

\* register_verify takes the challenge, and the passkey answers it or not; or the challenge
\* expires first.
PopChallenge(s) ==
  /\ signups[s].pc = "asked"
  /\ signups' = [signups EXCEPT ![s].pc = "popped"] \/ Over(s)
  /\ UNCHANGED <<users, history>>

SelectTaken(s) ==
  /\ signups[s].pc = "popped"
  /\ LET taken == \/ signups[s].legacy \in Registered
                  \/ \E u \in users : u.claim = signups[s].legacy
         legacy == IF taken THEN NoPid ELSE signups[s].legacy
     IN  signups' = [signups EXCEPT ![s].pc = "selected", ![s].legacy = legacy,
                                    ![s].claim = legacy]
  /\ UNCHANGED <<users, history>>

\* Mutant: who lost the race for the player id takes its history along all the same.
WithoutClaim(s) == [signups[s] EXCEPT !.claim = NoPid]

WithoutHistory(s) == [signups[s] EXCEPT !.legacy = NoPid, !.claim = NoPid]

\* _insert_user, waiting for those that insert the same; losing the player id is a reason
\* to try once more without it, anything else the end of the transaction.
InsertUser(s) ==
  /\ signups[s].pc = "selected"
  /\ ~\E t \in Pending(s) : SameName(s, signups[t]) \/ SameClaim(s, signups[t])
  /\ \/ /\ ~\E u \in users : SameName(s, u) \/ SameClaim(s, u)
        /\ signups' = [signups EXCEPT ![s].pc = "inserted"]
     \/ /\ \E u \in users : SameClaim(s, u)
        /\ signups' = [signups EXCEPT ![s] = WithoutHistory(s)]
     \/ /\ \E u \in users : SameName(s, u)
        /\ Over(s)
  /\ UNCHANGED <<users, history>>

\* The credential, and the UPDATE of player_stats, which locks the row it moves.
MoveStats(s) ==
  /\ signups[s].pc = "inserted"
  /\ signups' = [signups EXCEPT ![s].pc = "moved",
                   ![s].moved = IF signups[s].legacy = NoPid THEN {}
                                ELSE history[signups[s].legacy]]
  /\ UNCHANGED <<users, history>>

CommitUser(s) ==
  LET new == signups[s]
  IN  /\ new.pc = "moved"
      /\ users' = users \cup {[id |-> s, name |-> new.name, claim |-> new.claim]}
      /\ history' = IF new.moved = {} THEN history
                    ELSE [history EXCEPT ![s] = new.moved, ![new.legacy] = {}]
      /\ Over(s)

\* The connection is lost, the process dies, or a statement fails: nothing happened.
Abort(s) ==
  /\ signups[s].pc \in {"popped", "selected", "inserted", "moved"}
  /\ Over(s)
  /\ UNCHANGED <<users, history>>

\* The writer's upserts for a session, a win or a game of player k; the sessions a browser
\* opened before it signed up go on under the old id.
WriteHistory(k) ==
  /\ k \in Pids \cup Registered
  /\ ~\E s \in AccountIds : signups[s].moved # {} /\ signups[s].legacy = k
  /\ history' = [history EXCEPT ![k] = @ \cup {k}]
  /\ UNCHANGED <<users, signups>>

SignupNext ==
  \/ \E s \in AccountIds : \/ RegisterOptions(s) \/ PopChallenge(s) \/ SelectTaken(s)
                    \/ InsertUser(s) \/ MoveStats(s) \/ CommitUser(s) \/ Abort(s)
  \/ \E k \in Keys : WriteHistory(k)

SignupSpec == SignupInit /\ [][SignupNext]_signupVars

-----------------------------------------------------------------------------

Claimed(k, pid) == \E u \in users : u.id = k /\ u.claim = pid

\* What a player has played counts for that player, or for the one account that claimed
\* the player's id; what an account has played never leaves it.
HistoryKeepsOwner ==
  /\ \A k \in Keys : \A played \in history[k] :
       played = k \/ (played \in Pids /\ Claimed(k, played))
  /\ \A k, l \in Keys, pid \in Pids : Claimed(k, pid) /\ Claimed(l, pid) => k = l

===============================================================================
