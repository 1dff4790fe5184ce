-------------------------------- MODULE Roster --------------------------------
(***************************************************************************)
(* The player list of the lobby (components/lobby-screen.js): rows that    *)
(* slide in, rows that collapse for 400 ms after their player is gone, and *)
(* the section around them, which fades out when the last row has left and *)
(* gives way to the hint of a host who is alone.  Frames arrive in the     *)
(* middle of every animation.                                              *)
(***************************************************************************)
EXTENDS Naturals, SequencesExt

CONSTANTS Guests,    \* pids of the other players
          MaxFrames  \* bound: state frames of the lobby

ASSUME RosterBounds == MaxFrames \in Nat

VARIABLES roster,  \* the section, its rows and timers
          guests   \* the others of the last frame, in order

rosterVars == <<roster, guests>>

\* A row of the list: its player and the frame that built it.
Rows == [pid : Guests, built : 1..MaxFrames]

\* children: the rows of the registry as they stand in the list.  leaving: rows that have
\* left it and collapse behind them, in an order nothing depends on.  ends: listeners for
\* the end of a fade that have not been called.
RosterTypeOK ==
  /\ roster.children \in Seq(Rows) /\ IsInjective(roster.children)
  /\ roster.leaving \subseteq Rows \ ToSet(roster.children)
  /\ roster.hideTimer \in BOOLEAN /\ roster.ends \in 0..MaxFrames
  /\ {roster.sectionEmpty, roster.hidden, roster.fading, roster.hint, roster.host} \subseteq BOOLEAN
  /\ guests \in Seq(Guests)

RosterInit ==
  /\ roster = [children |-> <<>>, leaving |-> {}, sectionEmpty |-> TRUE, hidden |-> FALSE,
               fading |-> FALSE, hint |-> FALSE, host |-> FALSE, hideTimer |-> FALSE,
               ends |-> 0, frames |-> 0]
  /\ guests = <<>>

-----------------------------------------------------------------------------

\* Mutant: the end of the fade does not look whether someone came back.
RevealAnyway(r) == [r EXCEPT !.hidden = TRUE, !.hint = r.host]

\* The fade is over: the section leaves the layout, unless someone rejoined meanwhile.
Reveal(r) == IF r.sectionEmpty THEN [r EXCEPT !.hidden = TRUE, !.hint = r.host] ELSE r

\* #syncEmptyState: by the rows in the document, those that collapse included.
SyncEmptyState(r) ==
  LET empty == r.children = <<>> /\ r.leaving = {}
  IN  CASE empty /\ ~r.sectionEmpty ->
             [r EXCEPT !.sectionEmpty = TRUE, !.hint = FALSE, !.fading = TRUE,
                       !.ends = @ + 1, !.hideTimer = TRUE]
        [] ~empty /\ r.sectionEmpty ->
             [r EXCEPT !.sectionEmpty = FALSE, !.hint = FALSE, !.hidden = FALSE,
                       !.fading = FALSE, !.hideTimer = FALSE]
        [] empty /\ r.sectionEmpty -> [r EXCEPT !.hidden = TRUE, !.hint = r.host]
        [] OTHER -> [r EXCEPT !.hint = FALSE]

\* render: rows by pid, each inserted into its slot; a row whose player is gone is
\* dropped from the registry and collapses, pushed behind the others.
RenderRoster(r, others, host) ==
  LET frame == r.frames + 1
      live == ToSet(r.children)
      row(pid) == IF \E x \in live : x.pid = pid THEN CHOOSE x \in live : x.pid = pid
                  ELSE [pid |-> pid, built |-> frame]
      shown == [i \in DOMAIN others |-> row(others[i])]
  IN  SyncEmptyState([r EXCEPT !.frames = frame, !.children = shown, !.host = host,
                               !.leaving = @ \cup (live \ ToSet(shown))])

LobbyFrame ==
  /\ roster.frames < MaxFrames
  /\ \E pids \in SUBSET Guests :
       \E others \in SetToSeqs(pids), host \in BOOLEAN :
         /\ roster' = RenderRoster(roster, others, host)
         /\ guests' = others

\* A row has collapsed, by its transition or 400 ms later.
RowGone ==
  /\ \E x \in roster.leaving :
       roster' = SyncEmptyState([roster EXCEPT !.leaving = @ \ {x}])
  /\ UNCHANGED guests

HideTimer ==
  /\ roster.hideTimer
  /\ roster' = Reveal([roster EXCEPT !.hideTimer = FALSE])
  /\ UNCHANGED guests

\* An opacity transition of the section, or of a row in it, ends: it calls the
\* listeners of every fade so far, those of a fade that was cut short too.
FadeEnd ==
  /\ roster.ends > 0 /\ ~roster.hidden
  /\ roster' = Reveal([roster EXCEPT !.ends = 0])
  /\ UNCHANGED guests

RosterNext == LobbyFrame \/ RowGone \/ HideTimer \/ FadeEnd

RosterSpec == RosterInit /\ [][RosterNext]_rosterVars

-----------------------------------------------------------------------------
(* Properties.                                                             *)

\* Once nothing collapses or fades any more, the list is the others of the last frame
\* in their order, and the section is in view exactly when it has a row; when it has
\* none the hint stands in its place, for the host.
RosterSettles ==
  roster.leaving = {} /\ ~roster.hideTimer /\ roster.frames > 0 =>
    /\ [i \in DOMAIN roster.children |-> roster.children[i].pid] = guests
    /\ roster.hidden <=> guests = <<>>
    /\ roster.hint <=> guests = <<>> /\ roster.host
    /\ guests # <<>> => ~roster.fading

===============================================================================
