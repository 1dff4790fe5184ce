------------------------------ MODULE AudioShare ------------------------------
(***************************************************************************)
(* A game code sent from phone to phone as a melody: audio-share.js, with  *)
(* the Listen button of the join sheet (landing-screen.js) at the far end. *)
(*                                                                         *)
(* A tone is named by its place in SYMBOLS and reaches the decoder as      *)
(* stretches of equal polls.  The room may cut a tone short, swallow it,   *)
(* let it flicker, or push it to the next frequency.                       *)
(***************************************************************************)
EXTENDS Integers, Sequences, FiniteSets

CONSTANTS Codes,     \* the codes a host may play, as letter indices
          MaxNoise   \* bound: tones that do not arrive as played

Letters == 0..25

CodeLen == 5

Repeats == 4

NoCode == <<>>

ASSUME AudioConstants ==
  /\ \A code \in Codes : code \in Seq(Letters) /\ Len(code) = CodeLen
  /\ MaxNoise \in Nat

VARIABLES air,  \* the melody in the air
          ear   \* the Listen button, its promise and the decoder behind it

audioVars == <<air, ear>>

-----------------------------------------------------------------------------
(* The frame.                                                              *)

Start == 0
Letter(l) == l + 1
Sep == 27
End == 28
Silence == 29

Checksum(code) == (code[1] + code[2] + code[3] + code[4] + code[5]) % 26

Framed(code) == Append(code, Checksum(code))

\* What a repetition sounds like: START L1 sep ... sep CHK END, and the gap.
Melody(code) ==
  [i \in 1..(2 * CodeLen + 4) |->
     CASE i = 1 -> Start
       [] i = 2 * CodeLen + 3 -> End
       [] i = 2 * CodeLen + 4 -> Silence
       [] i % 2 = 0 /\ i <= 2 * CodeLen + 2 -> Letter(Framed(code)[i \div 2])
       [] OTHER -> Sep]

\* Polls of 16 ms that a tone lasts, and that it takes to believe in it.
Polls(s) == CASE s = Start -> 12 [] s = Sep -> 4 [] s = End -> 6 [] s = Silence -> 15
              [] OTHER -> 9

Needed(s) == CASE s = Start -> 6 [] s = Sep -> 2 [] OTHER -> 3

-----------------------------------------------------------------------------
(* The decoder.                                                            *)

ValidFrame(frame) == Len(frame) = CodeLen + 1 /\ frame[CodeLen + 1] = Checksum(frame)

\* The letter most frames have at pos; of equals, the one heard first.
Voted(frames, pos) ==
  LET votes(k) == Cardinality({j \in DOMAIN frames : frames[j][pos] = frames[k][pos]})
      best == CHOOSE k \in DOMAIN frames :
                \A j \in DOMAIN frames : votes(j) < votes(k) \/ (votes(j) = votes(k) /\ k <= j)
  IN  frames[best][pos]

Vote(frames) == [pos \in 1..(CodeLen + 1) |-> Voted(frames, pos)]

\* The letter the checksum demands at pos, given the others.
Fixed(frame, pos) ==
  IF pos = CodeLen + 1 THEN Checksum(frame)
  ELSE (frame[CodeLen + 1] - (Checksum(frame) - frame[pos])) % 26

\* Mutant: the checksum alone is enough for a repair.
RepairsAlone(frames) ==
  {r \in (DOMAIN frames) \X (1..(CodeLen + 1)) :
     Fixed(frames[r[1]], r[2]) # frames[r[1]][r[2]]}

\* Repairs of one letter that another frame corroborates, as <<frame, position>>.
Repairs(frames) ==
  {r \in (DOMAIN frames) \X (1..(CodeLen + 1)) :
     LET fixed == Fixed(frames[r[1]], r[2])
     IN  /\ fixed # frames[r[1]][r[2]]
         /\ \E other \in DOMAIN frames :
              frames[other] # frames[r[1]] /\ frames[other][r[2]] = fixed}

\* recoverFrame: the vote of two frames or more, else the first repair, or nothing.
Recover(frames) ==
  IF Len(frames) >= 2 /\ ValidFrame(Vote(frames)) THEN Vote(frames)
  ELSE IF Repairs(frames) = {} THEN NoCode
  ELSE LET r == CHOOSE r \in Repairs(frames) :
                  \A q \in Repairs(frames) : r[1] < q[1] \/ (r[1] = q[1] /\ r[2] <= q[2])
       IN  [frames[r[1]] EXCEPT ![r[2]] = Fixed(frames[r[1]], r[2])]

NoRun == [run |-> Silence, length |-> 0, last |-> Silence, collecting |-> FALSE,
          letters |-> <<>>, frames |-> <<>>]

Found(e, frame) ==
  [e EXCEPT !.phase = "off", !.box = SubSeq(frame, 1, CodeLen), !.dec = NoRun]

\* The end tone: a valid frame, or one more piece of evidence.
EndFrame(e) ==
  LET letters == e.dec.letters
      frames == IF Len(letters) = CodeLen + 1 THEN Append(e.dec.frames, letters)
                ELSE e.dec.frames
      recovered == IF frames # e.dec.frames THEN Recover(frames) ELSE NoCode
  IN  IF ValidFrame(letters) THEN Found(e, letters)
      ELSE IF recovered # NoCode THEN Found(e, recovered)
      ELSE [e EXCEPT !.dec.frames = frames, !.dec.collecting = FALSE, !.dec.letters = <<>>]

\* Mutant: a start tone does not discard the frame that was cut off.
BeginFrameOnTop(e) == [e EXCEPT !.dec.collecting = TRUE]

BeginFrame(e) == [e EXCEPT !.dec.collecting = TRUE, !.dec.letters = <<>>]

\* Mutant: letters run on when a delimiter was missed.
MoreLettersUnbounded(e, letter) == [e EXCEPT !.dec.letters = Append(@, letter)]

MoreLetters(e, letter) ==
  IF Len(e.dec.letters) > CodeLen
  THEN [e EXCEPT !.dec.collecting = FALSE, !.dec.letters = <<>>]
  ELSE [e EXCEPT !.dec.letters = Append(@, letter)]

ConfirmSegment(before, s) ==
  LET e == [before EXCEPT !.dec.last = s]
  IN  CASE s = before.dec.last \/ s \in {Silence, Sep} -> e
        [] s # before.dec.last /\ s = Start -> BeginFrame(e)
        [] s # before.dec.last /\ s = End /\ e.dec.collecting -> EndFrame(e)
        [] s # before.dec.last /\ s \in 1..26 /\ e.dec.collecting -> MoreLetters(e, s - 1)
        [] OTHER -> e

\* n polls in a row in which s is the strongest symbol.
Poll(e, s, n) ==
  LET so_far == IF s = e.dec.run THEN e.dec.length ELSE 0
      polled == [e EXCEPT !.dec.run = s, !.dec.length = IF so_far + n > 6 THEN 6 ELSE so_far + n]
  IN  IF e.phase = "on" /\ so_far < Needed(s) /\ so_far + n >= Needed(s)
      THEN ConfirmSegment(polled, s)
      ELSE IF e.phase = "on" THEN polled ELSE e

-----------------------------------------------------------------------------
(* The host's phone and the room.                                          *)

Quiet == [code |-> NoCode, repeat |-> 1, slot |-> 1]

\* box: the code field.  signal: the controller has aborted.  Ghosts: whole,
\* how much of this repetition was heard as played; noise, tones disturbed; wrong,
\* letters taken for other letters; broken, whether a delimiter was taken for
\* something else or the reverse.
Deaf == [phase |-> "off", signal |-> FALSE, box |-> NoCode, message |-> "none",
         dec |-> NoRun, whole |-> 0, noise |-> 0, wrong |-> 0, broken |-> FALSE]

AudioTypeOK ==
  /\ air \in [code : Codes \cup {NoCode}, repeat : 1..Repeats, slot : 1..(2 * CodeLen + 4)]
  /\ ear.phase \in {"off", "asking", "on"}
  /\ ear.message \in {"none", "permission", "timeout", "unsupported"}
  /\ ear.dec.letters \in Seq(Letters) /\ Len(ear.dec.letters) <= CodeLen + 1
  /\ \A k \in DOMAIN ear.dec.frames : ear.dec.frames[k] \in [1..(CodeLen + 1) -> Letters]

AudioInit == air = Quiet /\ ear = Deaf

\* #playCode: one melody at a time.
PlayCode ==
  /\ air = Quiet
  /\ ear.box = NoCode
  /\ \E code \in Codes : air' = [Quiet EXCEPT !.code = code]
  /\ UNCHANGED ear

Advanced ==
  CASE air.slot < 2 * CodeLen + 4 -> [air EXCEPT !.slot = @ + 1]
    [] air.slot = 2 * CodeLen + 4 /\ air.repeat < Repeats ->
         [air EXCEPT !.slot = 1, !.repeat = @ + 1]
    [] OTHER -> Quiet

Tone == Melody(air.code)[air.slot]

\* ear, after a tone heard as played; whole counts from the start tone on.
Whole == CASE air.slot = 1 -> 1
           [] ear.whole = air.slot - 1 -> air.slot
           [] OTHER -> 0

HearTone ==
  /\ air # Quiet
  /\ ear' = IF ear.phase = "on" THEN [Poll(ear, Tone, Polls(Tone)) EXCEPT !.whole = Whole]
            ELSE ear
  /\ air' = Advanced

Disturbed == [ear EXCEPT !.noise = @ + 1]

\* The neighbouring tones ring over it: too short to confirm, or not heard at all.
MissTone ==
  /\ air # Quiet /\ ear.phase = "on" /\ ear.noise < MaxNoise /\ Tone # Silence
  /\ \E n \in {0, Needed(Tone) - 1} :
       ear' = [IF n = 0 THEN Disturbed ELSE Poll(Disturbed, Tone, n) EXCEPT !.whole = 0]
  /\ air' = Advanced

Mistaken(s) ==
  IF {s, Tone} \subseteq 1..26 THEN [Disturbed EXCEPT !.wrong = @ + 1]
  ELSE [Disturbed EXCEPT !.broken = TRUE]

\* The strongest bin is that of the next symbol.
MishearTone ==
  /\ air # Quiet /\ ear.phase = "on" /\ ear.noise < MaxNoise /\ Tone # Silence
  /\ \E s \in {Tone - 1, Tone + 1} \cap (0..28) :
       ear' = [Poll(Mistaken(s), s, Polls(Tone)) EXCEPT !.whole = 0]
  /\ air' = Advanced

\* A single false poll in the middle of a letter.
FlickerTone ==
  /\ air # Quiet /\ ear.phase = "on" /\ ear.noise < MaxNoise /\ Tone \in 1..26
  /\ \E s \in {Silence, Sep} :
       ear' = [Poll(Poll(Poll(Disturbed, Tone, 4), s, 1), Tone, 4) EXCEPT !.whole = Whole]
  /\ air' = Advanced

-----------------------------------------------------------------------------
(* The Listen button.                                                      *)

Settle(e, message) == [e EXCEPT !.phase = "off", !.signal = FALSE, !.message = message,
                                !.dec = NoRun, !.whole = 0]

\* #toggleListen and onClosed of the sheet: a second tap, or leaving, aborts.
Listen ==
  /\ ear.phase = "off" /\ ear.box = NoCode
  /\ ear' = [ear EXCEPT !.phase = "asking", !.message = "none"]
  /\ UNCHANGED air

CancelListen ==
  /\ ear.phase # "off"
  /\ ear' = IF ear.phase = "on" THEN Settle(ear, "none") ELSE [ear EXCEPT !.signal = TRUE]
  /\ UNCHANGED air

\* getUserMedia and resume have settled.  When the signal has aborted by then,
\* decodeFromNode runs its cleanup ahead of the declaration of poller and fails
\* with a ReferenceError, which the button takes for a browser without support.
Microphone ==
  /\ ear.phase = "asking"
  /\ \/ ear' = IF ear.signal THEN Settle(ear, "unsupported") ELSE [ear EXCEPT !.phase = "on"]
     \/ ear' = Settle(ear, IF ear.signal THEN "none" ELSE "permission")
  /\ UNCHANGED air

ListenTimeout ==
  /\ ear.phase = "on" /\ air = Quiet
  /\ ear' = Settle(ear, "timeout")
  /\ UNCHANGED air

AudioNext == \/ PlayCode \/ HearTone \/ MissTone \/ MishearTone \/ FlickerTone
             \/ Listen \/ CancelListen \/ Microphone \/ ListenTimeout

AudioSpec == AudioInit /\ [][AudioNext]_audioVars

-----------------------------------------------------------------------------
(* Properties.                                                             *)

\* One repetition heard as it was played is enough, whatever was heard before it:
\* its end tone puts the code in the field.
OneFrameIsEnough == ear.whole >= 2 * CodeLen + 3 => ear.box # NoCode

\* A code in the field is the code played, whatever was missed, as long as no more
\* than one letter was taken for another and every delimiter for what it is: neither
\* the vote nor a repair nor two halves of repetitions make up a code of their own.
CodeIsPlayed ==
  ear.box # NoCode /\ air # Quiet /\ ear.wrong <= 1 /\ ~ear.broken => ear.box = air.code

===============================================================================
