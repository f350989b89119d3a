---------------------------- MODULE OutputWindow ----------------------------
(* OutputStream, which lets a cut be any that shows something, and the cut *)
(* the code makes.  What a cut does depends on its window alone, so all    *)
(* short windows are looked at once, in the initial state.                 *)
EXTENDS OutputStream, WindowCut

CONSTANTS
  MaxText   \* bound: bytes of a window

ASSUME TextAssumption == MaxText \in Nat

(* Windows as UTF-8 has them: no character is longer than a lead and       *)
(* MaxTail continuation bytes.  A window may start inside one.             *)
Windows ==
  {w \in SeqOf(Octet, MaxText) :
     ~\E i \in 1..(Len(w) - MaxTail) : \A j \in i..(i + MaxTail) : w[j] = "cont"}

(* The cut is one of those OutputStream lets it be: it never runs past the *)
(* window, and never shows nothing of one that holds something, whatever   *)
(* halves it would have to withhold, so that polling again gets on.        *)
CutShowsSomething ==
  Init => \A w \in Windows, last \in BOOLEAN : SafeCut(w, last).end \in Cuts(w)

-----------------------------------------------------------------------------
(* Does a cut that is not forced break something?  Before eof the byte     *)
(* behind the window may be any, so it may go on with a character.         *)
Unforced(w, last) == w # <<>> /\ ~SafeCut(w, last).forcedSplit
BreaksCharacter(w, last) ==
  Unforced(w, last) /\ InCharacter(IF last THEN w ELSE Append(w, "cont"), SafeCut(w, last).end)
BreaksSequence(w, last) ==
  Unforced(w, last) /\ InSequence(w, SafeCut(w, last).end)

(* Unless it is forced, a cut breaks a character only behind a lead byte   *)
(* that ends the window, and an escape sequence only in front of an ESC,   *)
(* which may be half of the sequence's end, or when the sequence began out *)
(* of the sight of ANSI_LOOKBACK.                                          *)
CutBreaksLittle ==
  Init => \A w \in Windows, last \in BOOLEAN :
    LET n == SafeCut(w, last).end
    IN  /\ BreaksCharacter(w, last) => n = Len(w) /\ w[n] = "lead"
        /\ BreaksSequence(w, last) =>
             \/ n < Len(w) /\ w[n + 1] = "esc"
             \/ \A i \in Positions(w, "esc") : i <= n => i <= n - Lookback

-----------------------------------------------------------------------------
\* What the sources say that the code does not keep

(* No window boundary falls inside an escape sequence, except a forced one. *)
CutKeepsSequences == Init => \A w \in Windows, last \in BOOLEAN : ~BreaksSequence(w, last)

(* The caller never sees a broken character.                               *)
CutKeepsCharacters == Init => \A w \in Windows, last \in BOOLEAN : ~BreaksCharacter(w, last)

(* Only an escape sequence ever forces a split, as the client is told.     *)
ForcedBySequence ==
  Init => \A w \in Windows, last \in BOOLEAN :
    SafeCut(w, last).forcedSplit => Positions(w, "esc") # {}
=============================================================================
