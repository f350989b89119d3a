----------------------------- MODULE WindowCut -----------------------------
(***************************************************************************)
(* safeCut: how many leading bytes of a window a reader is shown, so that  *)
(* no character and no escape sequence is broken in two, and the reader    *)
(* gets on all the same.                                                   *)
(*                                                                         *)
(* A window is a sequence of bytes, and a byte is what the cut tells apart. *)
(* Lengths count from 1: to show n bytes is to cut behind the n-th.        *)
(***************************************************************************)
EXTENDS Integers, Sequences, SequencesExt

CONSTANTS
  Lookback,   \* ANSI_LOOKBACK
  MaxTail     \* UTF8_MAX_TAIL

ASSUME CutAssumption == Lookback \in Nat /\ MaxTail \in Nat

Octet == {"text",           \* any other: behind a CSI it ends the sequence
          "csi", "string",  \* [ and one of ]PX^_ : letters too, kinds of sequence behind an ESC
          "st",             \* \ : a letter too, behind an ESC the end of a string sequence
          "par",            \* 0x20-0x3f: goes on with a CSI sequence
          "nl", "bel", "esc",
          "lead", "cont"}   \* UTF-8: first byte of a long character, and the others

Positions(bytes, what) == {i \in 1..Len(bytes) : bytes[i] = what}

-----------------------------------------------------------------------------
(* Behind the last newline; at eof, or if there is none, at the end.       *)
LineEnd(bytes, eof) ==
  LET lines == Positions(bytes, "nl")
  IN  IF eof \/ lines = {} THEN Len(bytes) ELSE Max(lines)

WholeCharsKeepLead(bytes, end) ==  \* mutant: the lead byte of a withheld tail is shown
  end - Max({n \in 0..MaxTail : n <= end /\ \A i \in (end - n + 1)..end : bytes[i] = "cont"})

(* Back over the continuation bytes at the end, and then over their lead.  *)
WholeChars(bytes, end) ==
  LET tail == Max({n \in 0..MaxTail : n <= end /\ \A i \in (end - n + 1)..end : bytes[i] = "cont"})
  IN  IF tail > 0 /\ tail < end /\ bytes[end - tail] = "lead" THEN end - tail - 1 ELSE end - tail

(* Is the sequence that starts at esc over by limit?  (Its search for the  *)
(* ESC of a string's end finds none: esc is the last ESC there is.)        *)
EscapeTerminated(bytes, esc, limit) ==
  /\ esc < limit
  /\ bytes[esc + 1] = "string" => \E i \in (esc + 2)..limit : bytes[i] = "bel"
  /\ bytes[esc + 1] = "csi"    => \E i \in (esc + 2)..limit : bytes[i] # "par"

(* In front of the last ESC, if it is near and its sequence is not over.   *)
WholeEscapes(bytes, end) ==
  LET near == {i \in Positions(bytes, "esc") : i <= end /\ i > end - Lookback}
  IN  IF near # {} /\ ~EscapeTerminated(bytes, Max(near), end) THEN Max(near) - 1 ELSE end

SafeCutMayStall(bytes, eof) ==  \* mutant: no forced split
  [end |-> WholeEscapes(bytes, WholeChars(bytes, LineEnd(bytes, eof))), forcedSplit |-> FALSE]

(* A cut that would show nothing is forced to show the line.               *)
SafeCut(bytes, eof) ==
  LET floorEnd == LineEnd(bytes, eof)
      end      == WholeEscapes(bytes, WholeChars(bytes, floorEnd))
  IN  IF end = 0 THEN [end |-> floorEnd, forcedSplit |-> bytes # <<>>]
                 ELSE [end |-> end, forcedSplit |-> FALSE]

-----------------------------------------------------------------------------
\* What is whole, read from left to right as a terminal does

AfterOctet(mode, octet) ==
  CASE octet = "esc"                                 -> "esc"
    [] mode = "esc" /\ octet = "csi"                 -> "csi"
    [] mode = "esc" /\ octet = "string"              -> "string"
    [] mode = "csi" /\ octet = "par"                 -> "csi"
    [] mode = "string" /\ octet \notin {"bel", "esc"} -> "string"
    [] OTHER                                         -> "ground"

(* The mode behind each byte.                                              *)
Modes(bytes) ==
  LET mode[i \in 0..Len(bytes)] == IF i = 0 THEN "ground" ELSE AfterOctet(mode[i - 1], bytes[i])
  IN  mode

(* Is the cut behind the n-th byte inside a sequence?                      *)
InSequence(bytes, n) == Modes(bytes)[n] # "ground"

(* Is the cut behind the n-th byte inside a character?                     *)
InCharacter(bytes, n) ==
  /\ n < Len(bytes) /\ bytes[n + 1] = "cont"
  /\ \E i \in 1..n : n - i < MaxTail /\ bytes[i] = "lead" /\ \A j \in (i + 1)..n : bytes[j] = "cont"
=============================================================================
