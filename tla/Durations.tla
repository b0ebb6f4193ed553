----------------------------- MODULE Durations ------------------------------
(***************************************************************************)
(* The two functions of parsers/annotation_parsers.go that make seconds of *)
(* a text: parseTimeWithUnits, for expires and keep-alive, and             *)
(* parseTimeout, for the timeouts of services.                             *)
(*                                                                         *)
(* A text is cut at the ends of its units: "1h10m" is the pieces <<1, h>>  *)
(* and <<10, m>>.  Texts that cannot be cut are in no domain.              *)
(***************************************************************************)
EXTENDS Integers, Sequences
LOCAL Seqs == INSTANCE SequencesExt

CONSTANT Pieces     \* texts -> sequences of [digits, unit]

NoDigits == -1      \* a unit without digits before it
NoUnit == ""        \* digits at the end of the text

-----------------------------------------------------------------------------
UnitSeconds ==
    [unit \in {"h", "m", "s"} |-> CASE unit = "h" -> 3600
                                    [] unit = "m" -> 60
                                    [] unit = "s" -> 1]

(* Digits that no unit follows are read, and neither counted nor refused.   *)
ValidTime(text) ==
    /\ text \in DOMAIN Pieces
    /\ \A k \in DOMAIN Pieces[text] :
          \/ Pieces[text][k].unit = NoUnit
          \/ /\ Pieces[text][k].unit \in DOMAIN UnitSeconds
             /\ Pieces[text][k].digits # NoDigits

PieceSeconds(piece) ==
    IF piece.unit = NoUnit THEN 0 ELSE piece.digits * UnitSeconds[piece.unit]

TimeWithUnits(text) ==
    Seqs!FoldLeft(LAMBDA total, piece : total + PieceSeconds(piece), 0, Pieces[text])

-----------------------------------------------------------------------------
(* A timeout is one number with one unit; minutes are the only unit that is *)
(* converted, the other numbers are taken for seconds.                      *)
ValidTimeout(text) ==
    /\ text \in DOMAIN Pieces
    /\ Len(Pieces[text]) = 1
    /\ Pieces[text][1].digits # NoDigits
    /\ Pieces[text][1].unit \in {"ms", "s", "m", "h", "w"}

Timeout(text) ==
    Pieces[text][1].digits * (IF Pieces[text][1].unit = "m" THEN 60 ELSE 1)
=============================================================================
