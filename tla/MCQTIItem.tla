----------------------------- MODULE MCQTIItem -----------------------------
(***************************************************************************)
(* Small questions for QTIItem.  The prompt and the options do not depend  *)
(* on each other, so one of them is varied at a time: every package of up  *)
(* to two media and prompt with up to two references, without options, and *)
(* every question with up to four options and three keys, without          *)
(* media.                                                                  *)
(*                                                                         *)
(* The media are 1.png, 11.png and 2.png, in the root or in a directory;   *)
(* the names of the stored files end in 1 and in f.                        *)
(***************************************************************************)
EXTENDS QTIItem

Tokens == {"1", "2", "e", "f", ".png", "images/", "/uploads/media/"}

One == <<"1", ".png">>
Eleven == <<"1", "1", ".png">>
Two == <<"2", ".png">>

Bases == {One, Eleven, Two}

\* The last digit of the uuid stands for all of them.
Stored(digits) == {<<"/uploads/media/", x, ".png">> : x \in digits}
Uuids == Stored({"1", "f"})
ClearUuids == Stored({"e", "f"})

Questions ==
    {[files |-> f, refs |-> r, given |-> << >>, key |-> << >>, multiple |-> FALSE] :
        f \in BoundedSeq(Path, 2), r \in BoundedSeq(Path, 2)}
    \cup
    {[files |-> << >>, refs |-> << >>, given |-> g, key |-> k, multiple |-> m] :
        g \in BoundedSeq(Identifier, 4), k \in BoundedSeq(Identifier, 3), m \in BOOLEAN}

\* Rewrite is what the community modules define by the best of all ways to cut
\* a text into pieces, and ReplaceIn is Rewrite.
ASSUME RewriteAssumption ==
    \A text \in BoundedSeq({"1", "f"}, 3), name \in BoundedSeq({"1", "f"}, 3) \ {<< >>} :
        LET new == <<"f", "1">> IN
        /\ Rewrite(text, name, new) = ReplaceAllSubSeqs(new, name, text)
        /\ ReplaceIn(text, name, new) = Rewrite(text, name, new)
============================================================================
