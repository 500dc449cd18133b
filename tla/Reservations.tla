---------------------------- MODULE Reservations ----------------------------
(***************************************************************************)
(* src/app/reservations.py: the read-only directory the kiosk searches.    *)
(*                                                                         *)
(* A text is a sequence of characters.  Fold gives the form that NFKC and  *)
(* the change of case give a character (a full-width digit is a digit, an  *)
(* ideographic space a space, "A" is "a"); casefold() of names and upper() *)
(* of numbers tell the same characters apart.  A field a record lacks is   *)
(* the empty text, which is what the three _normalize functions make of    *)
(* it.                                                                     *)
(***************************************************************************)
EXTENDS Naturals, Sequences

CONSTANTS Record,    \* of each reservation its texts: name, kana, number, phone
          Letters, Digits, Spaces,  \* folded characters; any other is a sign
          Fold,      \* a character's folded form
          Queries    \* what guests type

Fields == {"name", "kana", "number", "phone"}

(* The tables know every character that is written or typed, and a space   *)
(* is neither a letter nor a digit.                                        *)
ASSUME DirectoryAssumption ==
    /\ \A g \in DOMAIN Record : \A field \in Fields : Record[g][field] \in Seq(DOMAIN Fold)
    /\ Queries \subseteq Seq(DOMAIN Fold)
    /\ Spaces \cap (Letters \cup Digits) = {}

Folded(text) == [i \in DOMAIN text |-> Fold[text[i]]]

(* The characters of a text that are among chars, in their order.          *)
Kept(text, chars) ==
    LET kept[n \in 0..Len(text)] ==
            IF n = 0 THEN <<>>
            ELSE IF text[n] \in chars THEN Append(kept[n - 1], text[n])
            ELSE kept[n - 1]
    IN  kept[Len(text)]

FoldedChars == {Fold[ch] : ch \in DOMAIN Fold}

NormalizeName(text)   == Kept(Folded(text), FoldedChars \ Spaces)
NormalizeNumber(text) == Kept(Folded(text), Letters \cup Digits)
NormalizePhone(text)  == Kept(Folded(text), Digits)

NamesOf(g) == {NormalizeName(Record[g].name), NormalizeName(Record[g].kana)}

Within(key, text) ==
    \E i \in 0..Len(text) - Len(key) : SubSeq(text, i + 1, i + Len(key)) = key

(* A key that is empty finds nobody, although it is equal to the key of a  *)
(* field that is missing.                                                  *)
MatchesExactly(g, query) ==
    \/ NormalizeNumber(query) # <<>>
       /\ NormalizeNumber(Record[g].number) = NormalizeNumber(query)
    \/ NormalizePhone(query) # <<>>
       /\ NormalizePhone(Record[g].phone) = NormalizePhone(query)
    \/ NormalizeName(query) \in NamesOf(g)

MatchesPartially(g, query) ==
    \E name \in NamesOf(g) : name # <<>> /\ Within(NormalizeName(query), name)

(* Mutant: the partial matches are listed with the exact ones.             *)
Matches_All(query) ==
    IF NormalizeName(query) = <<>> THEN {}
    ELSE {g \in DOMAIN Record : MatchesExactly(g, query) \/ MatchesPartially(g, query)}

(* ReservationStore.search                                                 *)
Matches(query) ==
    LET exact == {g \in DOMAIN Record : MatchesExactly(g, query)}
    IN  IF NormalizeName(query) = <<>> THEN {}
        ELSE IF exact # {} THEN exact
        ELSE {g \in DOMAIN Record : MatchesPartially(g, query)}

-----------------------------------------------------------------------------
(* What a reader of the directory would call related: the query is one of  *)
(* the texts the reservation has, letter by letter and digit by digit.     *)
Related(g, query) ==
    \E field \in Fields :
        /\ Record[g][field] # <<>>
        /\ NormalizeNumber(Record[g][field]) = NormalizeNumber(query)

(* The digits of nobody's name are somebody's phone.                       *)
NoNameHoldsAPhone ==
    \A g, other \in DOMAIN Record : \A field \in {"name", "kana"} :
        NormalizePhone(Record[g][field]) = NormalizePhone(Record[other].phone) =>
            NormalizePhone(Record[g][field]) = <<>>

(* search's docstring: "a full name never drags in unrelated guests".  A   *)
(* query that is somebody's full name finds that guest, however spaced,    *)
(* and besides only guests one of whose own texts it is: nobody whose name *)
(* contains it, and nobody through a phone or kana that is missing.        *)
FullNameFindsItsOwn ==
    \A query \in Queries : \A g \in DOMAIN Record :
        NormalizeName(query) # <<>> /\ NormalizeName(query) \in NamesOf(g) =>
            g \in Matches(query) /\ \A other \in Matches(query) : Related(other, query)
=============================================================================
