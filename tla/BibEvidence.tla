----------------------------- MODULE BibEvidence -----------------------------
(***************************************************************************)
(* How the text that OCR read on a photo is compared with a bib number.    *)
(* A text is a sequence of characters that are upper case already; what is *)
(* neither a letter nor a digit only separates.                            *)
(***************************************************************************)
EXTENDS Naturals, Sequences, FiniteSets

CONSTANTS
  Letters,
  Digits

Alphanumeric == Letters \union Digits

MaxOf(S) == CHOOSE n \in S : \A k \in S : k <= n

\* normalize_match_token drops everything else and joins what is left.
Normalized(text) ==
  LET kept[i \in 0..Len(text)] ==
        IF i = 0 THEN <<>>
        ELSE IF text[i] \in Alphanumeric THEN Append(kept[i - 1], text[i]) ELSE kept[i - 1]
  IN kept[Len(text)]

\* findall of one or more characters of a class: the maximal runs.
Runs(text, class) ==
  {SubSeq(text, run[1], run[2]) : run \in
     {r \in (1..Len(text)) \X (1..Len(text)) :
        /\ r[1] <= r[2]
        /\ \A k \in r[1]..r[2] : text[k] \in class
        /\ r[1] = 1 \/ text[r[1] - 1] \notin class
        /\ r[2] = Len(text) \/ text[r[2] + 1] \notin class}}

\* photographer.extract_match_candidates, which the rebuild of matches uses.
TokenCandidates(text) ==
  ({Normalized(text)} \union Runs(text, Alphanumeric)) \ {<<>>}

\* face.extract_match_candidates also takes the digits out of mixed tokens.
Candidates(text) == TokenCandidates(text) \union Runs(text, Digits)

IsSubstring(part, whole) ==
  \E i \in 0..(Len(whole) - Len(part)) : part = SubSeq(whole, i + 1, i + Len(part))

\* A mutant of LongestCommonSubstring: the run is not reset on a mismatch.
LongestScattered(left, right) ==
  LET run[i \in 0..Len(left)] ==
        [j \in 0..Len(right) |->
           IF i # 0 /\ j # 0 /\ left[i] = right[j] THEN run[i - 1][j - 1] + 1
           ELSE IF i # 0 /\ j # 0 THEN run[i - 1][j - 1] ELSE 0]
  IN MaxOf({run[i][j] : i \in 0..Len(left), j \in 0..Len(right)})

\* longest_common_substring_length, row by row: run[i][j] is the common run that
\* ends at left[i] and right[j].
LongestCommonSubstring(left, right) ==
  LET run[i \in 0..Len(left)] ==
        [j \in 0..Len(right) |->
           IF i # 0 /\ j # 0 /\ left[i] = right[j] THEN run[i - 1][j - 1] + 1 ELSE 0]
  IN MaxOf({run[i][j] : i \in 0..Len(left), j \in 0..Len(right)})

IsPartial(candidate, target) ==
  /\ Len(target) >= 3 /\ Len(candidate) \in 2..Len(target)
  /\ \/ IsSubstring(candidate, target) /\ Len(candidate) >= Len(target) - 1
     \/ LongestCommonSubstring(candidate, target) >= MaxOf({3, Len(target) - 1})

\* score_bib_evidence over the texts of one photo.
BibStrength(texts, bib) ==
  LET candidates == UNION {Candidates(t) : t \in texts}
      target == Normalized(bib)
  IN IF target \in candidates THEN "strong"
     ELSE IF \E c \in candidates : IsPartial(c, target) THEN "weak"
     ELSE "none"

\* has_exact_bib_match.
HasExactBib(texts, bib) ==
  LET target == Normalized(bib)
  IN target # <<>> /\ \E t \in texts : target \in Candidates(t)
=============================================================================
