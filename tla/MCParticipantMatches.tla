------------------------ MODULE MCParticipantMatches ------------------------
(* Two bibs that texts show as a token, only as digits, or both of them.   *)
EXTENDS ParticipantMatches, TLC

CONSTANTS r1, r2, x1, x2, p1, p2, a, b

Bib1 == <<"1", "2">>
Bib2 == <<"3">>
TwoBibs == {Bib1, Bib2}
SomeTexts == {<<"M", "1", "2">>, <<"3", "-", "1", "2">>, <<"3">>}
TwoPhotos == {p1, p2}
LatestFirst == <<p1, p2>>
OnePhoto == {p1}
SomeReadings ==
  {(p1 :> <<"M", "1", "2">>) @@ (p2 :> last) : last \in {<<"3", "-", "1", "2">>, <<"3">>}}
TwoPersons == {x1, x2}
TwoRequests == {r1, r2}
TwoSessions == {a, b}
Interchangeable ==
  Permutations(TwoPersons) \union Permutations(TwoRequests) \union Permutations(TwoSessions)
=============================================================================
