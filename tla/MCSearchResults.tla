--------------------------- MODULE MCSearchResults ---------------------------
(* Four photos, one with two faces, and two selfies on a line of scenes.   *)
EXTENDS SearchResults

CONSTANTS p1, p2, p3, p4, f1, f2, f3, f4, f5, s1, s2

FourPhotos == {p1, p2, p3, p4}
FiveFaces == {f1, f2, f3, f4, f5}
Came == (p1 :> 1) @@ (p2 :> 2) @@ (p3 :> 3) @@ (p4 :> 4)
OnPhoto == (f1 :> p1) @@ (f2 :> p2) @@ (f3 :> p3) @@ (f4 :> p4) @@ (f5 :> p4)
Sizes == (f1 :> 4) @@ (f2 :> 5) @@ (f3 :> 6) @@ (f4 :> 9) @@ (f5 :> 7)
TwoOrders == {<<f1, f2, f3, f4, f5>>, <<f5, f3, f4, f2, f1>>}

TheBib == <<"1", "2", "3", "4">>
\* The bib, the bib in a longer text, all but one digit, a scattered reading, none.
Plain == <<"1", "2", "3", "4">>
Exact == <<"M", "1", "2", "3", "4">>
Most == <<"1", "2", "3">>
Scattered == <<"1", "9", "3", "4">>
Other == <<"9", "9">>
AllTexts == {Plain, Exact, Most, Scattered, Other}

Placed(xs) == (f1 :> xs[1]) @@ (f2 :> xs[2]) @@ (f3 :> xs[3]) @@ (f4 :> xs[4]) @@ (f5 :> xs[5])
              @@ (s1 :> xs[6]) @@ (s2 :> xs[7])
Written(ts) == (p1 :> ts[1]) @@ (p2 :> ts[2]) @@ (p3 :> ts[3]) @@ (p4 :> ts[4])

\* The faces or the text of one photo may come late.
OneLate == [faces : {{}, {p4}}, texts : {{}}] \union [faces : {{}}, texts : {{p1}}]

\* A chain of faces, two groups, all around a selfie, one runner among others.
SomeScenes ==
  {<<"hybrid", Placed(<<2, 4, 6, 8, 9, 0, 3>>), Written(<<Plain, Exact, Exact, Exact>>)>>,
   <<"hybrid", Placed(<<1, 1, 1, 0, 2, 0, 5>>), Written(<<Other, Scattered, Exact, Most>>)>>,
   <<"hybrid", Placed(<<3, 3, 8, 9, 7, 0, 0>>), Written(<<Other, Most, Exact, Scattered>>)>>,
   <<"bib_only", Placed(<<9, 1, 2, 7, 1, 0, 0>>), Written(<<Exact, Exact, Exact, Exact>>)>>,
   <<"bib_only", Placed(<<1, 3, 9, 7, 5, 0, 0>>), Written(<<Plain, Exact, Exact, Other>>)>>,
   <<"bib_only", Placed(<<1, 3, 2, 7, 5, 0, 0>>), Written(<<Exact, Other, Most, Other>>)>>}
=============================================================================
