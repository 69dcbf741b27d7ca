---------------------------- MODULE MCUriMatching ----------------------------
(* Three characters make segments of one and of two letters and slashes in *)
(* every place; the other roots begin with, extend or equal the varying    *)
(* one.                                                                    *)
EXTENDS UriMatching

MCNumberOf == <<>>
MCOtherRoots == {<<"a">>, <<"/", "a">>, <<"a", "/", "b">>, <<"/", "a", "/", "b">>, <<"/">>}
=============================================================================
