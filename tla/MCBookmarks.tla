---------------------------- MODULE MCBookmarks ----------------------------
(* Instances of Bookmarks for TLC. *)
EXTENDS Bookmarks, TLC

CONSTANTS i1, i2, w1, w2, r1, r2, l1, l2, p1

Caller(reader, login) == [reader |-> reader, login |-> login, policy |-> p1]

FirstReader == {Caller(r1, l1)}
TwoReaders  == {Caller(r1, l1), Caller(r2, l2)}

\* The two callers are interchangeable with their logins.
CallersSwapped == r1 :> r2 @@ r2 :> r1 @@ l1 :> l2 @@ l2 :> l1

Interchangeable ==
  Permutations({w1, w2}) \cup Permutations({i1, i2}) \cup {CallersSwapped}
=============================================================================
