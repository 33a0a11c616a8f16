------------------------ MODULE MCEnumerateCallInst ------------------------
(* Five instructions: calls with and without uses, one indirect, one whose
   value is used by another call, one C++ invoke and one plain invoke. *)
EXTENDS EnumerateCallInst, TLC

CONSTANTS c1, c2, i1, c3, i2

MCLayout == <<c1, i1, c2, c3, i2>>
MCInvoke == {i1, i2}
MCRaw == c1 :> "join" @@ i1 :> "_join" @@ c2 :> "join" @@ c3 :> "indirect"
           @@ i2 :> "join"
MCCpp == [MCRaw EXCEPT ![i1] = "cppjoin"]
MCNames == {"join", "_join", "cppjoin"}
MCUsers == c1 :> {c2} @@ i1 :> {"other"} @@ c2 :> {} @@ c3 :> {} @@ i2 :> {}
=============================================================================
