----------------------------- MODULE MCDistSession -----------------------------
(* Two workers, five tests in three scopes; under -x the third test fails. *)
EXTENDS DistSession

FiveTests == <<"t1", "t2", "t3", "t4", "t5">>
MCScopeOf == [t1 |-> "a", t2 |-> "b", t3 |-> "b", t4 |-> "b", t5 |-> "c"]
FourTests == <<"t1", "t2", "t3", "t4">>
WithAndWithoutFailure == {{}, {"t3"}}
NoFailure == {{}}
MCDies == [load |-> "ever", worksteal |-> "testing", each |-> "testing", loadscope |-> "never"]
LoadscopeDies == [loadscope |-> "testing"]
StealDies == [worksteal |-> "ever"]
=============================================================================
