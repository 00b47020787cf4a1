----------------------------- MODULE MCCanMaster -----------------------------
(* An entry that is read and written; one that is written and one that only *)
(* memory marks to be read; one that is read in vain.  The memory of their  *)
(* dictionaries is marked in part.                                          *)
EXTENDS CanMaster

Heap(upd, dirty, mode) == [upd |-> upd, dirty |-> dirty, mode |-> mode]
Dict(access, reads, outs, heap) ==
    [access |-> access, reads |-> reads, outs |-> outs, heap |-> heap]
MCDicts == {
    Dict(<<"RW">>, {1}, {1}, Heap({}, {1}, <<{"down"}>>)),
    Dict(<<"WO", "RW">>, {}, {1}, Heap({1, 2}, {1}, <<{"up"}, {"up"}>>)),
    Dict(<<"RO">>, {1}, {}, Heap({}, {1}, <<{"up", "down"}>>))}
MCValues == <<{0, 1}, {0}>>
=============================================================================
