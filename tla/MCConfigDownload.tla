-------------------------- MODULE MCConfigDownload --------------------------
(* Two configurations of two blocks, in two data frames and in one; numbers *)
(* from 101 on are DataIDs, from 201 on GVIDs.                              *)
EXTENDS ConfigDownload

MCA == [data |-> <<<<11>>, <<12>>>>, comm |-> <<>>, gv |-> <<<<<<201, 1>>>>>>,
        tasks |-> <<[from |-> 0, to |-> 1]>>]
MCB == [data |-> <<<<21, 22>>>>, comm |-> <<<<101, 102>>>>, gv |-> <<>>,
        tasks |-> <<[from |-> 0, to |-> 0], [from |-> 1, to |-> 1]>>]
MCConfigs == {MCA, MCB}
=============================================================================
