----------------------------- MODULE MCNetConfig -----------------------------
(* Each protocol in use with rows in two packets, and each switched off.    *)
EXTENDS NetConfig

MCConfigs ==
    {[of |-> "modbus", mode |-> "on", rows |-> <<<<1>>, <<2>>>>],
     [of |-> "modbus", mode |-> "off", rows |-> <<>>],
     [of |-> "inet", mode |-> "on", rows |-> <<<<11>>, <<12>>>>],
     [of |-> "inet", mode |-> "off", rows |-> <<>>]}
=============================================================================
