------------------------------ MODULE MCSession ------------------------------
(* Small sessions for TLC: the shapes of chains and the retry policies.     *)
EXTENDS Session

NoStages == <<>>
OneIngress == <<"in1">>
OneEgress == <<"out1">>
TwoEgress == <<"out1", "out2">>

\* Every retry mode, with up to two retries where the number matters.
EveryPolicy ==
  [retry_on : {"always", "connect-failure", "disconnect"}, num_retries : 0 .. 2]
    \union [retry_on : {"never"}, num_retries : {1}]

RetryAlways == [retry_on : {"always"}, num_retries : {2}]
RetryDisconnect == [retry_on : {"disconnect"}, num_retries : {2}]
=============================================================================
