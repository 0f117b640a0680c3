------------------------------- MODULE MCApp -------------------------------
(* An instance of CommissionerApp for TLC.                                 *)
EXTENDS CommissionerApp

\* Every field, one that is set at once with one that is set with a delay.
SomeFieldSets ==
    {{"ChannelMask", "Channel"}, {"ExtendedPanId", "MeshLocalPrefix"},
     {"NetworkName", "NetworkMasterKey"}, {"PSKc", "PanId"}, {"SecurityPolicy"},
     {"TriHostname", "RegistrarHostname"}}
=============================================================================
