------------------------------ MODULE MCLcpCli ------------------------------
(***************************************************************************)
(* LcpCli for TLC: x.lcpl in two directories, for two publications, and    *)
(* x.decrypted.lcpl, whose download goes where the others' output goes.    *)
(***************************************************************************)
EXTENDS LcpCli

MCBookOf == [here |-> "one", there |-> "two", above |-> "one"]
MCTempOf == [here |-> "x.epub", there |-> "x.epub", above |-> "x.decrypted.epub"]
MCOutputOf ==
    [here |-> "x.decrypted.epub", there |-> "x.decrypted.epub",
     above |-> "x.decrypted.decrypted.epub"]
=============================================================================
