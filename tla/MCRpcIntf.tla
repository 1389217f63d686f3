----------------------------- MODULE MCRpcIntf -----------------------------
(* An instance of RpcIntf for TLC: as in rpc_cmd_list, the known commands    *)
(* leave a gap below the last one.                                           *)
EXTENDS RpcIntf

TwoOfThree == {0, 2}
=============================================================================
