------------------------------ MODULE MCEvents ------------------------------
(***************************************************************************)
(* Events for TLC, with the signatures of two versions of the contract.    *)
(***************************************************************************)
EXTENDS Events

\* A deployment whose event has four arguments.
FourArguments == <<"uint32", "uint32", "bytes32", "bytes32">>

\* The event of contracts/src/interfaces/IVectorX.sol.
FiveArguments == <<"uint32", "uint32", "bytes32", "bytes32", "uint32">>
=============================================================================
