-------------------------- MODULE MCGatewayStream --------------------------
(***************************************************************************)
(* The instances of MCRuntimeGateway for GatewayStream.                    *)
(***************************************************************************)
EXTENDS GatewayStream, MCRuntimeGateway
=============================================================================
