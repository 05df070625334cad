--------------------------- MODULE MCRegistryProxy ---------------------------
(***************************************************************************)
(* Two accounts of which one exists, paths of up to two segments below    *)
(* the account, a client that may or may not send X-Forwarded-For, and a  *)
(* remote address that may be unknown.                                    *)
(***************************************************************************)
EXTENDS RegistryProxy, TLC

CONSTANTS NoForwardValue

MCAccounts == {"acme"}
MCAccountNames == {"acme", "ghost"}
MCRestPaths == {<<>>, <<"manifests">>, <<"blobs", "/", "uploads">>}
MCClientXFF == {"", "10.0.0.9"}
MCRemoteAddrs == {"", "10.0.0.1:5555"}
MCHostOf == ("10.0.0.1:5555" :> "10.0.0.1")
MCHostPort == ("acme" :> "127.0.0.1:10001")
=============================================================================
