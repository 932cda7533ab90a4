---------------------------- MODULE MCServerConn ----------------------------
(* Small instances of ServerConn for TLC.                                  *)
EXTENDS ServerConn
MCPlain == {"plain", "oper"}
MCSlow == {"slow", "plain"}
MCOnlyPlain == {"plain"}
=============================================================================
