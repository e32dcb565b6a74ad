---------------------------- MODULE MCSystemStart ----------------------------
(* Boot modules: as limine.cfg has them, and with an IO server.            *)
EXTENDS SystemStart

MCModules == {<<>>, <<"vfs">>}
=============================================================================
