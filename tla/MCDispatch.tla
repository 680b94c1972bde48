------------------------------- MODULE MCDispatch -------------------------------
(* Three loads of the server: five changes of the versions of the main      *)
(* cluster; a dispatch with its run, its exit handler and its polls; and a  *)
(* new cluster with a rollback to a version of another one, a note and a    *)
(* query.                                                                   *)
EXTENDS Dispatch

Request(kind, group, target, serial) == [kind |-> kind, group |-> group, target |-> target, serial |-> serial]
Versioned ==
  {Request("promote", "main", <<"main", 1>>, 1), Request("promote", "main", <<"main", 1>>, 2),
   Request("confirm", "main", <<"main", 2>>, 1),
   Request("rollback", "main", <<"main", 1>>, 1), Request("rollback", "main", <<"main", 2>>, 1)}
Dispatched == {Request("dispatch", "main", <<"main", 1>>, 1)}
Other ==
  {Request("promote", "tech", <<"tech", 1>>, 1), Request("confirm", "tech", <<"tech", 2>>, 1),
   Request("rollback", "main", <<"tech", 1>>, 1), Request("note", "tech", <<"tech", 1>>, 1),
   Request("list", "main", <<"main", 1>>, 1)}
MixedLoads == {Versioned, Dispatched, Other}
MixedRequests == UNION MixedLoads
TwoGroups == {"main", "tech"}
=============================================================================
