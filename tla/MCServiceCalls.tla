--------------------------- MODULE MCServiceCalls ---------------------------
(***************************************************************************)
(* A small instance of ServiceCalls: one caller makes calls of one kind,   *)
(* whichever it is, the other reads history.                               *)
(***************************************************************************)
EXTENDS ServiceCalls

MCOffers == {{"attribute", "method", "view", "node_management", "history"},
             {"history"}}

OpenRead == [NoDetails EXCEPT !.from = 2]

Each ==
  {Read({"node"}), Write({"node"}), CallMethod("node"), Browse({"node"}),
   TranslateBrowsePaths({"node"}), AddNodes({"node"}), DeleteNodes({"node"}),
   DeleteNodes({"node", OwnUser}), AddReferences({"node"}),
   DeleteReferences({"node"}), HistoryReadEvents("node", 2, 3), Write({})}

MCWorkloads ==
  {[a |-> {request}, b |-> {HistoryReadRaw("node", OpenRead)}] : request \in Each}

=============================================================================
