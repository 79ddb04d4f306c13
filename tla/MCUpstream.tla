----------------------------- MODULE MCUpstream -----------------------------
(***************************************************************************)
(* Connections for the run of Upstream.                                    *)
(***************************************************************************)
EXTENDS MCProxy, Upstream

\* Handlers that store, find expired and delete the same entry, with requests
\* that do not store it again and fail at their second fragment.
EndingConnections ==
    Posts({"acme-key"}, {Chat(<<Aged("message:sys")>>),
                         Chat(<<Forbidding("message:sys"), Item("message:doc", Malformed)>>)})
EndingRequests == RequestsOf(EndingConnections)
EndingBodies == BodiesOf(EndingConnections)
=============================================================================
