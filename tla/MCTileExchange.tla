--------------------------- MODULE MCTileExchange ---------------------------
EXTENDS TileExchange, TLC

CONSTANTS a, b, c, d

MCTileOrder == <<a, b, c, d>>
MCSize == (a :> 3) @@ (b :> 1) @@ (c :> 4) @@ (d :> 2)

(* Every set of tiles within the bounds, into a new library or one that    *)
(* holds a tile already; and loads in which flags do not match.            *)
Request(remote, bounds, present, created, ways) ==
  [remote |-> remote, bounds |-> bounds, present |-> present, created |-> created,
   sameGuid |-> TRUE, wayNodeIds |-> ways[1], bundleWayNodes |-> ways[2], storeWayNodes |-> ways[3]]

Plain == <<FALSE, FALSE, FALSE>>
MCRequests ==
  {Request(remote, bounds, {}, TRUE, Plain) : remote \in BOOLEAN, bounds \in SUBSET {a, b, c, d}}
  \cup {Request(remote, bounds, {b}, FALSE, Plain) : remote \in BOOLEAN, bounds \in SUBSET {a, b, c, d}}
  \cup {Request(FALSE, {a}, {}, created, ways) : created \in BOOLEAN, ways \in BOOLEAN \X BOOLEAN \X BOOLEAN}
  \cup {[Request(TRUE, {a}, {}, FALSE, Plain) EXCEPT !.sameGuid = FALSE]}
=============================================================================
