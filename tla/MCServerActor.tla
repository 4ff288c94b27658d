---------------------------- MODULE MCServerActor ----------------------------
(* Instances of ServerActor for TLC. *)
EXTENDS ServerActor

\* Irises as <<left, right>>.  The first three are a chain: similarity is not
\* transitive.  The last shares its right eye with all of them and its left eye
\* with none, so it is never a duplicate but may be a supermatcher.
MCIris == {<<1, 1>>, <<2, 2>>, <<3, 3>>, <<9, 2>>}

Close(q, e, eye) ==
    /\ {q, e} \cap {Dummy, Empty} = {}
    /\ q[eye] - e[eye] \in -1 .. 1

MCLeftMatch(q, e) == Close(q, e, 1)
MCRightMatch(q, e) == Close(q, e, 2)

MCStores == {<<>>, << <<1, 1>>, Dummy, <<3, 3>> >>}
MCDeletions == {{}, {0, 3}, {1, 2, MaxDbSize + 1}}
=============================================================================
